------------------------ MODULE PlannerClientProofs ------------------------
(***************************************************************************)
(* Proofs about PlannerClient, for any threads, plans and bounds.          *)
(*                                                                         *)
(* Nothing in a frame ties it to the call that takes it, so the argument   *)
(* is about the stream.  Units arrive in the order they were sent, a frame *)
(* is accepted only as its three units in a row, and requests are numbered *)
(* in the order they are written; so what is left in the stream is always  *)
(* newer than what was taken.  As long as no read failed, there is nothing *)
(* in the stream but the answer of the call under way.                     *)
(***************************************************************************)
EXTENDS PlannerClient, CurrentnessProofs, ListFacts

----------------------------------------------------------------------------
(* Types.                                                                  *)

PlanType == [evidence : [Dimension -> Nat], sequence : Nat]
CoordinatorType == [incarnation : Nat, sequence : Nat, evidence : [Dimension -> Nat]]
FrameType == [op : Op, number : 1..bound.calls, plan : PlanType]

\* A header that starts a frame declares one unit of payload.
HeadType == {h \in Seq(Unit) : Len(h) = HeaderUnits}

CallState ==
    {Idle}
    \cup [phase : {"header"}, op : Op, number : 1..bound.calls, plan : PlanType,
          seen : Seq(CoordinatorType)]
    \cup [phase : {"payload"}, head : HeadType, need : 1..MaxGarbage,
          op : Op, number : 1..bound.calls, plan : PlanType, seen : Seq(CoordinatorType)]

SessionState ==
    {NoSession, Reading}
    \cup [phase : {"working"}, frame : FrameType]
    \cup [phase : {"compared"}, frame : FrameType, currentness : CurrentnessValue]

\* Two threads are never both in a call.
OneCaller == \A t, u \in Thread : calls[t] # Idle /\ calls[u] # Idle => t = u

\* What a disconnected client leaves behind.
Disconnected ==
    socket = 0 => session = NoSession /\ ~eof /\ wire = <<>> /\ inbox = <<>> /\ Lockable

TypeInv ==
    /\ bound \in [calls : Nat, connections : Nat, changes : Nat]
    /\ conn \in 0..bound.connections /\ socket \in {0, conn}
    /\ sequence \in 0..bound.calls
    /\ calls \in [Thread -> CallState]
    /\ outbox \in Seq(FrameType \cup {Torn})
    /\ wire \in Seq(Unit) /\ inbox \in Seq(Unit)
    /\ session \in SessionState
    /\ coordinator \in CoordinatorType
    /\ consumed \in Nat
    /\ eof \in BOOLEAN /\ troubled \in BOOLEAN
    /\ OneCaller
    /\ Disconnected

----------------------------------------------------------------------------
(* The stream.                                                             *)

\* u was sent before v: as part of an earlier answer, or of the same one.
Before(u, v) ==
    \/ u.of.number < v.of.number
    \/ u.of = v.of /\ u.part < v.part

Sorted(s) == \A i, j \in 1..Len(s) : i < j => Before(s[i], s[j])
AllBefore(s, r) == \A i \in 1..Len(s), j \in 1..Len(r) : Before(s[i], r[j])

\* Units arrive in the order they were sent.
UnitOrder ==
    /\ Sorted(inbox) /\ Sorted(wire) /\ AllBefore(inbox, wire)
    /\ \A t \in Thread : calls[t].phase = "payload" =>
           /\ Starts(calls[t].head) => calls[t].need = 1
           /\ Sorted(calls[t].head)
           /\ AllBefore(calls[t].head, inbox) /\ AllBefore(calls[t].head, wire)

\* The answers of which some unit is still to be read or to be accepted.
Arriving ==
    {inbox[i].of : i \in 1..Len(inbox)} \cup {wire[i].of : i \in 1..Len(wire)}
    \cup UNION {{calls[t].head[i].of : i \in 1..Len(calls[t].head)} :
                   t \in {u \in Thread : calls[u].phase = "payload"}}

InHand == session.phase \in {"working", "compared"}

\* The requests the session has not answered yet.
Queued == {outbox[i] : i \in {j \in 1..Len(outbox) : outbox[j].op # "torn"}}
Unanswered == Queued \cup (IF InHand THEN {session.frame} ELSE {})

\* Answers are numbered upwards from what was accepted last, and requests all
\* after the answers.
NumberOrder ==
    /\ consumed <= sequence
    /\ \A t \in Thread : calls[t] # Idle => calls[t].number = sequence
    /\ \A a \in Arriving : consumed < a.number /\ a.number <= sequence /\ a.conn = conn
    /\ \A f \in Unanswered : consumed < f.number /\ f.number <= sequence
    /\ \A a \in Arriving, f \in Unanswered : a.number < f.number

\* The session answers the requests in the order they were numbered.
QueueOrder ==
    /\ InHand => \A f \in Queued : session.frame.number < f.number
    /\ \A i, j \in 1..Len(outbox) :
           i < j /\ outbox[i].op # "torn" /\ outbox[j].op # "torn"
               => outbox[i].number < outbox[j].number

Busy == \E t \in Thread : calls[t] # Idle

\* While no read failed, whatever is under way belongs to the call under way.
OnlyThisCall ==
    ~troubled =>
        /\ \A a \in Arriving : Busy /\ a.number = sequence
        /\ \A f \in Unanswered : Busy /\ f.number = sequence

StreamInv == UnitOrder /\ NumberOrder /\ QueueOrder /\ OnlyThisCall /\ OwnAnswer

----------------------------------------------------------------------------
(* The currentness query.                                                  *)

\* What entitles the coordinator to report a plan as CURRENT.
Earned(plan, seen) ==
    /\ \E i \in 1..Len(seen) : Matches(seen[i], plan)
    /\ \E i \in 1..Len(seen) : seen[i].sequence = plan.sequence
    /\ plan.sequence <= seen[1].sequence =>
           \E i \in 1..Len(seen) : Matches(seen[i], plan) /\ seen[i].sequence = plan.sequence

\* A query that the coordinator has yet to answer has seen only one process,
\* whose sequence rises with every change, up to the present.
Witnessed(seen) ==
    /\ Len(seen) > 0
    /\ \A i, j \in 1..Len(seen) : i < j => seen[i].sequence < seen[j].sequence
    /\ seen[Len(seen)] = coordinator

\* The requests that t waits for are its own query.
AskedBy(t) ==
    \A f \in Unanswered :
        /\ f.op = calls[t].op /\ f.plan = calls[t].plan
        /\ f.op = "VALIDATE_CURRENTNESS" => Witnessed(calls[t].seen)

\* The evidence that the session found to match was there during the query.
ComparedFor(t) ==
    session.phase = "compared" =>
        /\ session.frame.op = "VALIDATE_CURRENTNESS"
        /\ session.currentness = "CURRENT" =>
              \E i \in 1..Len(calls[t].seen) : Matches(calls[t].seen[i], calls[t].plan)

\* CURRENT is on its way to t only when it was earned.
ReportedTo(t) ==
    \A a \in Arriving : a.currentness = "CURRENT" => Earned(calls[t].plan, calls[t].seen)

QueryInv ==
    /\ ~troubled => \A t \in Thread : calls[t] # Idle =>
          AskedBy(t) /\ ComparedFor(t) /\ ReportedTo(t)
    /\ CurrentWasTrue

----------------------------------------------------------------------------
(* Proof of the types.                                                     *)

\* Idle is the only call state of its phase, and the others have their fields.
LEMMA CallFields ==
    ASSUME NEW c \in CallState
    PROVE  /\ c.phase \in {"idle", "header", "payload"}
           /\ c = Idle <=> c.phase = "idle"
           /\ c # Idle => /\ c.op \in Op /\ c.number \in 1..bound.calls
                          /\ c.plan \in PlanType /\ c.seen \in Seq(CoordinatorType)
           /\ c.phase = "payload" => c.head \in HeadType /\ c.need \in 1..MaxGarbage
    BY DEF CallState, Idle

\* The states of the session thread and their fields.
LEMMA SessionFields ==
    ASSUME NEW r \in SessionState
    PROVE  /\ r.phase \in {"closed", "reading", "working", "compared"}
           /\ r = NoSession <=> r.phase = "closed"
           /\ r = Reading <=> r.phase = "reading"
           /\ r.phase \in {"working", "compared"} => r.frame \in FrameType
           /\ r.phase = "compared" => r.currentness \in CurrentnessValue
    BY DEF SessionState, NoSession, Reading

\* A header is two units, and the payload is announced by both.
LEMMA HeadUnits ==
    ASSUME NEW h \in HeadType
    PROVE  h \in Seq(Unit) /\ Len(h) = 2 /\ h[1] \in Unit /\ h[2] \in Unit
    BY DEF HeadType, HeaderUnits

\* The bounds of a behaviour do not change, and with them the sets of values.
LEMMA BoundKept ==
    ASSUME [Next]_vars
    PROVE  bound' = bound
    BY DEF Next, Connect, Close, Disconnect, CallRefused, CallUnsent, Call, ReadHeader,
           ReadRejected, ReadPayload, ReadFails, Fails, Deliver, SessionRead,
           HandleSnapshotRequest, HandlePlanRequest, CompareEvidence, CompareSequence,
           Answer, SessionEnds, PublishSnapshot, BumpSequence, Restart, Becomes,
           vars, remote

\* The sets of values of the next state are those of this one.
LEMMA SetsKept ==
    ASSUME bound' = bound
    PROVE  /\ Unit' = Unit /\ FrameType' = FrameType
           /\ CallState' = CallState /\ SessionState' = SessionState
    <1>1. Unit' = Unit /\ FrameType' = FrameType
        BY DEF Unit, FrameType
    <1>2. HeadType' = HeadType
        BY <1>1 DEF HeadType
    <1> QED
        BY <1>1, <1>2 DEF CallState, SessionState

\* What is to be shown of a step for the types to hold after it.
LEMMA TypeIntro ==
    ASSUME TypeInv, bound' = bound,
           conn' \in 0..bound.connections, socket' \in {0, conn'},
           sequence' \in 0..bound.calls,
           calls' \in [Thread -> CallState], OneCaller',
           outbox' \in Seq(FrameType \cup {Torn}),
           wire' \in Seq(Unit), inbox' \in Seq(Unit),
           session' \in SessionState, coordinator' \in CoordinatorType,
           consumed' \in Nat, eof' \in BOOLEAN, troubled' \in BOOLEAN, Disconnected'
    PROVE  TypeInv'
    BY SetsKept DEF TypeInv

\* A thread that is in a call is alone, and the client is connected.
LEMMA InCall ==
    ASSUME TypeInv, NEW t \in Thread, calls[t].phase \in {"header", "payload"}
    PROVE  /\ calls[t] # Idle /\ socket # 0 /\ socket = conn /\ ~Lockable
           /\ calls[t] \in CallState
           /\ \A u \in Thread \ {t} : calls[u] = Idle
    <1>1. calls[t] \in CallState /\ calls[t] # Idle
        BY CallFields DEF TypeInv, Idle
    <1> QED
        BY <1>1 DEF TypeInv, OneCaller, Disconnected, Lockable

\* A call that ends frees the client.
LEMMA CallEnds ==
    ASSUME TypeInv, NEW t \in Thread, calls' = [calls EXCEPT ![t] = Idle]
    PROVE  /\ calls' \in [Thread -> CallState] /\ OneCaller'
           /\ Lockable => Lockable'
           /\ calls[t] # Idle => Lockable'
           /\ \A u \in Thread : calls'[u] = Idle \/ calls'[u] = calls[u]
    <1>1. calls \in [Thread -> CallState] /\ Idle \in CallState /\ OneCaller
        BY DEF TypeInv, CallState
    <1>2. \A u \in Thread : calls'[u] = IF u = t THEN Idle ELSE calls[u]
        BY <1>1
    <1>3. calls' \in [Thread -> CallState]
        BY <1>1
    <1> QED
        BY <1>1, <1>2, <1>3 DEF OneCaller, Lockable

\* A call that begins or goes on keeps the client to itself.
LEMMA CallGoes ==
    ASSUME TypeInv, NEW t \in Thread, NEW c \in CallState, calls' = [calls EXCEPT ![t] = c],
           \A u \in Thread \ {t} : calls[u] = Idle
    PROVE  /\ calls' \in [Thread -> CallState] /\ OneCaller' /\ calls'[t] = c
           /\ \A u \in Thread \ {t} : calls'[u] = Idle
    <1>1. calls \in [Thread -> CallState]
        BY DEF TypeInv
    <1>2. \A u \in Thread : calls'[u] = IF u = t THEN c ELSE calls[u]
        BY <1>1
    <1>3. calls' \in [Thread -> CallState]
        BY <1>1
    <1> QED
        BY <1>2, <1>3 DEF OneCaller

\* Dropping units from the front leaves units.
LEMMA DropUnits ==
    ASSUME NEW s \in Seq(Unit), NEW k \in 0..Len(s)
    PROVE  /\ SubSeq(s, k + 1, Len(s)) \in Seq(Unit)
           /\ Len(SubSeq(s, k + 1, Len(s))) = Len(s) - k
           /\ \A i \in 1..(Len(s) - k) : SubSeq(s, k + 1, Len(s))[i] = s[k + i]
    <1> DEFINE n == Len(s)
               r == SubSeq(s, k + 1, n)
    <1>1. n \in Nat /\ k \in Nat /\ k <= n /\ \A i \in k + 1 .. n : s[i] \in Unit
        OBVIOUS
    <1> HIDE DEF n
    <1>2. /\ r \in Seq(Unit)
          /\ Len(r) = IF k + 1 <= n THEN n - (k + 1) + 1 ELSE 0
          /\ \A i \in 1 .. n - (k + 1) + 1 : r[i] = s[(k + 1) + i - 1]
        BY <1>1, SubSeqProperties
    <1> HIDE DEF r
    <1>3. n - (k + 1) + 1 = n - k /\ (k + 1 <= n \/ n - k = 0)
          /\ \A i \in 1..(n - k) : (k + 1) + i - 1 = k + i
        BY <1>1
    <1>4. Len(r) = n - k /\ \A i \in 1..(n - k) : r[i] = s[k + i]
        BY <1>2, <1>3
    <1> QED
        BY <1>2, <1>4 DEF r, n

\* Connecting and closing keep the types.
LEMMA ConnectionType ==
    ASSUME TypeInv, Connect \/ Close
    PROVE  TypeInv'
    <1>1. /\ Lockable /\ calls' = calls /\ sequence' = sequence /\ bound' = bound
          /\ coordinator' = coordinator
          /\ outbox' = <<>> /\ wire' = <<>> /\ inbox' = <<>>
          /\ troubled' = FALSE /\ consumed' = sequence
        BY DEF Connect, Close, Disconnect, FreshStream
    <1>2. /\ <<>> \in Seq(FrameType \cup {Torn}) /\ <<>> \in Seq(Unit)
          /\ Lockable' /\ OneCaller' /\ calls' \in [Thread -> CallState]
          /\ sequence' \in 0..bound.calls /\ consumed' \in Nat
          /\ coordinator' \in CoordinatorType
        BY <1>1 DEF TypeInv, Lockable, OneCaller
    <1>3. NoSession \in SessionState /\ Reading \in SessionState
        BY DEF SessionState
    <1>4. CASE Connect
        <2>1. /\ conn < bound.connections /\ conn' = conn + 1 /\ socket' = conn'
              /\ session' \in {Reading, NoSession} /\ eof' \in BOOLEAN
            BY <1>4 DEF Connect
        <2>2. conn' \in 0..bound.connections /\ socket' # 0
            BY <2>1 DEF TypeInv
        <2>3. Disconnected'
            BY <2>2 DEF Disconnected
        <2>4. session' \in SessionState /\ socket' \in {0, conn'}
            BY <1>3, <2>1
        <2> QED
            BY <1>1, <1>2, <2>1, <2>2, <2>3, <2>4, TypeIntro
    <1>5. CASE Close
        <2>1. socket' = 0 /\ conn' = conn /\ session' = NoSession /\ eof' = FALSE
            BY <1>5 DEF Close, Disconnect
        <2>2. Disconnected'
            BY <1>1, <1>2, <2>1 DEF Disconnected
        <2>3. conn' \in 0..bound.connections
            BY <2>1 DEF TypeInv
        <2> QED
            BY <1>1, <1>2, <1>3, <2>1, <2>2, <2>3, TypeIntro
    <1> QED
        BY <1>4, <1>5

\* A thread begins a call: it sends a frame, or fails to, or has none to send.
CallBegins(t, op) ==
    \/ CallRefused(t, op)
    \/ CallUnsent(t, op)
    \/ \E plan \in PlansFor(op) : Call(t, op, plan)

\* Beginning a call keeps the types, whether it sends a frame or not.
LEMMA CallType ==
    ASSUME TypeInv, NEW t \in Thread, NEW op \in Op, CallBegins(t, op)
    PROVE  TypeInv'
    <1>1. /\ Lockable /\ socket' = socket /\ conn' = conn /\ bound' = bound
          /\ wire' = wire /\ inbox' = inbox /\ eof' = eof /\ session' = session
          /\ coordinator' = coordinator /\ troubled' = troubled /\ consumed' = consumed
        BY DEF CallBegins, CallRefused, CallUnsent, Call, stream, remote
    <1>2. /\ bound \in [calls : Nat, connections : Nat, changes : Nat]
          /\ sequence \in 0..bound.calls /\ outbox \in Seq(FrameType \cup {Torn})
          /\ conn' \in 0..bound.connections /\ socket' \in {0, conn'}
          /\ wire' \in Seq(Unit) /\ inbox' \in Seq(Unit) /\ session' \in SessionState
          /\ coordinator' \in CoordinatorType /\ consumed' \in Nat
          /\ eof' \in BOOLEAN /\ troubled' \in BOOLEAN /\ Disconnected
        BY <1>1 DEF TypeInv
    <1>3. ASSUME calls' = [calls EXCEPT ![t] = Idle]
          PROVE  calls' \in [Thread -> CallState] /\ OneCaller' /\ Disconnected'
        <2>1. calls' \in [Thread -> CallState] /\ OneCaller' /\ Lockable'
            BY <1>1, <1>3, CallEnds
        <2> QED
            BY <1>1, <1>2, <2>1 DEF Disconnected
    <1>4. CASE CallRefused(t, op)
        <2>1. /\ sequence' = sequence /\ outbox' = outbox
              /\ calls' = [calls EXCEPT ![t] = Idle]
            BY <1>4 DEF CallRefused, Return, stream
        <2> QED
            BY <1>1, <1>2, <1>3, <2>1, TypeIntro
    <1>5. CASE CallUnsent(t, op)
        <2>1. /\ sequence < bound.calls /\ sequence' = sequence + 1
              /\ outbox' = Append(outbox, Torn) \/ outbox' = outbox
              /\ calls' = [calls EXCEPT ![t] = Idle]
            BY <1>5 DEF CallUnsent, Return
        <2>2. sequence' \in 0..bound.calls
            BY <1>2, <2>1
        <2>3. outbox' \in Seq(FrameType \cup {Torn})
            <3>1. Torn \in FrameType \cup {Torn}
                OBVIOUS
            <3>2. Append(outbox, Torn) \in Seq(FrameType \cup {Torn})
                BY <1>2, <3>1, AppendProperties
            <3> QED
                BY <1>2, <2>1, <3>2
        <2> QED
            BY <1>1, <1>2, <1>3, <2>1, <2>2, <2>3, TypeIntro
    <1>6. ASSUME NEW plan \in PlansFor(op), Call(t, op, plan)
          PROVE  TypeInv'
        <2> DEFINE q == IF op = "VALIDATE_CURRENTNESS" THEN <<coordinator>> ELSE <<>>
                   c == [phase |-> "header", op |-> op, number |-> sequence + 1,
                         plan |-> plan, seen |-> q]
                   f == [op |-> op, number |-> sequence + 1, plan |-> plan]
        <2>1. /\ socket # 0 /\ sequence < bound.calls /\ sequence' = sequence + 1
              /\ outbox' = Append(outbox, f)
              /\ calls' = [calls EXCEPT ![t] = c]
            BY <1>6 DEF Call, Frame
        <2>2. sequence' \in 0..bound.calls /\ sequence + 1 \in 1..bound.calls
            BY <1>2, <2>1
        <2>3. plan \in PlanType
            BY ClientAssumption DEF PlansFor, NoPlan, PlanType
        <2>4. f \in FrameType
            BY <2>2, <2>3 DEF FrameType
        <2>5. q \in Seq(CoordinatorType)
            BY DEF TypeInv
        <2>6. c \in CallState
            <3> HIDE DEF q
            <3> QED
                BY <2>2, <2>3, <2>5 DEF CallState
        <2> HIDE DEF c, f
        <2>7. outbox' \in Seq(FrameType \cup {Torn})
            BY <1>2, <2>1, <2>4
        <2>8. \A u \in Thread \ {t} : calls[u] = Idle
            BY <1>1 DEF Lockable
        <2>9. calls' \in [Thread -> CallState] /\ OneCaller'
            BY <2>1, <2>6, <2>8, CallGoes
        <2>10. Disconnected'
            BY <1>1, <2>1 DEF Disconnected
        <2> QED
            BY <1>1, <1>2, <2>2, <2>7, <2>9, <2>10, TypeIntro
    <1> QED
        BY <1>4, <1>5, <1>6 DEF CallBegins

\* What every step of a read leaves alone.
LEMMA ReadKeeps ==
    ASSUME NEW t \in Thread, ClientReads(t)
    PROVE  UNCHANGED <<socket, sequence, conn, outbox, wire, eof, session, coordinator, bound>>
    BY DEF ClientReads, ReadHeader, ReadRejected, ReadPayload, ReadFails, Fails, remote

\* The steps of a read take units from the front of what has arrived.
LEMMA ReadTakes ==
    ASSUME TypeInv, NEW t \in Thread, ClientReads(t)
    PROVE  /\ calls[t].phase \in {"header", "payload"}
           /\ \E k \in 0..Len(inbox) : inbox' = SubSeq(inbox, k + 1, Len(inbox))
    <1> DEFINE n == Len(inbox)
    <1>1. calls[t] \in CallState /\ inbox \in Seq(Unit) /\ n \in Nat
        BY DEF TypeInv
    <1>2. calls[t].phase \in {"header", "payload"}
        BY DEF ClientReads, ReadHeader, ReadRejected, ReadPayload, ReadFails
    <1>3. CASE ReadHeader(t) \/ ReadRejected(t)
        <2>1. n >= 2 /\ inbox' = SubSeq(inbox, 2 + 1, n)
            BY <1>3 DEF ReadHeader, ReadRejected, HeaderUnits
        <2>2. 2 \in 0..n
            BY <1>1, <2>1
        <2> QED
            BY <1>2, <2>1, <2>2
    <1>4. CASE ReadPayload(t)
        <2> DEFINE k == calls[t].need
        <2>1. calls[t].phase = "payload" /\ n >= k /\ inbox' = SubSeq(inbox, k + 1, n)
            BY <1>4 DEF ReadPayload
        <2>2. k \in 1..MaxGarbage
            BY <1>1, <2>1, CallFields
        <2>3. k \in 0..n
            BY <1>1, <2>1, <2>2 DEF MaxGarbage
        <2> QED
            BY <1>2, <2>1, <2>3
    <1>5. CASE ReadFails(t)
        <2>1. inbox' = <<>>
            BY <1>5 DEF ReadFails
        <2>2. SubSeq(inbox, n + 1, n) = <<>> /\ n \in 0..n
            <3> HIDE DEF n
            <3> QED
                BY <1>1, SubSeqEmpty
        <2> QED
            BY <1>2, <2>1, <2>2
    <1> QED
        BY <1>3, <1>4, <1>5 DEF ClientReads

\* Reading keeps the types.
LEMMA ReadType ==
    ASSUME TypeInv, NEW t \in Thread, ClientReads(t)
    PROVE  TypeInv'
    <1>1. UNCHANGED <<socket, sequence, conn, outbox, wire, eof, session, coordinator, bound>>
        BY ReadKeeps
    <1>2. calls[t].phase \in {"header", "payload"}
        BY ReadTakes
    <1>3. /\ socket # 0 /\ calls[t] \in CallState /\ calls[t] # Idle
          /\ \A u \in Thread \ {t} : calls[u] = Idle
        BY <1>2, InCall
    <1>4. inbox' \in Seq(Unit)
        <2>1. PICK k \in 0..Len(inbox) : inbox' = SubSeq(inbox, k + 1, Len(inbox))
            BY ReadTakes
        <2>2. inbox \in Seq(Unit)
            BY DEF TypeInv
        <2> QED
            BY <2>1, <2>2, DropUnits
    <1>5. Disconnected'
        BY <1>1, <1>3 DEF Disconnected
    <1>6. SUFFICES /\ calls' \in [Thread -> CallState] /\ OneCaller'
                   /\ consumed' \in Nat /\ troubled' \in BOOLEAN
        BY <1>1, <1>4, <1>5, TypeIntro DEF TypeInv
    <1>7. CASE ReadHeader(t)
        <2> DEFINE c == calls[t]
                   head == SubSeq(inbox, 1, HeaderUnits)
        <2>1. PICK need \in 1..MaxGarbage :
                  calls' = [calls EXCEPT ![t] =
                      [phase |-> "payload", head |-> head, need |-> need,
                       op |-> c.op, number |-> c.number, plan |-> c.plan, seen |-> c.seen]]
            <3>1. PICK need \in IF Starts(head) THEN {1} ELSE 1..MaxGarbage :
                      calls' = [calls EXCEPT ![t] =
                          [phase |-> "payload", head |-> head, need |-> need,
                           op |-> c.op, number |-> c.number, plan |-> c.plan, seen |-> c.seen]]
                BY <1>7 DEF ReadHeader
            <3>2. need \in 1..MaxGarbage
                BY <3>1 DEF MaxGarbage
            <3> QED
                BY <3>1, <3>2
        <2>2. head \in HeadType
            <3>1. Len(inbox) >= 2 /\ inbox \in Seq(Unit)
                BY <1>7 DEF ReadHeader, HeaderUnits, TypeInv
            <3>2. \A i \in 1..2 : inbox[i] \in Unit
                BY <3>1
            <3>3. SubSeq(inbox, 1, 2) \in Seq(Unit) /\ Len(SubSeq(inbox, 1, 2)) = 2
                BY <3>2, SubSeqProperties
            <3> QED
                BY <3>3 DEF HeadType, HeaderUnits
        <2>3. /\ c.op \in Op /\ c.number \in 1..bound.calls
              /\ c.plan \in PlanType /\ c.seen \in Seq(CoordinatorType)
            BY <1>3, CallFields
        <2> DEFINE d == [phase |-> "payload", head |-> head, need |-> need,
                         op |-> c.op, number |-> c.number, plan |-> c.plan, seen |-> c.seen]
        <2>4. d \in CallState
            <3> HIDE DEF head, c
            <3> QED
                BY <2>2, <2>3 DEF CallState
        <2>5. calls' = [calls EXCEPT ![t] = d]
            BY <2>1
        <2> HIDE DEF d
        <2>6. calls' \in [Thread -> CallState] /\ OneCaller'
            BY <1>3, <2>4, <2>5, CallGoes
        <2>7. consumed' = consumed /\ troubled' = troubled
            BY <1>7 DEF ReadHeader, history
        <2> QED
            BY <2>6, <2>7 DEF TypeInv
    <1>8. CASE ReadRejected(t) \/ ReadFails(t) \/ (ReadPayload(t) /\ Fails(t))
        <2>1. calls' = [calls EXCEPT ![t] = Idle] /\ consumed' = consumed /\ troubled' = TRUE
            BY <1>8 DEF ReadRejected, ReadFails, Fails, Return
        <2> QED
            BY <2>1, CallEnds DEF TypeInv
    <1>9. CASE ReadPayload(t) /\ ~Fails(t)
        <2>1. /\ calls[t].phase = "payload" /\ calls' = [calls EXCEPT ![t] = Idle]
              /\ consumed' = calls[t].head[1].of.number /\ troubled' = troubled
            BY <1>9 DEF ReadPayload, Accept
        <2>2. calls[t].head[1] \in Unit
            BY <1>3, <2>1, CallFields, HeadUnits
        <2>3. consumed' \in Nat
            BY <2>1, <2>2 DEF Unit, TypeInv
        <2> QED
            BY <2>1, <2>3, CallEnds DEF TypeInv
    <1> QED
        BY <1>7, <1>8, <1>9 DEF ClientReads

AnswerRecord ==
    [type : AnswerType, number : 1..bound.calls, conn : 1..bound.connections,
     currentness : CurrentnessValue \cup {"none"}]

\* The session sends an answer to the request in hand and reads on; it is one
\* of CURRENT only at the end of a currentness query.
LEMMA Answers ==
    ASSUME TypeInv, HandleSnapshotRequest \/ HandlePlanRequest \/ CompareSequence
    PROVE  /\ InHand /\ session' = Reading
           /\ UNCHANGED <<client, conn, outbox, inbox, eof, coordinator, changes, bound, history>>
           /\ \E a \in AnswerRecord :
                  /\ a.number = session.frame.number /\ a.conn = conn
                  /\ a.currentness = "CURRENT" =>
                         /\ session.phase = "compared" /\ session.currentness = "CURRENT"
                         /\ session.frame.plan.sequence = coordinator.sequence
                  /\ wire' = wire \o [i \in 1..3 |-> [part |-> i, of |-> a]]
    <1>1. InHand
        BY DEF HandleSnapshotRequest, HandlePlanRequest, CompareSequence, InHand
    <1>2. session.frame \in FrameType
        BY <1>1, SessionFields DEF TypeInv, InHand
    <1>3. conn \in 1..bound.connections
        <2>1. session # NoSession
            BY <1>1 DEF InHand, NoSession
        <2> QED
            BY <2>1 DEF TypeInv, Disconnected
    <1>4. PICK type \in AnswerType, cur \in CurrentnessValue \cup {"none"} :
              /\ Answer(type, cur)
              /\ cur = "CURRENT" => /\ session.phase = "compared"
                                    /\ session.currentness = "CURRENT"
                                    /\ session.frame.plan.sequence = coordinator.sequence
        <2>1. CASE HandleSnapshotRequest
            BY <2>1 DEF HandleSnapshotRequest, AnswerType
        <2>2. CASE HandlePlanRequest
            BY <2>2 DEF HandlePlanRequest, AnswerType
        <2>3. CASE CompareSequence
            <3> DEFINE cur == SequenceVerdict(session.currentness, session.frame.plan)
            <3>1. session.phase = "compared" /\ Answer("CURRENTNESS_RESULT", cur)
                BY <2>3 DEF CompareSequence
            <3>2. session.currentness \in CurrentnessValue
                BY <3>1, SessionFields DEF TypeInv
            <3>3. cur \in CurrentnessValue
                BY <3>2 DEF SequenceVerdict, CurrentnessValue
            <3>4. cur = "CURRENT" => /\ session.currentness = "CURRENT"
                                     /\ session.frame.plan.sequence = coordinator.sequence
                BY DEF SequenceVerdict
            <3> HIDE DEF cur
            <3>5. "CURRENTNESS_RESULT" \in AnswerType
                BY DEF AnswerType
            <3> QED
                BY <3>1, <3>3, <3>4, <3>5
        <2> QED
            BY <2>1, <2>2, <2>3
    <1> DEFINE a == [type |-> type, number |-> session.frame.number, conn |-> conn,
                     currentness |-> cur]
    <1>5. a \in AnswerRecord
        BY <1>2, <1>3 DEF AnswerRecord, FrameType
    <1>6. /\ wire' = wire \o [i \in 1..3 |-> [part |-> i, of |-> a]]
          /\ session' = Reading
          /\ UNCHANGED <<client, conn, outbox, inbox, eof, coordinator, changes, bound, history>>
        BY <1>4 DEF Answer
    <1> QED
        BY <1>1, <1>4, <1>5, <1>6

\* The three units of an answer, at the end of the wire.
LEMMA Appended ==
    ASSUME NEW w \in Seq(Unit), NEW a \in AnswerRecord, NEW x,
           x = w \o [i \in 1..3 |-> [part |-> i, of |-> a]]
    PROVE  /\ x \in Seq(Unit) /\ Len(x) = Len(w) + 3
           /\ \A i \in 1..Len(w) : x[i] = w[i]
           /\ \A i \in 1..3 : x[Len(w) + i] = [part |-> i, of |-> a]
    <1> DEFINE y == [i \in 1..3 |-> [part |-> i, of |-> a]]
    <1>1. \A i \in 1..3 : [part |-> i, of |-> a] \in Unit
        BY DEF Unit, AnswerRecord
    <1>2. y \in Seq(Unit) /\ Len(y) = 3 /\ \A i \in 1..3 : y[i] = [part |-> i, of |-> a]
        BY <1>1
    <1> HIDE DEF y
    <1>3. /\ w \o y \in Seq(Unit) /\ Len(w \o y) = Len(w) + Len(y)
          /\ \A i \in 1 .. Len(w) + Len(y) : (w \o y)[i] =
                 IF i <= Len(w) THEN w[i] ELSE y[i - Len(w)]
        BY <1>2, ConcatProperties
    <1>4. x = w \o y
        BY DEF y
    <1> DEFINE n == Len(w)
    <1>5. n \in Nat
        OBVIOUS
    <1>6. \A i \in 1..n : x[i] = w[i]
        BY <1>2, <1>3, <1>4, <1>5
    <1>7. ASSUME NEW i \in 1..3
          PROVE  x[n + i] = [part |-> i, of |-> a]
        <2>1. n + i \in 1..(n + 3) /\ ~(n + i <= n) /\ (n + i) - n = i
            BY <1>5
        <2> QED
            BY <1>2, <1>3, <1>4, <2>1
    <1> QED
        BY <1>2, <1>3, <1>4, <1>6, <1>7

\* A change at the coordinator: another publication of the same process, or a
\* new process, which ends the session.
LEMMA Changes ==
    ASSUME TypeInv, PublishSnapshot \/ BumpSequence \/ Restart
    PROVE  \E c \in CoordinatorType :
               /\ Becomes(c)
               /\ \/ c.sequence = coordinator.sequence + 1 /\ UNCHANGED <<stream, session>>
                  \/ /\ session' = NoSession /\ eof' = (socket # 0) /\ outbox' = <<>>
                     /\ wire' \in {wire, <<>>} /\ UNCHANGED <<conn, inbox>>
    <1> DEFINE e == coordinator.evidence
    <1>1. /\ coordinator \in CoordinatorType /\ e \in [Dimension -> Nat]
          /\ coordinator.sequence \in Nat /\ coordinator.incarnation \in Nat
          /\ "topology" \in Dimension
        BY DEF TypeInv, CoordinatorType, Dimension
    <1>2. \A k \in {0, 1} : [e EXCEPT !["topology"] = @ + k] \in [Dimension -> Nat]
        BY <1>1
    <1>3. CASE PublishSnapshot
        <2>1. PICK k \in {0, 1} :
                  Becomes([coordinator EXCEPT !.evidence.topology = @ + k, !.sequence = @ + 1])
            BY <1>3 DEF PublishSnapshot
        <2> DEFINE c == [coordinator EXCEPT !.evidence.topology = @ + k, !.sequence = @ + 1]
        <2>2. c \in CoordinatorType /\ c.sequence = coordinator.sequence + 1
            <3> DEFINE d == [e EXCEPT !["topology"] = @ + k]
            <3>1. c = [[coordinator EXCEPT !.evidence = d] EXCEPT !.sequence = @ + 1]
                BY <1>1 DEF CoordinatorType
            <3>2. d \in [Dimension -> Nat]
                BY <1>2
            <3> HIDE DEF d, c
            <3>3. c.evidence = d /\ c.sequence = coordinator.sequence + 1
                  /\ c.incarnation = coordinator.incarnation
                BY <1>1, <3>1 DEF CoordinatorType
            <3>4. c = [incarnation |-> c.incarnation, sequence |-> c.sequence,
                       evidence |-> c.evidence]
                BY <1>1, <3>1 DEF CoordinatorType
            <3> QED
                BY <1>1, <3>2, <3>3, <3>4 DEF CoordinatorType
        <2> HIDE DEF c
        <2> QED
            BY <1>3, <2>1, <2>2 DEF PublishSnapshot, c
    <1>4. CASE BumpSequence
        <2> DEFINE c == [coordinator EXCEPT !.sequence = @ + 1]
        <2>1. Becomes(c) /\ UNCHANGED <<stream, session>>
            BY <1>4 DEF BumpSequence
        <2>2. c \in CoordinatorType /\ c.sequence = coordinator.sequence + 1
            BY <1>1 DEF CoordinatorType
        <2> QED
            BY <2>1, <2>2
    <1>5. CASE Restart
        <2>1. PICK k \in {0, 1} :
                  Becomes([coordinator EXCEPT !.incarnation = @ + 1, !.sequence = 1,
                                              !.evidence.topology = @ + k])
            BY <1>5 DEF Restart
        <2> DEFINE c == [coordinator EXCEPT !.incarnation = @ + 1, !.sequence = 1,
                                            !.evidence.topology = @ + k]
        <2>2. c \in CoordinatorType
            <3> DEFINE d == [e EXCEPT !["topology"] = @ + k]
            <3>1. c = [[coordinator EXCEPT !.incarnation = @ + 1, !.sequence = 1]
                           EXCEPT !.evidence = d]
                BY <1>1 DEF CoordinatorType
            <3>2. d \in [Dimension -> Nat]
                BY <1>2
            <3> HIDE DEF d, c
            <3>3. c.evidence = d /\ c.sequence = 1
                  /\ c.incarnation = coordinator.incarnation + 1
                BY <1>1, <3>1 DEF CoordinatorType
            <3>4. c = [incarnation |-> c.incarnation, sequence |-> c.sequence,
                       evidence |-> c.evidence]
                BY <1>1, <3>1 DEF CoordinatorType
            <3> QED
                BY <1>1, <3>2, <3>3, <3>4 DEF CoordinatorType
        <2>3. /\ session' = NoSession /\ eof' = (socket # 0) /\ outbox' = <<>>
              /\ wire' \in {wire, <<>>} /\ UNCHANGED <<conn, inbox>>
            BY <1>5 DEF Restart
        <2> HIDE DEF c
        <2> QED
            BY <2>1, <2>2, <2>3 DEF c
    <1> QED
        BY <1>3, <1>4, <1>5

\* What a change at the coordinator does to the calls: a query notes it, and
\* nothing else about any call changes.
LEMMA Notes ==
    ASSUME TypeInv, NEW c \in CoordinatorType, Becomes(c)
    PROVE  /\ calls' \in [Thread -> CallState]
           /\ UNCHANGED <<socket, sequence, bound, history>>
           /\ coordinator' = c
           /\ \A t \in Thread :
                  /\ calls'[t].phase = calls[t].phase
                  /\ calls'[t] = Idle <=> calls[t] = Idle
                  /\ calls[t] # Idle =>
                        /\ calls'[t].op = calls[t].op /\ calls'[t].plan = calls[t].plan
                        /\ calls'[t].number = calls[t].number
                        /\ calls'[t].seen = IF calls[t].seen = <<>> THEN <<>>
                                            ELSE Append(calls[t].seen, c)
                  /\ calls[t].phase = "payload" =>
                        calls'[t].head = calls[t].head /\ calls'[t].need = calls[t].need
    <1>1. /\ coordinator' = c /\ UNCHANGED <<socket, sequence, bound, history>>
          /\ calls' = [t \in Thread |->
                 IF calls[t] = Idle \/ calls[t].seen = <<>> THEN calls[t]
                 ELSE [calls[t] EXCEPT !.seen = Append(@, c)]]
        BY DEF Becomes
    <1>2. ASSUME NEW t \in Thread
          PROVE  /\ calls'[t] \in CallState
                 /\ calls'[t].phase = calls[t].phase
                 /\ calls'[t] = Idle <=> calls[t] = Idle
                 /\ calls[t] # Idle =>
                        /\ calls'[t].op = calls[t].op /\ calls'[t].plan = calls[t].plan
                        /\ calls'[t].number = calls[t].number
                        /\ calls'[t].seen = IF calls[t].seen = <<>> THEN <<>>
                                            ELSE Append(calls[t].seen, c)
                 /\ calls[t].phase = "payload" =>
                        calls'[t].head = calls[t].head /\ calls'[t].need = calls[t].need
        <2> DEFINE r == calls[t]
                   n == [r EXCEPT !.seen = Append(@, c)]
        <2>1. r \in CallState
            BY DEF TypeInv
        <2>2. CASE r = Idle \/ r.seen = <<>>
            BY <1>1, <2>1, <2>2
        <2>3. CASE ~(r = Idle \/ r.seen = <<>>)
            <3>1. calls'[t] = n
                BY <1>1, <2>3
            <3>2. r.seen \in Seq(CoordinatorType)
                BY <2>1, <2>3, CallFields
            <3>3. Append(r.seen, c) \in Seq(CoordinatorType)
                BY <3>2, AppendProperties
            <3> DEFINE q == Append(r.seen, c)
            <3> HIDE DEF q, r
            <3>4. /\ n \in CallState /\ n # Idle /\ n.phase = r.phase
                  /\ n.op = r.op /\ n.plan = r.plan /\ n.number = r.number /\ n.seen = q
                  /\ r.phase = "payload" => n.head = r.head /\ n.need = r.need
                BY <2>1, <2>3, <3>3 DEF CallState, Idle, q
            <3> QED
                BY <2>3, <3>1, <3>4 DEF q, r
        <2> QED
            BY <2>2, <2>3
    <1>3. calls' \in [Thread -> CallState]
        BY <1>1, <1>2
    <1> QED
        BY <1>1, <1>2, <1>3

\* A step of the session thread or of the network, and a change at the
\* coordinator.
SessionStep ==
    \/ Deliver \/ SessionRead \/ HandleSnapshotRequest \/ HandlePlanRequest
    \/ CompareEvidence \/ CompareSequence \/ SessionEnds

CoordinatorStep == PublishSnapshot \/ BumpSequence \/ Restart

\* What the session thread and the network do keeps the types.
LEMMA SessionType ==
    ASSUME TypeInv, SessionStep
    PROVE  TypeInv'
    <1>1. CASE Deliver
        <2>1. /\ wire # <<>> /\ inbox' = Append(inbox, Head(wire)) /\ wire' = Tail(wire)
              /\ UNCHANGED <<client, conn, outbox, eof, remote, history>>
            BY <1>1 DEF Deliver
        <2>2. wire' \in Seq(Unit) /\ inbox' \in Seq(Unit) /\ socket # 0
            <3>1. wire \in Seq(Unit) /\ inbox \in Seq(Unit) /\ socket # 0
                BY <2>1 DEF TypeInv, Disconnected
            <3>2. Head(wire) \in Unit /\ Tail(wire) \in Seq(Unit)
                BY <2>1, <3>1, HeadTailProperties
            <3> QED
                BY <2>1, <3>1, <3>2, AppendProperties
        <2>3. Disconnected' /\ OneCaller'
            BY <2>1, <2>2 DEF Disconnected, client, TypeInv, OneCaller
        <2> QED
            BY <2>1, <2>2, <2>3, TypeIntro DEF TypeInv, client, remote, history
    <1>2. CASE SessionRead
        <2> DEFINE f == Head(outbox)
        <2>1. /\ session.phase = "reading" /\ outbox # <<>> /\ f.op # "torn"
              /\ session' = [phase |-> "working", frame |-> f] /\ outbox' = Tail(outbox)
              /\ UNCHANGED <<client, conn, wire, inbox, eof, coordinator, changes, bound, history>>
            BY <1>2 DEF SessionRead
        <2>2. outbox \in Seq(FrameType \cup {Torn})
            BY DEF TypeInv
        <2>3. f \in FrameType \cup {Torn} /\ outbox' \in Seq(FrameType \cup {Torn})
            BY <2>1, <2>2, HeadTailProperties
        <2>4. f \in FrameType
            BY <2>1, <2>3 DEF Torn
        <2> HIDE DEF f
        <2>5. session' \in SessionState
            BY <2>1, <2>4 DEF SessionState
        <2>6. socket # 0
            BY <2>1 DEF TypeInv, Disconnected, NoSession
        <2>7. Disconnected' /\ OneCaller'
            BY <2>1, <2>6 DEF Disconnected, client, TypeInv, OneCaller
        <2> QED
            BY <2>1, <2>3, <2>5, <2>7, TypeIntro DEF TypeInv, client, history
    <1>3. CASE HandleSnapshotRequest \/ HandlePlanRequest \/ CompareSequence
        <2>1. /\ InHand /\ session' = Reading
              /\ UNCHANGED <<client, conn, outbox, inbox, eof, coordinator, changes, bound, history>>
            BY <1>3, Answers
        <2>2. wire' \in Seq(Unit)
            <3>1. PICK a \in AnswerRecord :
                      wire' = wire \o [i \in 1..3 |-> [part |-> i, of |-> a]]
                BY <1>3, Answers
            <3>2. wire \in Seq(Unit)
                BY DEF TypeInv
            <3> QED
                BY <3>1, <3>2, Appended
        <2>3. session' \in SessionState
            BY <2>1 DEF SessionState
        <2>4. socket # 0
            BY <2>1 DEF TypeInv, Disconnected, NoSession, InHand
        <2>5. Disconnected' /\ OneCaller'
            BY <2>1, <2>4 DEF Disconnected, client, TypeInv, OneCaller
        <2> QED
            BY <2>1, <2>2, <2>3, <2>5, TypeIntro DEF TypeInv, client, history
    <1>4. CASE CompareEvidence
        <2> DEFINE v == ClassifyEvidence(session.frame.plan.evidence, coordinator.evidence)
        <2>1. /\ session.phase = "working"
              /\ session' = [phase |-> "compared", frame |-> session.frame, currentness |-> v]
              /\ UNCHANGED <<client, stream, coordinator, changes, bound, history>>
            BY <1>4 DEF CompareEvidence
        <2>2. v \in CurrentnessValue
            BY ClassifyType
        <2>3. session.frame \in FrameType /\ socket # 0
            BY <2>1, SessionFields DEF TypeInv, Disconnected, NoSession
        <2> HIDE DEF v
        <2>4. session' \in SessionState
            BY <2>1, <2>2, <2>3 DEF SessionState
        <2>5. Disconnected' /\ OneCaller'
            BY <2>1, <2>3 DEF Disconnected, client, TypeInv, OneCaller
        <2> QED
            BY <2>1, <2>4, <2>5, TypeIntro DEF TypeInv, client, stream, history
    <1>5. CASE SessionEnds
        <2>1. /\ session.phase = "reading" /\ session' = NoSession /\ eof' = TRUE
              /\ outbox' = <<>> /\ wire' \in {wire, <<>>}
              /\ UNCHANGED <<client, conn, inbox, coordinator, changes, bound, history>>
            BY <1>5 DEF SessionEnds
        <2>2. /\ session' \in SessionState /\ wire' \in Seq(Unit)
              /\ outbox' \in Seq(FrameType \cup {Torn})
            <3>1. wire \in Seq(Unit) /\ <<>> \in Seq(Unit) /\ <<>> \in Seq(FrameType \cup {Torn})
                BY DEF TypeInv
            <3>2. NoSession \in SessionState
                BY DEF SessionState
            <3> QED
                BY <2>1, <3>1, <3>2
        <2>3. socket # 0
            BY <2>1 DEF TypeInv, Disconnected, NoSession
        <2>4. Disconnected' /\ OneCaller'
            BY <2>1, <2>3 DEF Disconnected, client, TypeInv, OneCaller
        <2> QED
            BY <2>1, <2>2, <2>4, TypeIntro DEF TypeInv, client, history
    <1> QED
        BY <1>1, <1>2, <1>3, <1>4, <1>5 DEF SessionStep

\* Changes at the coordinator keep the types.
LEMMA ChangeType ==
    ASSUME TypeInv, CoordinatorStep
    PROVE  TypeInv'
    <1>1. PICK c \in CoordinatorType :
               /\ Becomes(c)
               /\ \/ c.sequence = coordinator.sequence + 1 /\ UNCHANGED <<stream, session>>
                  \/ /\ session' = NoSession /\ eof' = (socket # 0) /\ outbox' = <<>>
                     /\ wire' \in {wire, <<>>} /\ UNCHANGED <<conn, inbox>>
        BY Changes DEF CoordinatorStep
    <1>2. /\ calls' \in [Thread -> CallState] /\ coordinator' = c
          /\ UNCHANGED <<socket, sequence, bound, history>>
          /\ \A t \in Thread : calls'[t] = Idle <=> calls[t] = Idle
        BY <1>1, Notes
    <1>3. OneCaller' /\ (Lockable => Lockable')
        BY <1>2 DEF TypeInv, OneCaller, Lockable
    <1>4. CASE UNCHANGED <<stream, session>>
        <2>1. Disconnected'
            BY <1>2, <1>3, <1>4 DEF TypeInv, Disconnected, stream
        <2> QED
            BY <1>2, <1>3, <1>4, <2>1, TypeIntro DEF TypeInv, stream, history
    <1>5. CASE /\ session' = NoSession /\ eof' = (socket # 0) /\ outbox' = <<>>
               /\ wire' \in {wire, <<>>} /\ UNCHANGED <<conn, inbox>>
        <2>1. Disconnected'
            BY <1>2, <1>3, <1>5 DEF TypeInv, Disconnected
        <2>2. /\ session' \in SessionState /\ wire' \in Seq(Unit) /\ eof' \in BOOLEAN
              /\ outbox' \in Seq(FrameType \cup {Torn})
            <3>1. wire \in Seq(Unit) /\ <<>> \in Seq(Unit) /\ <<>> \in Seq(FrameType \cup {Torn})
                BY DEF TypeInv
            <3>2. NoSession \in SessionState
                BY DEF SessionState
            <3> QED
                BY <1>5, <3>1, <3>2
        <2> QED
            BY <1>2, <1>3, <1>5, <2>1, <2>2, TypeIntro DEF TypeInv, history
    <1> QED
        BY <1>1, <1>4, <1>5

\* The cases of a step.
LEMMA NextCases ==
    ASSUME Next
    PROVE  \/ Connect \/ Close
           \/ \E t \in Thread, op \in Op : CallBegins(t, op)
           \/ \E t \in Thread : ClientReads(t)
           \/ SessionStep
           \/ CoordinatorStep
    <1>1. CASE \E t \in Thread, op \in Op :
                   \/ CallRefused(t, op)
                   \/ CallUnsent(t, op)
                   \/ \E plan \in PlansFor(op) : Call(t, op, plan)
        BY <1>1 DEF CallBegins
    <1>2. CASE \E t \in Thread :
                   ReadHeader(t) \/ ReadRejected(t) \/ ReadPayload(t) \/ ReadFails(t)
        BY <1>2 DEF ClientReads
    <1> QED
        BY <1>1, <1>2, Zenon DEF Next, SessionStep, CoordinatorStep

\* Every step keeps the types.
LEMMA NextType ==
    ASSUME TypeInv, [Next]_vars
    PROVE  TypeInv'
    <1>1. CASE Next
        BY <1>1, NextCases, ConnectionType, CallType, ReadType, SessionType, ChangeType
    <1>2. CASE UNCHANGED vars
        <2>1. /\ UNCHANGED <<client, stream, session, coordinator, bound, history>>
            BY <1>2 DEF vars, remote
        <2>2. OneCaller' /\ Disconnected'
            BY <2>1 DEF TypeInv, OneCaller, Disconnected, Lockable, client, stream
        <2> QED
            BY <2>1, <2>2, TypeIntro DEF TypeInv, client, stream, history
    <1> QED
        BY <1>1, <1>2

\* The initial state is of these types.
LEMMA InitType ==
    ASSUME Init
    PROVE  TypeInv
    <1>1. bound \in [calls : Nat, connections : Nat, changes : Nat]
        BY ClientAssumption DEF Init
    <1>2. /\ conn \in 0..bound.connections /\ socket \in {0, conn}
          /\ sequence \in 0..bound.calls /\ consumed \in Nat
          /\ eof \in BOOLEAN /\ troubled \in BOOLEAN
        <2> DEFINE m == bound.connections
                   n == bound.calls
        <2>1. m \in Nat /\ n \in Nat
            BY <1>1
        <2> HIDE DEF m, n
        <2>2. 0 \in 0..m /\ 0 \in 0..n
            BY <2>1
        <2> QED
            BY <2>2 DEF Init, m, n
    <1>3. calls \in [Thread -> CallState] /\ Lockable /\ OneCaller
        BY DEF Init, CallState, Lockable, OneCaller
    <1>4. /\ outbox \in Seq(FrameType \cup {Torn}) /\ wire \in Seq(Unit)
          /\ inbox \in Seq(Unit) /\ session \in SessionState
        BY DEF Init, SessionState
    <1>5. coordinator \in CoordinatorType
        BY DEF Init, CoordinatorType
    <1>6. Disconnected
        BY <1>3 DEF Init, Disconnected
    <1> QED
        BY <1>1, <1>2, <1>3, <1>4, <1>5, <1>6 DEF TypeInv

\* The types that TypeOK names, and that no two threads are in an exchange.
LEMMA TypesHold ==
    ASSUME TypeInv
    PROVE  TypeOK
    <1> DEFINE B == {t \in Thread : calls[t] # Idle}
    <1>1. IsFiniteSet(B) /\ Cardinality(B) <= 1
        <2>1. CASE B = {}
            BY <2>1, FS_EmptySet
        <2>2. CASE B # {}
            <3>1. PICK t \in Thread : t \in B
                BY <2>2
            <3>2. B = {t}
                BY <3>1 DEF TypeInv, OneCaller
            <3> HIDE DEF B
            <3> QED
                BY <3>2, FS_Singleton
        <2> QED
            BY <2>1, <2>2
    <1>2. \A t \in Thread : calls[t].phase \in {"idle", "header", "payload"}
        BY CallFields DEF TypeInv
    <1>3. session.phase \in {"closed", "reading", "working", "compared"}
        BY SessionFields DEF TypeInv
    <1> QED
        BY <1>1, <1>2, <1>3 DEF TypeInv, TypeOK, Disconnected

\* DistributedPlannerClient, the stream and the session keep their types, and
\* the mutex that every method takes keeps all but one thread out of an
\* exchange, for any number of threads, calls and connections.
THEOREM TypeCorrect == Spec => []TypeOK
    <1>1. Init => TypeInv
        BY InitType
    <1>2. TypeInv /\ [Next]_vars => TypeInv'
        BY NextType
    <1>3. TypeInv => TypeOK
        BY TypesHold
    <1> QED
        BY <1>1, <1>2, <1>3, PTL DEF Spec

----------------------------------------------------------------------------
(* Proof that the stream keeps its order.                                  *)

\* Some unit of s belongs to the answer x.
Holds(s, x) == \E i \in 1..Len(s) : x = s[i].of

\* An answer arrives when a unit of it is in the stream or in a header read.
LEMMA ArrivingUnits ==
    /\ \A x : x \in Arriving <=>
           \/ Holds(inbox, x) \/ Holds(wire, x)
           \/ \E t \in Thread : calls[t].phase = "payload" /\ Holds(calls[t].head, x)
    /\ \A x : x \in Arriving' <=>
           \/ Holds(inbox', x) \/ Holds(wire', x)
           \/ \E t \in Thread : calls'[t].phase = "payload" /\ Holds(calls'[t].head, x)
    BY DEF Arriving, Holds

\* A request is unanswered when it is queued or in the session's hand.
LEMMA UnansweredFrames ==
    /\ \A x : x \in Queued <=> \E i \in 1..Len(outbox) : outbox[i].op # "torn" /\ x = outbox[i]
    /\ \A x : x \in Queued' <=>
           \E i \in 1..Len(outbox') : outbox'[i].op # "torn" /\ x = outbox'[i]
    /\ \A x : x \in Unanswered <=> x \in Queued \/ (InHand /\ x = session.frame)
    /\ \A x : x \in Unanswered' <=> x \in Queued' \/ (InHand' /\ x = session'.frame)
    BY DEF Queued, Unanswered

\* Every answer under way is a numbered answer.
LEMMA ArrivingNumbers ==
    ASSUME TypeInv, NEW a \in Arriving
    PROVE  a \in AnswerRecord /\ a.number \in Nat
    <1>1. \A u \in Unit : u.of \in AnswerRecord
        BY DEF Unit, AnswerRecord
    <1>2. \A s \in Seq(Unit) : Holds(s, a) => a \in AnswerRecord
        BY <1>1 DEF Holds
    <1>3. inbox \in Seq(Unit) /\ wire \in Seq(Unit)
        BY DEF TypeInv
    <1>4. \A t \in Thread : calls[t].phase = "payload" => calls[t].head \in Seq(Unit)
        BY CallFields, HeadUnits DEF TypeInv
    <1>5. a \in AnswerRecord
        BY <1>2, <1>3, <1>4, ArrivingUnits
    <1> QED
        BY <1>5 DEF AnswerRecord, TypeInv

\* The same of the requests.
LEMMA UnansweredNumbers ==
    ASSUME TypeInv, NEW f \in Unanswered
    PROVE  f \in FrameType /\ f.number \in Nat
    <1>1. CASE f \in Queued
        <2>1. PICK i \in 1..Len(outbox) : outbox[i].op # "torn" /\ f = outbox[i]
            BY <1>1, UnansweredFrames
        <2>2. f \in FrameType \cup {Torn}
            BY <2>1 DEF TypeInv
        <2>3. f \in FrameType
            BY <2>1, <2>2 DEF Torn
        <2> QED
            BY <2>3 DEF FrameType, TypeInv
    <1>2. CASE InHand /\ f = session.frame
        <2>1. f \in FrameType
            BY <1>2, SessionFields DEF TypeInv, InHand
        <2> QED
            BY <2>1 DEF FrameType, TypeInv
    <1> QED
        BY <1>1, <1>2, UnansweredFrames

\* Units that are left after some were taken from the front keep their order.
LEMMA DropKeepsOrder ==
    ASSUME TypeInv, NEW k \in 0..Len(inbox), inbox' = SubSeq(inbox, k + 1, Len(inbox))
    PROVE  /\ Sorted(inbox) => Sorted(inbox')
           /\ \A h : AllBefore(h, inbox) => AllBefore(h, inbox')
           /\ \A h : AllBefore(inbox, h) => AllBefore(inbox', h)
           /\ \A x : Holds(inbox', x) => Holds(inbox, x)
    <1>1. /\ inbox' \in Seq(Unit) /\ Len(inbox') = Len(inbox) - k
          /\ \A i \in 1..(Len(inbox) - k) : inbox'[i] = inbox[k + i]
        <2>1. inbox \in Seq(Unit)
            BY DEF TypeInv
        <2> QED
            BY <2>1, DropUnits
    <1> DEFINE n == Len(inbox)
    <1>2. n \in Nat /\ k \in 0..n
        BY DEF TypeInv
    <1>3. /\ Len(inbox') = n - k
          /\ \A i \in 1..(n - k) : inbox'[i] = inbox[k + i]
        BY <1>1
    <1>4. \A i \in 1..(n - k) : k + i \in 1..n
        BY <1>2
    <1>5. \A i, j \in 1..(n - k) : i < j => k + i < k + j
        BY <1>2
    <1>6. Sorted(inbox) => Sorted(inbox')
        <2> HIDE DEF n
        <2>1. Sorted(inbox) => \A i, j \in 1..n : i < j => Before(inbox[i], inbox[j])
            BY DEF Sorted, n
        <2>2. Sorted(inbox) => \A i, j \in 1..(n - k) : i < j => Before(inbox'[i], inbox'[j])
            BY <1>3, <1>4, <1>5, <2>1
        <2> QED
            BY <1>3, <2>2 DEF Sorted
    <1>7. \A h : AllBefore(h, inbox) => AllBefore(h, inbox')
        BY <1>3, <1>4 DEF AllBefore
    <1>8. \A h : AllBefore(inbox, h) => AllBefore(inbox', h)
        BY <1>3, <1>4 DEF AllBefore
    <1>9. \A x : Holds(inbox', x) => Holds(inbox, x)
        BY <1>3, <1>4 DEF Holds
    <1> QED
        BY <1>6, <1>7, <1>8, <1>9

\* A step that takes units away, and begins no payload, keeps their order.
LEMMA FewerUnits ==
    ASSUME TypeInv, UnitOrder, NEW k \in 0..Len(inbox),
           inbox' = SubSeq(inbox, k + 1, Len(inbox)), wire' \in {wire, <<>>},
           \A t \in Thread : calls'[t].phase = "payload" =>
               /\ calls[t].phase = "payload"
               /\ calls'[t].head = calls[t].head /\ calls'[t].need = calls[t].need
    PROVE  UnitOrder' /\ Arriving' \subseteq Arriving
    <1>1. inbox \in Seq(Unit) /\ wire \in Seq(Unit) /\ calls \in [Thread -> CallState]
        BY DEF TypeInv
    <1>2. /\ Sorted(inbox) => Sorted(inbox')
          /\ \A h : AllBefore(h, inbox) => AllBefore(h, inbox')
          /\ \A h : AllBefore(inbox, h) => AllBefore(inbox', h)
          /\ \A x : Holds(inbox', x) => Holds(inbox, x)
        BY DropKeepsOrder
    <1>3. /\ Sorted(wire) => Sorted(wire')
          /\ \A h : AllBefore(h, wire) => AllBefore(h, wire')
          /\ \A x : Holds(wire', x) => Holds(wire, x)
        <2>1. Sorted(<<>>) /\ (\A h : AllBefore(h, <<>>)) /\ \A x : ~Holds(<<>>, x)
            BY DEF Sorted, AllBefore, Holds
        <2> QED
            BY <2>1
    <1>4. \A t \in Thread : calls[t].phase = "payload" => calls[t].head \in Seq(Unit)
        BY <1>1, CallFields, HeadUnits
    <1>5. Arriving' \subseteq Arriving
        BY <1>2, <1>3, ArrivingUnits
    <1>6. Sorted(inbox)' /\ Sorted(wire)' /\ AllBefore(inbox, wire)'
        BY <1>1, <1>2, <1>3 DEF UnitOrder
    <1>7. ASSUME NEW t \in Thread, calls'[t].phase = "payload"
          PROVE  /\ Starts(calls'[t].head) => calls'[t].need = 1
                 /\ Sorted(calls'[t].head)
                 /\ AllBefore(calls'[t].head, inbox') /\ AllBefore(calls'[t].head, wire')
        BY <1>2, <1>3, <1>4, <1>7 DEF UnitOrder
    <1> QED
        BY <1>5, <1>6, <1>7 DEF UnitOrder

\* A step that takes requests away keeps the order of the others.
LEMMA FewerRequests ==
    ASSUME QueueOrder, outbox' \in {outbox, <<>>},
           InHand' => InHand /\ session'.frame = session.frame
    PROVE  QueueOrder' /\ Unanswered' \subseteq Unanswered
    <1>1. Queued' \subseteq Queued
        BY UnansweredFrames
    <1>2. Unanswered' \subseteq Unanswered
        BY <1>1, UnansweredFrames
    <1>3. \A i, j \in 1..Len(outbox') :
              i < j /\ outbox'[i].op # "torn" /\ outbox'[j].op # "torn"
                  => outbox'[i].number < outbox'[j].number
        BY DEF QueueOrder
    <1>4. InHand' => \A f \in Queued' : session'.frame.number < f.number
        BY <1>1 DEF QueueOrder
    <1> QED
        BY <1>2, <1>3, <1>4 DEF QueueOrder

\* A step after which less is under way keeps the numbers, also when a number
\* is used up.
LEMMA FewerNumbers ==
    ASSUME TypeInv, NumberOrder, Arriving' \subseteq Arriving, Unanswered' \subseteq Unanswered,
           UNCHANGED <<conn, consumed>>, sequence' \in {sequence, sequence + 1},
           \A t \in Thread : calls'[t] # Idle => calls'[t].number = sequence'
    PROVE  NumberOrder'
    <1>1. sequence \in Nat /\ sequence' \in Nat /\ sequence <= sequence' /\ consumed \in Nat
        BY DEF TypeInv
    <1>2. \A a \in Arriving : a.number \in Nat
        BY ArrivingNumbers
    <1>3. \A f \in Unanswered : f.number \in Nat
        BY UnansweredNumbers
    <1>4. \A a \in Arriving : consumed < a.number /\ a.number <= sequence' /\ a.conn = conn
        BY <1>1, <1>2 DEF NumberOrder
    <1>5. \A f \in Unanswered : consumed < f.number /\ f.number <= sequence'
        BY <1>1, <1>3 DEF NumberOrder
    <1>6. consumed <= sequence'
        BY <1>1 DEF NumberOrder
    <1> QED
        BY <1>4, <1>5, <1>6 DEF NumberOrder

\* And so it keeps what is known of the call under way.
LEMMA FewerForCall ==
    ASSUME OnlyThisCall, Arriving' \subseteq Arriving, Unanswered' \subseteq Unanswered,
           sequence' = sequence, troubled' \/ (troubled' = troubled /\ (Busy => Busy'))
    PROVE  OnlyThisCall'
    BY DEF OnlyThisCall

\* A call that returned stays as it returned, while the connection stays.
LEMMA ReturnKept ==
    ASSUME OwnAnswer, UNCHANGED <<socket, returned>>
    PROVE  OwnAnswer'
    BY DEF OwnAnswer, Accepted

\* Nothing taken from what has arrived.
LEMMA DropNothing ==
    ASSUME TypeInv, inbox' = inbox
    PROVE  0 \in 0..Len(inbox) /\ inbox' = SubSeq(inbox, 0 + 1, Len(inbox))
    <1>1. inbox \in Seq(Unit)
        BY DEF TypeInv
    <1>2. SubSeq(inbox, 1, Len(inbox)) = inbox /\ Len(inbox) \in Nat
        BY <1>1, SubSeqFull
    <1> QED
        BY <1>2

\* A new connection and a closed one have nothing under way.
LEMMA ConnectionStream ==
    ASSUME TypeInv, StreamInv, Connect \/ Close
    PROVE  StreamInv'
    <1>1. /\ Lockable /\ calls' = calls /\ sequence' = sequence
          /\ outbox' = <<>> /\ wire' = <<>> /\ inbox' = <<>>
          /\ consumed' = sequence /\ returned' = NoReturn
          /\ session' \in {Reading, NoSession}
        BY DEF Connect, Close, Disconnect, FreshStream
    <1>2. /\ \A t \in Thread : calls'[t] = Idle
          /\ ~InHand' /\ sequence \in Nat
        BY <1>1 DEF Lockable, InHand, Reading, NoSession, TypeInv
    <1>3. \A x : ~Holds(<<>>, x)
        BY DEF Holds
    <1>4. Arriving' = {}
        BY <1>1, <1>2, <1>3, ArrivingUnits DEF Idle
    <1>5. Unanswered' = {} /\ Queued' = {}
        BY <1>1, <1>2, UnansweredFrames
    <1>6. UnitOrder'
        BY <1>1, <1>2 DEF UnitOrder, Sorted, AllBefore, Idle
    <1>7. NumberOrder' /\ OnlyThisCall'
        BY <1>1, <1>2, <1>4, <1>5 DEF NumberOrder, OnlyThisCall
    <1>8. QueueOrder'
        BY <1>1, <1>2 DEF QueueOrder
    <1>9. OwnAnswer'
        BY <1>1 DEF OwnAnswer, Accepted, NoReturn
    <1> QED
        BY <1>6, <1>7, <1>8, <1>9 DEF StreamInv

\* The frame of a call is the newest request.
LEMMA CallStream ==
    ASSUME TypeInv, StreamInv, NEW t \in Thread, NEW op \in Op, CallBegins(t, op)
    PROVE  StreamInv'
    <1>1. /\ Lockable /\ calls[t] = Idle
          /\ UNCHANGED <<socket, conn, wire, inbox, session, consumed, troubled>>
        BY DEF CallBegins, CallRefused, CallUnsent, Call, stream, remote
    <1>2. /\ calls \in [Thread -> CallState] /\ sequence \in Nat /\ consumed \in Nat
          /\ outbox \in Seq(FrameType \cup {Torn})
          /\ ~Busy /\ InHand' = InHand
        BY <1>1 DEF TypeInv, Lockable, Busy, InHand
    <1>3. /\ ~troubled => Arriving = {} /\ Unanswered = {}
        BY <1>2 DEF StreamInv, OnlyThisCall
    <1>4. ASSUME \A u \in Thread : calls'[u].phase # "payload"
          PROVE  UnitOrder' /\ Arriving' \subseteq Arriving
        BY <1>1, <1>4, DropNothing, FewerUnits DEF StreamInv
    <1>5. CASE CallRefused(t, op) \/ CallUnsent(t, op)
        <2>1. /\ calls' = [calls EXCEPT ![t] = Idle]
              /\ returned'.verdict \in {"not sent", "send failed"}
              /\ sequence' \in {sequence, sequence + 1}
              /\ outbox' \in {outbox, Append(outbox, Torn)}
            <3>1. CASE CallRefused(t, op)
                BY <3>1 DEF CallRefused, Return, stream
            <3>2. CASE CallUnsent(t, op)
                BY <3>2 DEF CallUnsent, Return
            <3> QED
                BY <1>5, <3>1, <3>2
        <2>2. \A u \in Thread : calls'[u] = Idle
            BY <1>1, <1>2, <2>1 DEF Lockable
        <2>3. UnitOrder' /\ Arriving' \subseteq Arriving
            BY <1>4, <2>2 DEF Idle
        <2>4. /\ Queued' = Queued
              /\ \A i, j \in 1..Len(outbox') :
                     i < j /\ outbox'[i].op # "torn" /\ outbox'[j].op # "torn"
                         => outbox'[i].number < outbox'[j].number
            <3>1. CASE outbox' = outbox
                BY <3>1 DEF StreamInv, QueueOrder, Queued
            <3>2. CASE outbox' = Append(outbox, Torn)
                <4> DEFINE n == Len(outbox)
                <4>1. /\ n \in Nat /\ Len(outbox') = n + 1 /\ outbox'[n + 1] = Torn
                      /\ \A i \in 1..n : outbox'[i] = outbox[i]
                    BY <1>2, <3>2, AppendProperties
                <4>2. Torn.op = "torn"
                    BY DEF Torn
                <4>3. \A i \in 1..Len(outbox') : outbox'[i].op # "torn" => i \in 1..n
                    BY <4>1, <4>2
                <4>4. \A i \in 1..n : i \in 1..Len(outbox')
                    BY <4>1
                <4>5. Queued' = Queued
                    <5>1. \A x \in Queued' : x \in Queued
                        BY <4>1, <4>3, UnansweredFrames
                    <5>2. \A x \in Queued : x \in Queued'
                        BY <4>1, <4>4, UnansweredFrames
                    <5> QED
                        BY <5>1, <5>2
                <4> QED
                    BY <4>1, <4>3, <4>5 DEF StreamInv, QueueOrder
            <3> QED
                BY <2>1, <3>1, <3>2
        <2>5. Unanswered' = Unanswered
            BY <1>1, <1>2, <2>4, UnansweredFrames
        <2>6. NumberOrder' /\ OnlyThisCall'
            <3>1. NumberOrder'
                BY <1>1, <2>1, <2>2, <2>3, <2>5, FewerNumbers DEF StreamInv
            <3>2. OnlyThisCall'
                BY <1>1, <1>3, <2>3, <2>5 DEF OnlyThisCall
            <3> QED
                BY <3>1, <3>2
        <2>7. QueueOrder'
            BY <1>1, <1>2, <2>4 DEF StreamInv, QueueOrder
        <2>8. OwnAnswer'
            BY <2>1 DEF OwnAnswer, Accepted
        <2> QED
            BY <2>3, <2>6, <2>7, <2>8 DEF StreamInv
    <1>6. ASSUME NEW plan \in PlansFor(op), Call(t, op, plan)
          PROVE  StreamInv'
        <2> DEFINE f == Frame(op, plan)
                   n == Len(outbox)
        <2>1. /\ outbox' = Append(outbox, f) /\ sequence' = sequence + 1 /\ returned' = NoReturn
              /\ calls'[t].phase = "header" /\ calls'[t].number = sequence'
              /\ \A u \in Thread \ {t} : calls'[u] = Idle
              /\ calls'[t] # Idle
            <3>1. /\ outbox' = Append(outbox, f) /\ sequence' = sequence + 1
                  /\ returned' = NoReturn
                  /\ calls' = [calls EXCEPT ![t] =
                        [phase |-> "header", op |-> op, number |-> sequence', plan |-> plan,
                         seen |-> IF op = "VALIDATE_CURRENTNESS" THEN <<coordinator>> ELSE <<>>]]
                BY <1>6 DEF Call
            <3>2. calls'[t].phase = "header" /\ calls'[t].number = sequence'
                BY <1>2, <3>1
            <3> QED
                BY <1>1, <1>2, <3>1, <3>2 DEF Lockable, Idle
        <2>2. f.number = sequence + 1 /\ f.op # "torn"
            BY DEF Frame, Op
        <2> HIDE DEF f
        <2>3. UnitOrder' /\ Arriving' \subseteq Arriving
            BY <1>4, <2>1 DEF Idle
        <2>4. /\ n \in Nat /\ Len(outbox') = n + 1 /\ outbox'[n + 1] = f
              /\ \A i \in 1..n : outbox'[i] = outbox[i]
            BY <1>2, <2>1, AppendProperties
        <2>5. \A x \in Queued' : x \in Queued \/ x = f
            <3>1. \A i \in 1..Len(outbox') : i \in 1..n \/ i = n + 1
                BY <2>4
            <3> QED
                BY <2>4, <3>1, UnansweredFrames
        <2>6. \A x \in Unanswered' : x \in Unanswered \/ x = f
            BY <1>1, <1>2, <2>5, UnansweredFrames
        <2>7. \A a \in Arriving : a.number \in Nat /\ consumed < a.number /\ a.number <= sequence
                                  /\ a.conn = conn
            BY ArrivingNumbers DEF StreamInv, NumberOrder
        <2>8. \A g \in Unanswered : g.number \in Nat /\ consumed < g.number
                                    /\ g.number <= sequence
            BY UnansweredNumbers DEF StreamInv, NumberOrder
        <2>9. consumed <= sequence
            BY DEF StreamInv, NumberOrder
        <2>10. NumberOrder'
            <3>1. \A a \in Arriving' : consumed' < a.number /\ a.number <= sequence'
                                       /\ a.conn = conn' /\ a.number < f.number
                BY <1>1, <1>2, <2>1, <2>2, <2>3, <2>7
            <3>2. \A g \in Unanswered' : consumed' < g.number /\ g.number <= sequence'
                BY <1>1, <1>2, <2>1, <2>2, <2>6, <2>8, <2>9
            <3>3. consumed' <= sequence'
                BY <1>1, <1>2, <2>1, <2>9
            <3>4. \A a \in Arriving', g \in Unanswered' : a.number < g.number
                BY <2>3, <2>6, <3>1 DEF StreamInv, NumberOrder
            <3>5. \A u \in Thread : calls'[u] # Idle => calls'[u].number = sequence'
                BY <2>1
            <3> QED
                BY <3>1, <3>2, <3>3, <3>4, <3>5 DEF NumberOrder
        <2>11. QueueOrder'
            <3>1. InHand => session.frame \in Unanswered
                BY UnansweredFrames
            <3>2. InHand' => \A g \in Queued' : session'.frame.number < g.number
                <4>1. InHand => session.frame.number < f.number
                    BY <1>2, <2>2, <2>8, <3>1
                <4> QED
                    BY <1>1, <1>2, <2>5, <4>1 DEF StreamInv, QueueOrder
            <3>3. ASSUME NEW i \in 1..Len(outbox'), NEW j \in 1..Len(outbox'), i < j,
                         outbox'[i].op # "torn", outbox'[j].op # "torn"
                  PROVE  outbox'[i].number < outbox'[j].number
                <4>1. i \in 1..n /\ outbox'[i] = outbox[i] /\ outbox[i].op # "torn"
                    BY <2>4, <3>3
                <4>2. CASE j \in 1..n
                    BY <2>4, <3>3, <4>1, <4>2 DEF StreamInv, QueueOrder
                <4>3. CASE j = n + 1
                    <5>1. outbox[i] \in Unanswered
                        BY <4>1, UnansweredFrames
                    <5> QED
                        BY <1>2, <2>2, <2>4, <2>8, <4>1, <4>3, <5>1
                <4> QED
                    BY <2>4, <4>2, <4>3
            <3> QED
                BY <3>2, <3>3 DEF QueueOrder
        <2>12. OnlyThisCall'
            BY <1>1, <1>3, <2>1, <2>2, <2>3, <2>6 DEF OnlyThisCall, Busy
        <2>13. OwnAnswer'
            BY <2>1 DEF OwnAnswer, Accepted, NoReturn
        <2> QED
            BY <2>3, <2>10, <2>11, <2>12, <2>13 DEF StreamInv
    <1> QED
        BY <1>5, <1>6 DEF CallBegins

\* A header taken from the front keeps the order of the units.
LEMMA HeaderStream ==
    ASSUME TypeInv, UnitOrder, NEW t \in Thread, ReadHeader(t)
    PROVE  UnitOrder' /\ Arriving' \subseteq Arriving
    <1> DEFINE n == Len(inbox)
               h == SubSeq(inbox, 1, HeaderUnits)
    <1>1. inbox \in Seq(Unit) /\ n \in Nat /\ n >= 2 /\ 2 \in 0..n
        BY DEF TypeInv, ReadHeader, HeaderUnits
    <1>2. inbox' = SubSeq(inbox, 2 + 1, n) /\ wire' = wire
        BY DEF ReadHeader, HeaderUnits
    <1>3. /\ Sorted(inbox) => Sorted(inbox')
          /\ \A g : AllBefore(inbox, g) => AllBefore(inbox', g)
          /\ \A x : Holds(inbox', x) => Holds(inbox, x)
        BY <1>1, <1>2, DropKeepsOrder
    <1>4. /\ Len(inbox') = n - 2
          /\ \A i \in 1..(n - 2) : inbox'[i] = inbox[2 + i]
        BY <1>1, <1>2, DropUnits
    <1>5. h \in Seq(Unit) /\ Len(h) = 2 /\ h[1] = inbox[1] /\ h[2] = inbox[2]
        <2>1. \A i \in 1..2 : inbox[i] \in Unit
            BY <1>1
        <2>2. /\ SubSeq(inbox, 1, 2) \in Seq(Unit) /\ Len(SubSeq(inbox, 1, 2)) = 2
              /\ \A i \in 1..2 : SubSeq(inbox, 1, 2)[i] = inbox[i]
            BY <1>1, <2>1, SubSeqProperties
        <2> QED
            BY <2>2 DEF HeaderUnits
    <1>6. /\ calls'[t].phase = "payload" /\ calls'[t].head = h
          /\ Starts(h) => calls'[t].need = 1
          /\ \A u \in Thread \ {t} : calls'[u] = Idle
        <2>1. calls[t].phase = "header"
            BY DEF ReadHeader
        <2>2. \A u \in Thread \ {t} : calls[u] = Idle
            BY <2>1, InCall
        <2>3. PICK need \in IF Starts(h) THEN {1} ELSE 1..MaxGarbage :
                  calls' = [calls EXCEPT ![t] =
                      [phase |-> "payload", head |-> h, need |-> need,
                       op |-> @.op, number |-> @.number, plan |-> @.plan, seen |-> @.seen]]
            BY DEF ReadHeader
        <2> HIDE DEF h
        <2>4. calls \in [Thread -> CallState]
            BY DEF TypeInv
        <2> QED
            BY <2>2, <2>3, <2>4
    <1> HIDE DEF h
    <1>7. \A i \in 1..2 : h[i] = inbox[i] /\ i \in 1..n
        BY <1>1, <1>5
    <1>8. Sorted(h)
        BY <1>5, <1>7 DEF UnitOrder, Sorted
    <1>9. AllBefore(h, inbox')
        <2>1. \A i \in 1..2, j \in 1..(n - 2) : i < 2 + j /\ 2 + j \in 1..n
            BY <1>1
        <2>2. \A i, j \in 1..n : i < j => Before(inbox[i], inbox[j])
            BY DEF UnitOrder, Sorted
        <2>3. \A i \in 1..2, j \in 1..(n - 2) : Before(h[i], inbox'[j])
            <3> HIDE DEF n
            <3> QED
                BY <1>4, <1>7, <2>1, <2>2
        <2> QED
            BY <1>4, <1>5, <2>3 DEF AllBefore
    <1>10. AllBefore(h, wire')
        BY <1>2, <1>5, <1>7 DEF UnitOrder, AllBefore
    <1>11. UnitOrder'
        <2>1. Sorted(inbox)' /\ Sorted(wire)' /\ AllBefore(inbox, wire)'
            BY <1>2, <1>3 DEF UnitOrder
        <2>2. ASSUME NEW u \in Thread, calls'[u].phase = "payload"
              PROVE  u = t
            BY <1>6, <2>2 DEF Idle
        <2> QED
            BY <1>6, <1>8, <1>9, <1>10, <2>1, <2>2 DEF UnitOrder
    <1>12. \A x : Holds(h, x) => Holds(inbox, x)
        BY <1>5, <1>7 DEF Holds
    <1>13. Arriving' \subseteq Arriving
        <2>1. ASSUME NEW u \in Thread, calls'[u].phase = "payload"
              PROVE  calls'[u].head = h
            BY <1>6, <2>1 DEF Idle
        <2> QED
            BY <1>2, <1>3, <1>12, <2>1, ArrivingUnits
    <1> QED
        BY <1>11, <1>13

\* A frame that is accepted was whole, so everything after it is newer.
LEMMA AcceptedFrame ==
    ASSUME TypeInv, StreamInv, NEW t \in Thread, ReadPayload(t), ~Fails(t)
    PROVE  LET a == calls[t].head[1].of
           IN  /\ calls[t].phase = "payload" /\ a \in Arriving
               /\ Accept(t, a) /\ troubled' = troubled
               /\ inbox' = SubSeq(inbox, 1 + 1, Len(inbox)) /\ 1 \in 0..Len(inbox)
               /\ \A x \in Arriving' : x.number > a.number
    <1> DEFINE h == calls[t].head
               a == h[1].of
               n == Len(inbox)
    <1>1. /\ calls[t].phase = "payload" /\ n >= calls[t].need
          /\ inbox' = SubSeq(inbox, calls[t].need + 1, n)
          /\ Starts(h) /\ inbox[1] = [part |-> 3, of |-> a]
          /\ Accept(t, a) /\ troubled' = troubled /\ wire' = wire
        BY DEF ReadPayload
    <1>2. /\ calls[t].need = 1 /\ AllBefore(h, inbox) /\ AllBefore(h, wire)
          /\ AllBefore(inbox, wire) /\ Sorted(inbox)
        BY <1>1 DEF StreamInv, UnitOrder
    <1>3. inbox \in Seq(Unit) /\ n \in Nat /\ 1 \in 0..n /\ n >= 1 /\ wire \in Seq(Unit)
        BY <1>1, <1>2 DEF TypeInv
    <1>4. h \in Seq(Unit) /\ Len(h) = 2
        BY <1>1, CallFields, HeadUnits DEF TypeInv
    <1>5. a \in Arriving
        BY <1>1, <1>4, ArrivingUnits DEF Holds
    <1>6. a.number \in Nat
        BY <1>5, ArrivingNumbers
    <1>7. \A u \in Unit : Before(inbox[1], u) => u.of.number > a.number
        <2> SUFFICES ASSUME NEW u \in Unit, Before(inbox[1], u)
                     PROVE  u.of.number > a.number
            OBVIOUS
        <2>1. u.part \in 1..3 /\ u.of.number \in Nat
            BY DEF Unit, TypeInv
        <2>2. inbox[1].part = 3 /\ inbox[1].of = a
            BY <1>1
        <2> HIDE DEF a
        <2> QED
            BY <1>6, <2>1, <2>2 DEF Before
    <1>8. \A i \in 1..Len(wire) : wire[i].of.number > a.number
        BY <1>2, <1>3, <1>7 DEF AllBefore
    <1>9. /\ Len(inbox') = n - 1
          /\ \A i \in 1..(n - 1) : inbox'[i] = inbox[1 + i]
        BY <1>1, <1>2, <1>3, DropUnits
    <1>10. \A i \in 1..(n - 1) : inbox'[i].of.number > a.number
        <2>1. \A i \in 1..(n - 1) : 1 < 1 + i /\ 1 + i \in 1..n /\ 1 \in 1..n
            BY <1>3
        <2>2. \A i \in 1..(n - 1) : Before(inbox[1], inbox[1 + i]) /\ inbox[1 + i] \in Unit
            BY <1>2, <1>3, <2>1 DEF Sorted
        <2> QED
            BY <1>7, <1>9, <2>2
    <1>11. \A u \in Thread : calls'[u] = Idle
        <2>1. calls' = [calls EXCEPT ![t] = Idle]
            BY <1>1 DEF Accept
        <2>2. \A u \in Thread \ {t} : calls[u] = Idle
            BY <1>1, InCall
        <2>3. calls \in [Thread -> CallState]
            BY DEF TypeInv
        <2> QED
            BY <2>1, <2>2, <2>3
    <1>12. \A x \in Arriving' : x.number > a.number
        <2> SUFFICES ASSUME NEW x \in Arriving'
                     PROVE  x.number > a.number
            OBVIOUS
        <2>1. \A u \in Thread : calls'[u].phase # "payload"
            BY <1>11 DEF Idle
        <2>2. Holds(inbox', x) \/ Holds(wire', x)
            BY <2>1, ArrivingUnits
        <2> HIDE DEF a
        <2>3. CASE Holds(inbox', x)
            BY <1>9, <1>10, <2>3 DEF Holds
        <2>4. CASE Holds(wire', x)
            BY <1>1, <1>8, <2>4 DEF Holds
        <2> QED
            BY <2>2, <2>3, <2>4
    <1> QED
        BY <1>1, <1>2, <1>3, <1>5, <1>12

\* A read keeps the order, and what it accepts is the caller's own answer.
LEMMA ReadStream ==
    ASSUME TypeInv, StreamInv, NEW t \in Thread, ClientReads(t)
    PROVE  StreamInv'
    <1>1. UNCHANGED <<socket, sequence, conn, outbox, wire, session>>
        BY ReadKeeps
    <1>2. calls[t].phase \in {"header", "payload"}
        BY ReadTakes
    <1>3. /\ calls[t] # Idle /\ socket = conn /\ \A u \in Thread \ {t} : calls[u] = Idle
          /\ calls \in [Thread -> CallState]
        BY <1>2, InCall DEF TypeInv
    <1>4. QueueOrder' /\ Unanswered' = Unanswered
        <2>1. InHand' = InHand /\ session'.frame = session.frame
            BY <1>1 DEF InHand
        <2>2. QueueOrder'
            BY <1>1, <2>1, FewerRequests DEF StreamInv
        <2>3. Unanswered' = Unanswered
            BY <1>1 DEF Unanswered, Queued, InHand
        <2> QED
            BY <2>2, <2>3
    <1>5. calls[t].number = sequence
        BY <1>3 DEF StreamInv, NumberOrder
    <1>6. CASE ReadHeader(t)
        <2>1. UnitOrder' /\ Arriving' \subseteq Arriving
            BY <1>6, HeaderStream DEF StreamInv
        <2>2. UNCHANGED <<troubled, consumed, returned>>
            BY <1>6 DEF ReadHeader, history
        <2>3. /\ calls'[t].number = calls[t].number /\ calls'[t] # Idle
              /\ \A u \in Thread \ {t} : calls'[u] = calls[u]
            <3> DEFINE h == SubSeq(inbox, 1, HeaderUnits)
            <3>1. PICK need :
                  calls' = [calls EXCEPT ![t] =
                      [phase |-> "payload", head |-> h, need |-> need,
                       op |-> @.op, number |-> @.number, plan |-> @.plan, seen |-> @.seen]]
                BY <1>6 DEF ReadHeader
            <3> HIDE DEF h
            <3>2. calls'[t].phase = "payload" /\ calls'[t].number = calls[t].number
                BY <1>3, <3>1
            <3> QED
                BY <1>3, <3>1, <3>2 DEF Idle
        <2>4. NumberOrder'
            BY <1>1, <1>3, <1>4, <1>5, <2>1, <2>2, <2>3, FewerNumbers DEF StreamInv
        <2>5. OnlyThisCall'
            BY <1>1, <1>4, <2>1, <2>2, <2>3, FewerForCall DEF StreamInv, Busy
        <2>6. OwnAnswer'
            BY <1>1, <2>2, ReturnKept DEF StreamInv
        <2> QED
            BY <1>4, <2>1, <2>4, <2>5, <2>6 DEF StreamInv
    <1>7. ASSUME calls' = [calls EXCEPT ![t] = Idle]
          PROVE  /\ \A u \in Thread : calls'[u] = Idle
                 /\ UnitOrder' /\ Arriving' \subseteq Arriving
        <2>1. \A u \in Thread : calls'[u] = Idle
            BY <1>3, <1>7
        <2>2. PICK k \in 0..Len(inbox) : inbox' = SubSeq(inbox, k + 1, Len(inbox))
            BY ReadTakes
        <2>3. \A u \in Thread : calls'[u].phase # "payload"
            BY <2>1 DEF Idle
        <2>4. UnitOrder' /\ Arriving' \subseteq Arriving
            BY <1>1, <2>2, <2>3, FewerUnits DEF StreamInv
        <2> QED
            BY <2>1, <2>4
    <1>8. CASE Fails(t)
        <2>1. /\ calls' = [calls EXCEPT ![t] = Idle] /\ consumed' = consumed /\ troubled' = TRUE
              /\ returned'.verdict = "read failed"
            BY <1>8 DEF Fails, Return
        <2>2. NumberOrder'
            BY <1>1, <1>4, <1>7, <2>1, FewerNumbers DEF StreamInv
        <2>3. OnlyThisCall' /\ OwnAnswer'
            BY <2>1 DEF OnlyThisCall, OwnAnswer, Accepted
        <2> QED
            BY <1>4, <1>7, <2>1, <2>2, <2>3 DEF StreamInv
    <1>9. CASE ReadPayload(t) /\ ~Fails(t)
        <2> DEFINE a == calls[t].head[1].of
        <2>1. /\ calls[t].phase = "payload" /\ a \in Arriving
              /\ Accept(t, a) /\ troubled' = troubled
              /\ \A x \in Arriving' : x.number > a.number
            BY <1>9, AcceptedFrame
        <2> HIDE DEF a
        <2>2. /\ calls' = [calls EXCEPT ![t] = Idle] /\ consumed' = a.number
              /\ returned'.answer = a /\ returned'.number = sequence
              /\ returned'.after = consumed /\ returned'.troubled = troubled
            BY <1>5, <2>1 DEF Accept
        <2>3. /\ a.number \in Nat /\ consumed < a.number /\ a.number <= sequence /\ a.conn = conn
              /\ ~troubled => a.number = sequence
            BY <2>1, ArrivingNumbers DEF StreamInv, NumberOrder, OnlyThisCall
        <2>4. /\ sequence \in Nat /\ consumed \in Nat
            BY DEF TypeInv
        <2>5. OwnAnswer'
            BY <1>1, <1>3, <2>2, <2>3, <2>4 DEF OwnAnswer
        <2>6. \A f \in Unanswered' : a.number < f.number /\ f.number <= sequence
            BY <1>4, <2>1 DEF StreamInv, NumberOrder
        <2>7. \A x \in Arriving' : a.number < x.number /\ x.number <= sequence /\ x.conn = conn
            <3>1. \A x \in Arriving : x.number \in Nat
                BY ArrivingNumbers
            <3> QED
                BY <1>7, <2>1, <2>2, <2>3, <3>1 DEF StreamInv, NumberOrder
        <2>8. NumberOrder'
            <3>1. \A x \in Arriving', f \in Unanswered' : x.number < f.number
                BY <1>4, <1>7, <2>2 DEF StreamInv, NumberOrder
            <3> QED
                BY <1>1, <1>7, <2>2, <2>3, <2>6, <2>7, <3>1 DEF NumberOrder
        <2>9. OnlyThisCall'
            <3>1. \A f \in Unanswered : f.number \in Nat
                BY UnansweredNumbers
            <3>2. \A x \in Arriving : x.number \in Nat
                BY ArrivingNumbers
            <3>3. ~troubled => Unanswered' = {}
                BY <1>4, <2>3, <2>4, <2>6, <3>1
            <3>4. ~troubled => Arriving' = {}
                BY <1>7, <2>2, <2>3, <2>4, <2>7, <3>2
            <3> QED
                BY <2>1, <3>3, <3>4 DEF OnlyThisCall
        <2> QED
            BY <1>4, <1>7, <2>2, <2>5, <2>8, <2>9 DEF StreamInv
    <1>10. ReadHeader(t) \/ Fails(t) \/ (ReadPayload(t) /\ ~Fails(t))
        BY DEF ClientReads, ReadRejected, ReadFails
    <1> QED
        BY <1>6, <1>8, <1>9, <1>10

\* A unit that arrives was the first of those on the way.
LEMMA DeliverOrder ==
    ASSUME TypeInv, UnitOrder, Deliver
    PROVE  UnitOrder' /\ Arriving' \subseteq Arriving
    <1> DEFINE m == Len(wire)
               n == Len(inbox)
    <1>1. /\ wire # <<>> /\ inbox' = Append(inbox, Head(wire)) /\ wire' = Tail(wire)
          /\ calls' = calls /\ wire \in Seq(Unit) /\ inbox \in Seq(Unit)
        BY DEF Deliver, client, TypeInv
    <1>2. /\ m \in Nat /\ m >= 1 /\ n \in Nat
          /\ Len(wire') = m - 1 /\ \A i \in 1..(m - 1) : wire'[i] = wire[i + 1]
        BY <1>1, HeadTailProperties
    <1>3. /\ Len(inbox') = n + 1 /\ inbox'[n + 1] = wire[1]
          /\ \A i \in 1..n : inbox'[i] = inbox[i]
        BY <1>1, AppendProperties
    <1>4. /\ \A i, j \in 1..n : i < j => Before(inbox[i], inbox[j])
          /\ \A i, j \in 1..m : i < j => Before(wire[i], wire[j])
          /\ \A i \in 1..n, j \in 1..m : Before(inbox[i], wire[j])
        BY DEF UnitOrder, Sorted, AllBefore
    <1>5. /\ \A i \in 1..(m - 1) : i + 1 \in 1..m /\ 1 < i + 1
          /\ \A i, j \in 1..(m - 1) : i < j => i + 1 < j + 1
          /\ 1 \in 1..m
          /\ \A i \in 1..(n + 1) : i \in 1..n \/ i = n + 1
        <2> HIDE DEF m, n
        <2> QED
            BY <1>2
    <1>6. ASSUME NEW h, \A i \in 1..Len(h), j \in 1..n : Before(h[i], inbox[j]),
                 \A i \in 1..Len(h), j \in 1..m : Before(h[i], wire[j])
          PROVE  AllBefore(h, inbox') /\ AllBefore(h, wire')
        <2> HIDE DEF m, n
        <2>1. \A i \in 1..Len(h), j \in 1..(n + 1) : Before(h[i], inbox'[j])
            BY <1>3, <1>5, <1>6
        <2>2. \A i \in 1..Len(h), j \in 1..(m - 1) : Before(h[i], wire'[j])
            BY <1>2, <1>5, <1>6
        <2> QED
            BY <1>2, <1>3, <2>1, <2>2 DEF AllBefore
    <1>7. Sorted(inbox')
        <2> HIDE DEF m, n
        <2>1. ASSUME NEW i \in 1..(n + 1), NEW j \in 1..(n + 1), i < j
              PROVE  Before(inbox'[i], inbox'[j])
            <3>1. i \in 1..n /\ inbox'[i] = inbox[i]
                BY <1>2, <1>3, <2>1
            <3>2. CASE j \in 1..n
                BY <1>3, <1>4, <2>1, <3>1, <3>2
            <3>3. CASE j = n + 1
                BY <1>3, <1>4, <1>5, <3>1, <3>3
            <3> QED
                BY <1>5, <3>2, <3>3
        <2> QED
            BY <1>3, <2>1 DEF Sorted
    <1>8. Sorted(wire')
        <2> HIDE DEF m, n
        <2>1. \A i, j \in 1..(m - 1) : i < j => Before(wire'[i], wire'[j])
            BY <1>2, <1>4, <1>5
        <2> QED
            BY <1>2, <2>1 DEF Sorted
    <1>9. AllBefore(inbox', wire')
        <2> HIDE DEF m, n
        <2>1. \A i \in 1..(n + 1), j \in 1..(m - 1) : Before(inbox'[i], wire'[j])
            BY <1>2, <1>3, <1>4, <1>5
        <2> QED
            BY <1>2, <1>3, <2>1 DEF AllBefore
    <1>10. UnitOrder'
        <2>1. ASSUME NEW t \in Thread, calls[t].phase = "payload"
              PROVE  /\ Starts(calls[t].head) => calls[t].need = 1
                     /\ Sorted(calls[t].head)
                     /\ AllBefore(calls[t].head, inbox') /\ AllBefore(calls[t].head, wire')
            <3> DEFINE h == calls[t].head
            <3>1. /\ \A i \in 1..Len(h), j \in 1..n : Before(h[i], inbox[j])
                  /\ \A i \in 1..Len(h), j \in 1..m : Before(h[i], wire[j])
                BY <2>1 DEF UnitOrder, AllBefore
            <3>2. AllBefore(h, inbox') /\ AllBefore(h, wire')
                BY <1>6, <3>1
            <3> QED
                BY <2>1, <3>2 DEF UnitOrder
        <2> QED
            BY <1>1, <1>7, <1>8, <1>9, <2>1 DEF UnitOrder
    <1>11. \A x : Holds(inbox', x) \/ Holds(wire', x) => Holds(inbox, x) \/ Holds(wire, x)
        <2> HIDE DEF m, n
        <2>1. \A i \in 1..(n + 1) : \/ \E j \in 1..n : inbox'[i] = inbox[j]
                                    \/ \E j \in 1..m : inbox'[i] = wire[j]
            BY <1>3, <1>5
        <2>2. \A i \in 1..(m - 1) : \E j \in 1..m : wire'[i] = wire[j]
            BY <1>2, <1>5
        <2>3. ASSUME NEW x, Holds(inbox', x)
              PROVE  Holds(inbox, x) \/ Holds(wire, x)
            <3>1. PICK i \in 1..(n + 1) : x = inbox'[i].of
                BY <1>3, <2>3 DEF Holds
            <3> QED
                BY <2>1, <3>1 DEF Holds, m, n
        <2>4. ASSUME NEW x, Holds(wire', x)
              PROVE  Holds(wire, x)
            <3>1. PICK i \in 1..(m - 1) : x = wire'[i].of
                BY <1>2, <2>4 DEF Holds
            <3> QED
                BY <2>2, <3>1 DEF Holds, m
        <2> QED
            BY <2>3, <2>4
    <1>12. Arriving' \subseteq Arriving
        BY <1>1, <1>11, ArrivingUnits
    <1> QED
        BY <1>10, <1>12

\* An answer is sent behind all others, and is newer than they are.
LEMMA AnswerOrder ==
    ASSUME TypeInv, UnitOrder, NEW a \in AnswerRecord, UNCHANGED <<calls, inbox>>,
           wire' = wire \o [i \in 1..3 |-> [part |-> i, of |-> a]],
           \A x \in Arriving : x.number < a.number
    PROVE  UnitOrder' /\ \A x \in Arriving' : x \in Arriving \/ x = a
    <1> DEFINE m == Len(wire)
    <1>1. wire \in Seq(Unit) /\ m \in Nat
        BY DEF TypeInv
    <1>2. /\ Len(wire') = m + 3
          /\ \A i \in 1..m : wire'[i] = wire[i]
          /\ \A i \in 1..3 : wire'[m + i] = [part |-> i, of |-> a]
        BY <1>1, Appended
    <1>3. ASSUME NEW i \in 1..(m + 3)
          PROVE  i \in 1..m \/ \E k \in 1..3 : i = m + k
        <2> HIDE DEF m
        <2>1. i <= m \/ i = m + 1 \/ i = m + 2 \/ i = m + 3
            BY <1>1
        <2> QED
            BY <1>1, <2>1
    <1>4. ASSUME NEW i \in 1..(m + 3)
          PROVE  \/ i \in 1..m /\ wire'[i] = wire[i]
                 \/ \E k \in 1..3 : i = m + k /\ wire'[i].of = a /\ wire'[i].part = k
        <2> HIDE DEF m
        <2>1. CASE i \in 1..m
            BY <1>2, <2>1
        <2>2. ASSUME NEW k \in 1..3, i = m + k
              PROVE  wire'[i].of = a /\ wire'[i].part = k
            BY <1>2, <2>2
        <2> QED
            BY <1>3, <2>1, <2>2
    <1>5. ASSUME NEW h, \A x : Holds(h, x) => x \in Arriving, AllBefore(h, wire)
          PROVE  AllBefore(h, wire')
        <2> HIDE DEF m
        <2>1. ASSUME NEW i \in 1..Len(h), NEW j \in 1..(m + 3)
              PROVE  Before(h[i], wire'[j])
            <3>1. CASE j \in 1..m /\ wire'[j] = wire[j]
                BY <1>5, <3>1 DEF AllBefore, m
            <3>2. CASE wire'[j].of = a
                <4>1. h[i].of \in Arriving
                    BY <1>5 DEF Holds
                <4> QED
                    BY <3>2, <4>1 DEF Before
            <3> QED
                BY <1>4, <3>1, <3>2
        <2> QED
            BY <1>2, <2>1 DEF AllBefore
    <1>6. \A x : Holds(wire, x) \/ Holds(inbox, x) => x \in Arriving
        BY ArrivingUnits
    <1>7. Sorted(wire')
        <2> HIDE DEF m
        <2>1. ASSUME NEW i \in 1..(m + 3), NEW j \in 1..(m + 3), i < j
              PROVE  Before(wire'[i], wire'[j])
            <3>1. CASE i \in 1..m /\ wire'[i] = wire[i] /\ j \in 1..m /\ wire'[j] = wire[j]
                BY <2>1, <3>1 DEF UnitOrder, Sorted, m
            <3>2. CASE i \in 1..m /\ wire'[i] = wire[i] /\ wire'[j].of = a
                <4>1. wire[i].of \in Arriving
                    BY <1>6, <3>2 DEF Holds, m
                <4> QED
                    BY <3>2, <4>1 DEF Before
            <3>3. ASSUME NEW k \in 1..3, i = m + k, wire'[i].of = a, wire'[i].part = k,
                         NEW l \in 1..3, j = m + l, wire'[j].of = a, wire'[j].part = l
                  PROVE  Before(wire'[i], wire'[j])
                <4>1. k < l
                    BY <1>1, <2>1, <3>3
                <4> QED
                    BY <3>3, <4>1 DEF Before
            <3>4. ASSUME NEW k \in 1..3, i = m + k
                  PROVE  j \notin 1..m
                BY <1>1, <2>1, <3>4
            <3> QED
                BY <1>4, <3>1, <3>2, <3>3, <3>4
        <2> QED
            BY <1>2, <2>1 DEF Sorted
    <1>8. AllBefore(inbox', wire') /\ Sorted(inbox')
        BY <1>5, <1>6 DEF UnitOrder
    <1>9. ASSUME NEW t \in Thread, calls[t].phase = "payload"
          PROVE  AllBefore(calls[t].head, wire')
        <2>1. \A x : Holds(calls[t].head, x) => x \in Arriving
            BY <1>9, ArrivingUnits
        <2> QED
            BY <1>5, <1>9, <2>1 DEF UnitOrder
    <1>10. UnitOrder'
        BY <1>7, <1>8, <1>9 DEF UnitOrder
    <1>11. \A x : Holds(wire', x) => Holds(wire, x) \/ x = a
        <2> HIDE DEF m
        <2>1. \A i \in 1..(m + 3) : (\E j \in 1..m : wire'[i] = wire[j]) \/ wire'[i].of = a
            BY <1>4
        <2> QED
            BY <1>2, <2>1 DEF Holds, m
    <1>12. \A x \in Arriving' : x \in Arriving \/ x = a
        BY <1>11, ArrivingUnits
    <1> QED
        BY <1>10, <1>12

\* A step that is not the client's leaves what its calls know of the stream.
LEMMA CallKept ==
    ASSUME TypeInv, StreamInv,
           UNCHANGED <<socket, sequence, conn, consumed, troubled, returned>>,
           \A t \in Thread : /\ calls'[t] = Idle <=> calls[t] = Idle
                             /\ calls[t] # Idle => calls'[t].number = calls[t].number,
           Arriving' \subseteq Arriving, Unanswered' \subseteq Unanswered
    PROVE  NumberOrder' /\ OnlyThisCall' /\ OwnAnswer'
    <1>1. NumberOrder'
        <2>1. \A t \in Thread : calls'[t] # Idle => calls'[t].number = sequence'
            BY DEF StreamInv, NumberOrder
        <2> QED
            BY <2>1, FewerNumbers DEF StreamInv
    <1>2. OnlyThisCall'
        BY FewerForCall DEF StreamInv, Busy
    <1>3. OwnAnswer'
        BY ReturnKept DEF StreamInv
    <1> QED
        BY <1>1, <1>2, <1>3

\* Comparing the evidence and the end of the session put nothing under way.
LEMMA QuietOrder ==
    ASSUME TypeInv, StreamInv, CompareEvidence \/ SessionEnds
    PROVE  /\ UnitOrder' /\ Arriving' \subseteq Arriving
           /\ QueueOrder' /\ Unanswered' \subseteq Unanswered
    <1>1. /\ inbox' = inbox /\ calls' = calls
          /\ wire' \in {wire, <<>>} /\ outbox' \in {outbox, <<>>}
          /\ InHand' => InHand /\ session'.frame = session.frame
        <2>1. CASE CompareEvidence
            BY <2>1 DEF CompareEvidence, stream, client, InHand
        <2>2. CASE SessionEnds
            BY <2>2 DEF SessionEnds, client, InHand, NoSession
        <2> QED
            BY <2>1, <2>2
    <1>2. UnitOrder' /\ Arriving' \subseteq Arriving
        BY <1>1, DropNothing, FewerUnits DEF StreamInv
    <1>3. QueueOrder' /\ Unanswered' \subseteq Unanswered
        BY <1>1, FewerRequests DEF StreamInv
    <1> QED
        BY <1>2, <1>3

\* The session takes the oldest request in hand.
LEMMA TakeOrder ==
    ASSUME TypeInv, StreamInv, SessionRead
    PROVE  /\ UnitOrder' /\ Arriving' \subseteq Arriving
           /\ QueueOrder' /\ Unanswered' \subseteq Unanswered
    <1> DEFINE n == Len(outbox)
    <1>1. /\ ~InHand /\ calls' = calls /\ outbox # <<>> /\ outbox' = Tail(outbox)
          /\ session' = [phase |-> "working", frame |-> Head(outbox)]
          /\ Head(outbox).op # "torn" /\ UNCHANGED <<wire, inbox>>
        BY DEF SessionRead, InHand, client
    <1>2. /\ n \in Nat /\ n >= 1 /\ Head(outbox) = outbox[1]
          /\ Len(outbox') = n - 1 /\ \A i \in 1..(n - 1) : outbox'[i] = outbox[i + 1]
        BY <1>1, HeadTailProperties DEF TypeInv
    <1>3. InHand' /\ session'.frame = outbox[1] /\ outbox[1].op # "torn"
        BY <1>1, <1>2 DEF InHand
    <1>4. /\ \A i \in 1..(n - 1) : i + 1 \in 1..n /\ 1 < i + 1
          /\ \A i, j \in 1..(n - 1) : i < j => i + 1 < j + 1
          /\ 1 \in 1..n
        <2> HIDE DEF n
        <2> QED
            BY <1>2
    <1>5. \A i, j \in 1..n : i < j /\ outbox[i].op # "torn" /\ outbox[j].op # "torn"
                                 => outbox[i].number < outbox[j].number
        BY DEF StreamInv, QueueOrder
    <1>6. \A x \in Queued' : \E i \in 1..(n - 1) : outbox[i + 1].op # "torn" /\ x = outbox[i + 1]
        <2> HIDE DEF n
        <2> QED
            BY <1>2, UnansweredFrames
    <1>7. Unanswered' \subseteq Unanswered
        <2>1. outbox[1] \in Queued
            BY <1>3, <1>4, UnansweredFrames
        <2>2. \A x \in Queued' : x \in Queued
            BY <1>4, <1>6, UnansweredFrames
        <2> QED
            BY <1>3, <2>1, <2>2, UnansweredFrames
    <1>8. QueueOrder'
        <2> HIDE DEF n
        <2>1. \A f \in Queued' : session'.frame.number < f.number
            BY <1>3, <1>4, <1>5, <1>6
        <2>2. \A i, j \in 1..Len(outbox') :
                  i < j /\ outbox'[i].op # "torn" /\ outbox'[j].op # "torn"
                      => outbox'[i].number < outbox'[j].number
            BY <1>2, <1>4, <1>5
        <2> QED
            BY <2>1, <2>2 DEF QueueOrder
    <1>9. UnitOrder' /\ Arriving' \subseteq Arriving
        BY <1>1, DropNothing, FewerUnits DEF StreamInv
    <1> QED
        BY <1>7, <1>8, <1>9

\* What the session and the network do keeps the order of the stream.
LEMMA SessionStream ==
    ASSUME TypeInv, StreamInv, SessionStep
    PROVE  StreamInv'
    <1>1. UNCHANGED <<socket, sequence, calls, conn, consumed, troubled, returned>>
        <2>1. CASE HandleSnapshotRequest \/ HandlePlanRequest \/ CompareSequence
            BY <2>1, Answers DEF client, history
        <2>2. CASE ~(HandleSnapshotRequest \/ HandlePlanRequest \/ CompareSequence)
            BY <2>2 DEF SessionStep, Deliver, SessionRead, CompareEvidence, SessionEnds,
                        client, stream, history
        <2> QED
            BY <2>1, <2>2
    <1>2. CASE Deliver
        <2>1. UnitOrder' /\ Arriving' \subseteq Arriving
            BY <1>2, DeliverOrder DEF StreamInv
        <2>2. outbox' = outbox /\ session' = session
            BY <1>2 DEF Deliver, remote
        <2>3. QueueOrder' /\ Unanswered' \subseteq Unanswered
            BY <2>2, FewerRequests DEF StreamInv, InHand
        <2> QED
            BY <1>1, <2>1, <2>3, CallKept DEF StreamInv
    <1>3. CASE CompareEvidence \/ SessionEnds
        BY <1>1, <1>3, QuietOrder, CallKept DEF StreamInv
    <1>4. CASE SessionRead
        BY <1>1, <1>4, TakeOrder, CallKept DEF StreamInv
    <1>5. CASE HandleSnapshotRequest \/ HandlePlanRequest \/ CompareSequence
        <2>1. /\ InHand /\ session' = Reading /\ outbox' = outbox /\ inbox' = inbox
            BY <1>5, Answers
        <2>2. PICK a \in AnswerRecord :
                  /\ a.number = session.frame.number /\ a.conn = conn
                  /\ wire' = wire \o [i \in 1..3 |-> [part |-> i, of |-> a]]
            BY <1>5, Answers
        <2>3. session.frame \in Unanswered
            BY <2>1, UnansweredFrames
        <2>4. \A x \in Arriving : x.number < a.number
            BY <2>2, <2>3 DEF StreamInv, NumberOrder
        <2>5. UnitOrder' /\ \A x \in Arriving' : x \in Arriving \/ x = a
            BY <1>1, <2>1, <2>2, <2>4, AnswerOrder DEF StreamInv
        <2>6. ~InHand'
            BY <2>1 DEF InHand, Reading
        <2>7. QueueOrder' /\ Unanswered' \subseteq Unanswered
            BY <2>1, <2>6, FewerRequests DEF StreamInv
        <2>8. \A f \in Unanswered' : f \in Queued
            BY <2>1, <2>6, UnansweredFrames DEF Queued
        <2>9. NumberOrder'
            <3>1. \A f \in Unanswered' : a.number < f.number
                BY <2>1, <2>2, <2>8 DEF StreamInv, QueueOrder
            <3>2. consumed < a.number /\ a.number <= sequence /\ a.conn = conn
                BY <2>2, <2>3 DEF StreamInv, NumberOrder
            <3>3. \A x \in Arriving' : consumed < x.number /\ x.number <= sequence /\ x.conn = conn
                BY <2>5, <3>2 DEF StreamInv, NumberOrder
            <3>4. \A x \in Arriving', f \in Unanswered' : x.number < f.number
                BY <2>5, <2>7, <3>1 DEF StreamInv, NumberOrder
            <3> QED
                BY <1>1, <2>7, <3>3, <3>4 DEF StreamInv, NumberOrder
        <2>10. OnlyThisCall'
            <3>1. Busy' = Busy
                BY <1>1 DEF Busy
            <3>2. ~troubled => Busy /\ a.number = sequence
                BY <2>2, <2>3 DEF StreamInv, OnlyThisCall
            <3> QED
                BY <1>1, <2>5, <2>7, <3>1, <3>2 DEF StreamInv, OnlyThisCall
        <2>11. OwnAnswer'
            BY <1>1, ReturnKept DEF StreamInv
        <2> QED
            BY <2>5, <2>7, <2>9, <2>10, <2>11 DEF StreamInv
    <1> QED
        BY <1>2, <1>3, <1>4, <1>5 DEF SessionStep

\* A change at the coordinator leaves the stream alone, or breaks it off.
LEMMA ChangeOrder ==
    ASSUME TypeInv, StreamInv, CoordinatorStep
    PROVE  /\ UnitOrder' /\ Arriving' \subseteq Arriving
           /\ QueueOrder' /\ Unanswered' \subseteq Unanswered
           /\ conn' = conn
           /\ UNCHANGED <<socket, sequence, consumed, troubled, returned>>
           /\ \A t \in Thread : /\ calls'[t] = Idle <=> calls[t] = Idle
                                /\ calls[t] # Idle => calls'[t].number = calls[t].number
    <1>1. PICK c \in CoordinatorType :
               /\ Becomes(c)
               /\ \/ c.sequence = coordinator.sequence + 1 /\ UNCHANGED <<stream, session>>
                  \/ /\ session' = NoSession /\ eof' = (socket # 0) /\ outbox' = <<>>
                     /\ wire' \in {wire, <<>>} /\ UNCHANGED <<conn, inbox>>
        BY Changes DEF CoordinatorStep
    <1>2. /\ UNCHANGED <<socket, sequence, consumed, troubled, returned>>
          /\ \A t \in Thread :
                  /\ calls'[t].phase = calls[t].phase
                  /\ calls'[t] = Idle <=> calls[t] = Idle
                  /\ calls[t] # Idle => calls'[t].number = calls[t].number
                  /\ calls[t].phase = "payload" =>
                        calls'[t].head = calls[t].head /\ calls'[t].need = calls[t].need
        BY <1>1, Notes DEF history
    <1>3. /\ conn' = conn /\ inbox' = inbox /\ wire' \in {wire, <<>>}
          /\ outbox' \in {outbox, <<>>}
          /\ InHand' => InHand /\ session'.frame = session.frame
        <2>1. CASE UNCHANGED <<stream, session>>
            BY <2>1 DEF stream, InHand
        <2>2. CASE /\ session' = NoSession /\ outbox' = <<>>
                   /\ wire' \in {wire, <<>>} /\ UNCHANGED <<conn, inbox>>
            BY <2>2 DEF InHand, NoSession
        <2> QED
            BY <1>1, <2>1, <2>2
    <1>4. UnitOrder' /\ Arriving' \subseteq Arriving
        BY <1>2, <1>3, DropNothing, FewerUnits DEF StreamInv
    <1>5. QueueOrder' /\ Unanswered' \subseteq Unanswered
        BY <1>3, FewerRequests DEF StreamInv
    <1> QED
        BY <1>2, <1>3, <1>4, <1>5

\* So it keeps the order of the stream.
LEMMA CoordinatorStream ==
    ASSUME TypeInv, StreamInv, CoordinatorStep
    PROVE  StreamInv'
    BY ChangeOrder, CallKept DEF StreamInv

\* Every step keeps the order of the stream.
LEMMA NextStream ==
    ASSUME TypeInv, StreamInv, [Next]_vars
    PROVE  StreamInv'
    <1>1. CASE Next
        BY <1>1, NextCases, ConnectionStream, CallStream, ReadStream, SessionStream,
           CoordinatorStream
    <1>2. CASE UNCHANGED vars
        <2>1. /\ UNCHANGED <<socket, sequence, calls, conn, outbox, wire, inbox, session,
                             troubled, consumed, returned>>
            BY <1>2 DEF vars, client, stream, remote, history
        <2>2. UnitOrder' /\ Arriving' \subseteq Arriving
            BY <2>1, DropNothing, FewerUnits DEF StreamInv
        <2>3. QueueOrder' /\ Unanswered' \subseteq Unanswered
            BY <2>1, FewerRequests DEF StreamInv, InHand
        <2> QED
            BY <2>1, <2>2, <2>3, CallKept DEF StreamInv
    <1> QED
        BY <1>1, <1>2

\* There is nothing in the stream at the beginning.
LEMMA InitStream ==
    ASSUME Init
    PROVE  StreamInv
    <1>1. /\ \A t \in Thread : calls[t] = Idle
          /\ outbox = <<>> /\ wire = <<>> /\ inbox = <<>> /\ session = NoSession
          /\ sequence = 0 /\ consumed = 0 /\ returned = NoReturn
        BY DEF Init
    <1>2. Arriving = {}
        BY <1>1, ArrivingUnits DEF Idle, Holds
    <1>3. ~InHand
        BY <1>1 DEF InHand, NoSession
    <1>4. Unanswered = {} /\ Queued = {}
        BY <1>1, <1>3, UnansweredFrames
    <1>5. UnitOrder
        BY <1>1 DEF UnitOrder, Sorted, AllBefore, Idle
    <1>6. NumberOrder /\ QueueOrder /\ OnlyThisCall
        BY <1>1, <1>2, <1>3, <1>4 DEF NumberOrder, QueueOrder, OnlyThisCall
    <1>7. OwnAnswer
        BY <1>1 DEF OwnAnswer, Accepted, NoReturn
    <1> QED
        BY <1>5, <1>6, <1>7 DEF StreamInv

\* SnapshotInfo, Submit and QueryCurrentness take the answer to their own
\* request whenever no read on the connection had failed before, and in any
\* case an answer of this connection that is newer than the last one taken and
\* not newer than the call; although none of them compares any identity.
THEOREM AnswerIsOwn == Spec => []OwnAnswer
    <1>1. Init => TypeInv /\ StreamInv
        BY InitType, InitStream
    <1>2. TypeInv /\ StreamInv /\ [Next]_vars => (TypeInv /\ StreamInv)'
        BY NextType, NextStream
    <1>3. StreamInv => OwnAnswer
        BY DEF StreamInv
    <1> QED
        BY <1>1, <1>2, <1>3, PTL DEF Spec

----------------------------------------------------------------------------
(* Proof that CURRENT is earned.                                           *)

\* A call that returned nothing, or no frame, claims nothing.
LEMMA NothingClaimed ==
    ASSUME returned' = NoReturn
           \/ returned'.verdict \in {"not sent", "send failed", "read failed"}
    PROVE  CurrentWasTrue'
    <1>1. ~Accepted'
        <2>1. CASE returned' = NoReturn
            BY <2>1 DEF Accepted, NoReturn
        <2>2. CASE returned'.verdict \in {"not sent", "send failed", "read failed"}
            BY <2>2 DEF Accepted
        <2> QED
            BY <2>1, <2>2
    <1> QED
        BY <1>1 DEF CurrentWasTrue

\* What was earned stays earned when the coordinator changes again.
LEMMA EarnedLater ==
    ASSUME NEW plan, NEW seen \in Seq(CoordinatorType), NEW c \in CoordinatorType
    PROVE  /\ Earned(plan, seen) => Earned(plan, Append(seen, c))
           /\ (\E i \in 1..Len(seen) : Matches(seen[i], plan)) =>
                 \E i \in 1..Len(Append(seen, c)) : Matches(Append(seen, c)[i], plan)
    <1> DEFINE n == Len(seen)
               s == Append(seen, c)
    <1>1. n \in Nat /\ Len(s) = n + 1 /\ \A i \in 1..n : s[i] = seen[i]
        BY AppendProperties
    <1> HIDE DEF n, s
    <1>2. \A i \in 1..n : i \in 1..Len(s) /\ 1 \in 1..n
        BY <1>1
    <1>3. (\E i \in 1..n : Matches(seen[i], plan)) => \E i \in 1..Len(s) : Matches(s[i], plan)
        BY <1>1, <1>2
    <1>4. (\E i \in 1..n : seen[i].sequence = plan.sequence)
              => \E i \in 1..Len(s) : s[i].sequence = plan.sequence
        BY <1>1, <1>2
    <1>5. (\E i \in 1..n : Matches(seen[i], plan) /\ seen[i].sequence = plan.sequence)
              => \E i \in 1..Len(s) : Matches(s[i], plan) /\ s[i].sequence = plan.sequence
        BY <1>1, <1>2
    <1>6. (\E i \in 1..n : seen[i].sequence = plan.sequence) => s[1] = seen[1]
        BY <1>1, <1>2
    <1>7. ASSUME Earned(plan, seen)
          PROVE  Earned(plan, s)
        <2>1. /\ \E i \in 1..n : Matches(seen[i], plan)
              /\ \E i \in 1..n : seen[i].sequence = plan.sequence
              /\ plan.sequence <= seen[1].sequence =>
                     \E i \in 1..n : Matches(seen[i], plan) /\ seen[i].sequence = plan.sequence
            BY <1>7 DEF Earned, n
        <2> QED
            BY <1>3, <1>4, <1>5, <1>6, <2>1 DEF Earned
    <1> QED
        BY <1>3, <1>7 DEF s, n

\* The two reads of HandleClientFrame add up: the evidence matched at some
\* moment of the query and the sequence matches now; if the plan's sequence is
\* no news, then the coordinator has not changed since the query began.
LEMMA TwoReadsEarn ==
    ASSUME TypeInv, NEW plan \in PlanType, NEW seen \in Seq(CoordinatorType), Witnessed(seen),
           \E i \in 1..Len(seen) : Matches(seen[i], plan),
           plan.sequence = coordinator.sequence
    PROVE  Earned(plan, seen)
    <1> DEFINE n == Len(seen)
    <1>1. /\ n \in Nat /\ n > 0 /\ seen[n] = coordinator
          /\ \A i, j \in 1..n : i < j => seen[i].sequence < seen[j].sequence
        BY DEF Witnessed
    <1>2. PICK i \in 1..n : Matches(seen[i], plan)
        OBVIOUS
    <1>3. 1 \in 1..n /\ n \in 1..n
        BY <1>1
    <1>4. seen[1].sequence \in Nat /\ plan.sequence \in Nat
        <2>1. seen[1] \in CoordinatorType
            BY <1>3
        <2> QED
            BY <2>1 DEF CoordinatorType, PlanType
    <1> HIDE DEF n
    <1>5. ASSUME plan.sequence <= seen[1].sequence
          PROVE  n = 1
        <2>1. CASE 1 < n
            BY <1>1, <1>3, <1>4, <1>5, <2>1
        <2> QED
            BY <1>1, <2>1
    <1>6. plan.sequence <= seen[1].sequence =>
              \E k \in 1..n : Matches(seen[k], plan) /\ seen[k].sequence = plan.sequence
        <2> SUFFICES ASSUME plan.sequence <= seen[1].sequence
                     PROVE  Matches(seen[1], plan) /\ seen[1].sequence = plan.sequence
            BY <1>3
        <2>1. n = 1 /\ i = 1
            BY <1>5
        <2> QED
            BY <1>1, <1>2, <2>1
    <1> QED
        BY <1>1, <1>2, <1>3, <1>6 DEF Earned, n

\* A step that changes neither the query nor the coordinator, and puts nothing
\* under way, keeps what is known of the query.
LEMMA QueryKept ==
    ASSUME QueryInv, UNCHANGED <<troubled, coordinator, returned>>,
           \A t \in Thread : calls'[t] # Idle =>
               /\ calls[t] # Idle /\ calls'[t].op = calls[t].op
               /\ calls'[t].plan = calls[t].plan /\ calls'[t].seen = calls[t].seen,
           Arriving' \subseteq Arriving, Unanswered' \subseteq Unanswered,
           session'.phase = "compared" => session' = session
    PROVE  QueryInv'
    <1>1. CurrentWasTrue'
        BY DEF QueryInv, CurrentWasTrue, Accepted
    <1>2. ASSUME ~troubled', NEW t \in Thread, calls'[t] # Idle
          PROVE  AskedBy(t)' /\ ComparedFor(t)' /\ ReportedTo(t)'
        <2>1. AskedBy(t) /\ ComparedFor(t) /\ ReportedTo(t)
            BY <1>2 DEF QueryInv
        <2>2. AskedBy(t)'
            BY <1>2, <2>1 DEF AskedBy, Witnessed
        <2>3. ComparedFor(t)'
            BY <1>2, <2>1 DEF ComparedFor
        <2>4. ReportedTo(t)'
            BY <1>2, <2>1 DEF ReportedTo
        <2> QED
            BY <2>2, <2>3, <2>4
    <1> QED
        BY <1>1, <1>2 DEF QueryInv

\* A query begins with the coordinator as it is, and alone in the stream.
LEMMA CallQuery ==
    ASSUME TypeInv, StreamInv, QueryInv, NEW t \in Thread, NEW op \in Op, CallBegins(t, op)
    PROVE  QueryInv'
    <1>1. /\ Lockable /\ calls[t] = Idle /\ calls \in [Thread -> CallState]
          /\ UNCHANGED <<session, coordinator, troubled>>
        BY DEF CallBegins, CallRefused, CallUnsent, Call, remote, TypeInv
    <1>2. CASE CallRefused(t, op) \/ CallUnsent(t, op)
        <2>1. /\ calls' = [calls EXCEPT ![t] = Idle]
              /\ returned'.verdict \in {"not sent", "send failed"}
            <3>1. CASE CallRefused(t, op)
                BY <3>1 DEF CallRefused, Return
            <3>2. CASE CallUnsent(t, op)
                BY <3>2 DEF CallUnsent, Return
            <3> QED
                BY <1>2, <3>1, <3>2
        <2>2. \A u \in Thread : calls'[u] = Idle
            BY <1>1, <2>1 DEF Lockable
        <2> QED
            BY <2>1, <2>2, NothingClaimed DEF QueryInv
    <1>3. ASSUME NEW plan \in PlansFor(op), Call(t, op, plan)
          PROVE  QueryInv'
        <2> DEFINE f == Frame(op, plan)
                   q == IF op = "VALIDATE_CURRENTNESS" THEN <<coordinator>> ELSE <<>>
        <2>1. /\ outbox' = Append(outbox, f) /\ sequence' = sequence + 1
              /\ UNCHANGED <<wire, inbox>> /\ returned' = NoReturn
              /\ calls' = [calls EXCEPT ![t] = [phase |-> "header", op |-> op,
                               number |-> sequence', plan |-> plan, seen |-> q]]
            BY <1>3 DEF Call
        <2>2. f.op = op /\ f.plan = plan
            BY DEF Frame
        <2> HIDE DEF f
        <2>3. \A u \in Thread : calls'[u] # Idle =>
                  u = t /\ calls'[u].op = op /\ calls'[u].plan = plan /\ calls'[u].seen = q
            BY <1>1, <2>1 DEF Lockable
        <2>4. ~troubled => Arriving = {} /\ Unanswered = {}
            BY <1>1 DEF StreamInv, OnlyThisCall, Busy, Lockable
        <2>5. \A u \in Thread : calls'[u].phase # "payload" /\ calls[u].phase # "payload"
            <3>1. calls'[t].phase = "header"
                BY <1>1, <2>1
            <3> QED
                BY <1>1, <2>1, <3>1 DEF Lockable, Idle
        <2>6. Arriving' \subseteq Arriving
            BY <2>1, <2>5, ArrivingUnits
        <2>7. \A x \in Unanswered' : x \in Unanswered \/ x = f
            <3>1. outbox \in Seq(FrameType \cup {Torn})
                BY DEF TypeInv
            <3> DEFINE n == Len(outbox)
            <3>2. /\ n \in Nat /\ Len(outbox') = n + 1 /\ outbox'[n + 1] = f
                  /\ \A i \in 1..n : outbox'[i] = outbox[i]
                BY <2>1, <3>1, AppendProperties
            <3>3. \A i \in 1..Len(outbox') : i \in 1..n \/ i = n + 1
                BY <3>2
            <3>4. \A x \in Queued' : x \in Queued \/ x = f
                BY <3>2, <3>3, UnansweredFrames
            <3>5. InHand' = InHand
                BY <1>1 DEF InHand
            <3> QED
                BY <1>1, <3>4, <3>5, UnansweredFrames
        <2>8. ASSUME ~troubled', NEW u \in Thread, calls'[u] # Idle
              PROVE  AskedBy(u)' /\ ComparedFor(u)' /\ ReportedTo(u)'
            <3>1. \A x \in Unanswered' : x = f
                BY <1>1, <2>4, <2>7, <2>8
            <3>2. op = "VALIDATE_CURRENTNESS" => Witnessed(q)'
                <4>1. Len(<<coordinator>>) = 1 /\ <<coordinator>>[1] = coordinator
                    OBVIOUS
                <4> QED
                    BY <1>1, <4>1 DEF Witnessed
            <3>3. AskedBy(u)'
                BY <1>1, <2>2, <2>3, <2>8, <3>1, <3>2 DEF AskedBy, Witnessed
            <3>4. session'.phase # "compared"
                <4>1. InHand => session.frame \in Unanswered
                    BY UnansweredFrames
                <4> QED
                    BY <1>1, <2>4, <2>8, <4>1 DEF InHand
            <3>5. ComparedFor(u)'
                BY <3>4 DEF ComparedFor
            <3>6. ReportedTo(u)'
                BY <1>1, <2>4, <2>6, <2>8 DEF ReportedTo
            <3> QED
                BY <3>3, <3>5, <3>6
        <2> QED
            BY <2>1, <2>8, NothingClaimed DEF QueryInv
    <1> QED
        BY <1>2, <1>3 DEF CallBegins

\* The answer that a query takes was earned.
LEMMA ReadQuery ==
    ASSUME TypeInv, StreamInv, QueryInv, NEW t \in Thread, ClientReads(t)
    PROVE  QueryInv'
    <1>1. UNCHANGED <<outbox, session, coordinator>>
        BY ReadKeeps
    <1>2. calls[t].phase \in {"header", "payload"}
        BY ReadTakes
    <1>3. /\ calls[t] # Idle /\ \A u \in Thread \ {t} : calls[u] = Idle
          /\ calls \in [Thread -> CallState]
        BY <1>2, InCall DEF TypeInv
    <1>4. CASE ReadHeader(t)
        <2>1. Arriving' \subseteq Arriving
            BY <1>4, HeaderStream DEF StreamInv
        <2>2. UNCHANGED <<troubled, returned>>
            BY <1>4 DEF ReadHeader, history
        <2>3. Unanswered' = Unanswered
            BY <1>1 DEF Unanswered, Queued, InHand
        <2>4. /\ calls'[t].op = calls[t].op /\ calls'[t].plan = calls[t].plan
              /\ calls'[t].seen = calls[t].seen
              /\ \A u \in Thread \ {t} : calls'[u] = calls[u]
            <3> DEFINE h == SubSeq(inbox, 1, HeaderUnits)
            <3>1. PICK need :
                  calls' = [calls EXCEPT ![t] =
                      [phase |-> "payload", head |-> h, need |-> need,
                       op |-> @.op, number |-> @.number, plan |-> @.plan, seen |-> @.seen]]
                BY <1>4 DEF ReadHeader
            <3> HIDE DEF h
            <3> QED
                BY <1>3, <3>1
        <2> QED
            BY <1>1, <1>3, <2>1, <2>2, <2>3, <2>4, QueryKept
    <1>5. CASE Fails(t)
        <2>1. troubled' = TRUE /\ returned'.verdict = "read failed"
            BY <1>5 DEF Fails, Return
        <2> QED
            BY <2>1, NothingClaimed DEF QueryInv
    <1>6. CASE ReadPayload(t) /\ ~Fails(t)
        <2> DEFINE a == calls[t].head[1].of
        <2>1. a \in Arriving /\ Accept(t, a)
            BY <1>6, AcceptedFrame
        <2> HIDE DEF a
        <2>2. /\ calls' = [calls EXCEPT ![t] = Idle]
              /\ returned'.answer = a /\ returned'.plan = calls[t].plan
              /\ returned'.seen = calls[t].seen /\ returned'.troubled = troubled
            BY <2>1 DEF Accept
        <2>3. \A u \in Thread : calls'[u] = Idle
            BY <1>3, <2>2
        <2>4. ASSUME ~troubled, a.currentness = "CURRENT"
              PROVE  Earned(calls[t].plan, calls[t].seen)
            BY <1>3, <2>1, <2>4 DEF QueryInv, ReportedTo
        <2>5. CurrentWasTrue'
            <3> DEFINE plan == calls[t].plan
                       seen == calls[t].seen
                       S == {seen[i] : i \in DOMAIN seen}
            <3>1. SUFFICES ASSUME ~troubled, a.currentness = "CURRENT"
                  PROVE  /\ \E c \in S : Matches(c, plan)
                         /\ \E c \in S : c.sequence = plan.sequence
                         /\ plan.sequence <= seen[1].sequence =>
                               \E c \in S : Matches(c, plan) /\ c.sequence = plan.sequence
                BY <2>2 DEF CurrentWasTrue
            <3>2. seen \in Seq(CoordinatorType)
                BY <1>3, CallFields
            <3>3. \A i \in 1..Len(seen) : seen[i] \in S
                BY <3>2
            <3>4. Earned(plan, seen)
                BY <2>4, <3>1
            <3> HIDE DEF S, plan, seen
            <3> QED
                BY <3>3, <3>4 DEF Earned
        <2> QED
            BY <2>3, <2>5 DEF QueryInv
    <1>7. ReadHeader(t) \/ Fails(t) \/ (ReadPayload(t) /\ ~Fails(t))
        BY DEF ClientReads, ReadRejected, ReadFails
    <1> QED
        BY <1>4, <1>5, <1>6, <1>7

\* The session compares first the evidence and then the sequence, and what it
\* reports was earned.
LEMMA SessionQuery ==
    ASSUME TypeInv, StreamInv, QueryInv, SessionStep
    PROVE  QueryInv'
    <1>1. UNCHANGED <<calls, troubled, returned, coordinator>>
        <2>1. CASE HandleSnapshotRequest \/ HandlePlanRequest \/ CompareSequence
            BY <2>1, Answers DEF client, history
        <2>2. CASE ~(HandleSnapshotRequest \/ HandlePlanRequest \/ CompareSequence)
            BY <2>2 DEF SessionStep, Deliver, SessionRead, CompareEvidence, SessionEnds,
                        client, remote, history
        <2> QED
            BY <2>1, <2>2
    <1>2. CASE Deliver
        <2>1. Arriving' \subseteq Arriving
            BY <1>2, DeliverOrder DEF StreamInv
        <2>2. outbox' = outbox /\ session' = session
            BY <1>2 DEF Deliver, remote
        <2>3. Unanswered' \subseteq Unanswered
            BY <2>2 DEF Unanswered, Queued, InHand
        <2> QED
            BY <1>1, <2>1, <2>2, <2>3, QueryKept
    <1>3. CASE SessionRead
        <2>1. session'.phase # "compared"
            BY <1>3 DEF SessionRead
        <2> QED
            BY <1>1, <1>3, <2>1, TakeOrder, QueryKept
    <1>4. CASE SessionEnds
        <2>1. session'.phase # "compared"
            BY <1>4 DEF SessionEnds, NoSession
        <2> QED
            BY <1>1, <1>4, <2>1, QuietOrder, QueryKept
    <1>5. CurrentWasTrue'
        BY <1>1 DEF QueryInv, CurrentWasTrue, Accepted
    <1>6. CASE CompareEvidence
        <2>1. /\ InHand /\ session.frame.op = "VALIDATE_CURRENTNESS"
              /\ session'.frame = session.frame
              /\ session'.currentness = ClassifyEvidence(session.frame.plan.evidence,
                                                         coordinator.evidence)
            BY <1>6 DEF CompareEvidence, InHand
        <2>2. Arriving' \subseteq Arriving /\ Unanswered' \subseteq Unanswered
            BY <1>6, QuietOrder
        <2>3. ASSUME ~troubled', NEW t \in Thread, calls'[t] # Idle
              PROVE  AskedBy(t)' /\ ComparedFor(t)' /\ ReportedTo(t)'
            <3>1. AskedBy(t) /\ ReportedTo(t)
                BY <1>1, <2>3 DEF QueryInv
            <3>2. session.frame \in Unanswered
                BY <2>1, UnansweredFrames
            <3>3. session.frame.plan = calls[t].plan /\ Witnessed(calls[t].seen)
                BY <2>1, <3>1, <3>2 DEF AskedBy
            <3>4. /\ Len(calls[t].seen) \in 1..Len(calls[t].seen)
                  /\ calls[t].seen[Len(calls[t].seen)] = coordinator
                <4>1. calls[t].seen \in Seq(CoordinatorType)
                    BY <1>1, <2>3, CallFields DEF TypeInv
                <4> QED
                    BY <3>3, <4>1 DEF Witnessed
            <3>5. ComparedFor(t)'
                <4>1. session'.currentness = "CURRENT" => Matches(coordinator, calls[t].plan)
                    BY <2>1, <3>3 DEF Matches
                <4> QED
                    BY <1>1, <2>1, <3>4, <4>1 DEF ComparedFor
            <3>6. AskedBy(t)'
                BY <1>1, <2>2, <3>1 DEF AskedBy, Witnessed
            <3>7. ReportedTo(t)'
                BY <1>1, <2>2, <3>1 DEF ReportedTo
            <3> QED
                BY <3>5, <3>6, <3>7
        <2> QED
            BY <1>5, <2>3 DEF QueryInv
    <1>7. CASE HandleSnapshotRequest \/ HandlePlanRequest \/ CompareSequence
        <2>1. /\ InHand /\ session' = Reading /\ outbox' = outbox /\ inbox' = inbox
            BY <1>7, Answers
        <2>2. PICK a \in AnswerRecord :
                  /\ a.number = session.frame.number
                  /\ a.currentness = "CURRENT" =>
                         /\ session.phase = "compared" /\ session.currentness = "CURRENT"
                         /\ session.frame.plan.sequence = coordinator.sequence
                  /\ wire' = wire \o [i \in 1..3 |-> [part |-> i, of |-> a]]
            BY <1>7, Answers
        <2>3. session.frame \in Unanswered
            BY <2>1, UnansweredFrames
        <2>4. \A x \in Arriving : x.number < a.number
            BY <2>2, <2>3 DEF StreamInv, NumberOrder
        <2>5. \A x \in Arriving' : x \in Arriving \/ x = a
            BY <1>1, <2>1, <2>2, <2>4, AnswerOrder DEF StreamInv
        <2>6. ~InHand' /\ session'.phase # "compared"
            BY <2>1 DEF InHand, Reading
        <2>7. Unanswered' \subseteq Unanswered
            BY <2>1, <2>6, FewerRequests DEF StreamInv
        <2>8. ASSUME ~troubled', NEW t \in Thread, calls'[t] # Idle
              PROVE  AskedBy(t)' /\ ComparedFor(t)' /\ ReportedTo(t)'
            <3>1. AskedBy(t) /\ ComparedFor(t) /\ ReportedTo(t)
                BY <1>1, <2>8 DEF QueryInv
            <3>2. calls[t].plan \in PlanType /\ calls[t].seen \in Seq(CoordinatorType)
                BY <1>1, <2>8, CallFields DEF TypeInv
            <3>3. a.currentness = "CURRENT" => Earned(calls[t].plan, calls[t].seen)
                <4> SUFFICES ASSUME a.currentness = "CURRENT"
                             PROVE  Earned(calls[t].plan, calls[t].seen)
                    OBVIOUS
                <4>1. /\ session.frame.op = "VALIDATE_CURRENTNESS"
                      /\ \E i \in 1..Len(calls[t].seen) :
                             Matches(calls[t].seen[i], calls[t].plan)
                    BY <2>2, <3>1 DEF ComparedFor
                <4>2. session.frame.plan = calls[t].plan /\ Witnessed(calls[t].seen)
                    BY <2>3, <3>1, <4>1 DEF AskedBy
                <4>3. calls[t].plan.sequence = coordinator.sequence
                    BY <2>2, <4>2
                <4> QED
                    BY <3>2, <4>1, <4>2, <4>3, TwoReadsEarn
            <3>4. ReportedTo(t)'
                BY <1>1, <2>5, <3>1, <3>3 DEF ReportedTo
            <3>5. AskedBy(t)'
                BY <1>1, <2>7, <3>1 DEF AskedBy, Witnessed
            <3>6. ComparedFor(t)'
                BY <2>6 DEF ComparedFor
            <3> QED
                BY <3>4, <3>5, <3>6
        <2> QED
            BY <1>5, <2>8 DEF QueryInv
    <1> QED
        BY <1>2, <1>3, <1>4, <1>6, <1>7 DEF SessionStep

\* A query lives through a change of the coordinator.
LEMMA CoordinatorQuery ==
    ASSUME TypeInv, StreamInv, QueryInv, CoordinatorStep
    PROVE  QueryInv'
    <1>1. PICK c \in CoordinatorType :
               /\ Becomes(c)
               /\ \/ c.sequence = coordinator.sequence + 1 /\ UNCHANGED <<stream, session>>
                  \/ /\ session' = NoSession /\ eof' = (socket # 0) /\ outbox' = <<>>
                     /\ wire' \in {wire, <<>>} /\ UNCHANGED <<conn, inbox>>
        BY Changes DEF CoordinatorStep
    <1>2. /\ coordinator' = c /\ UNCHANGED <<troubled, returned>>
          /\ \A t \in Thread :
                  /\ calls'[t] = Idle <=> calls[t] = Idle
                  /\ calls[t] # Idle =>
                        /\ calls'[t].op = calls[t].op /\ calls'[t].plan = calls[t].plan
                        /\ calls'[t].seen = IF calls[t].seen = <<>> THEN <<>>
                                            ELSE Append(calls[t].seen, c)
        BY <1>1, Notes DEF history
    <1>3. Arriving' \subseteq Arriving /\ Unanswered' \subseteq Unanswered
        BY ChangeOrder
    <1>4. \/ c.sequence = coordinator.sequence + 1 /\ session' = session
          \/ Unanswered' = {} /\ session'.phase # "compared"
        <2>1. CASE session' = NoSession /\ outbox' = <<>>
            <3>1. ~InHand' /\ session'.phase # "compared"
                BY <2>1 DEF InHand, NoSession
            <3>2. Unanswered' = {}
                BY <2>1, <3>1, UnansweredFrames
            <3> QED
                BY <3>1, <3>2
        <2> QED
            BY <1>1, <2>1
    <1>5. CurrentWasTrue'
        BY <1>2 DEF QueryInv, CurrentWasTrue, Accepted
    <1>6. ASSUME ~troubled', NEW t \in Thread, calls'[t] # Idle
          PROVE  AskedBy(t)' /\ ComparedFor(t)' /\ ReportedTo(t)'
        <2> DEFINE q == calls[t].seen
                   plan == calls[t].plan
        <2>1. AskedBy(t) /\ ComparedFor(t) /\ ReportedTo(t)
            BY <1>2, <1>6 DEF QueryInv
        <2>2. /\ q \in Seq(CoordinatorType) /\ calls'[t].op = calls[t].op
              /\ calls'[t].plan = plan
              /\ calls'[t].seen = IF q = <<>> THEN <<>> ELSE Append(q, c)
            BY <1>2, <1>6, CallFields DEF TypeInv
        <2>3. /\ Earned(plan, q) => Earned(plan, calls'[t].seen)
              /\ (\E i \in 1..Len(q) : Matches(q[i], plan)) =>
                     \E i \in 1..Len(calls'[t].seen) : Matches(calls'[t].seen[i], plan)
            <3>1. CASE q = <<>>
                BY <2>2, <3>1
            <3>2. CASE q # <<>>
                BY <2>2, <3>2, EarnedLater
            <3> QED
                BY <3>1, <3>2
        <2>4. ReportedTo(t)'
            BY <1>3, <2>1, <2>2, <2>3 DEF ReportedTo
        <2>5. ComparedFor(t)'
            BY <1>4, <2>1, <2>2, <2>3 DEF ComparedFor
        <2>6. ASSUME c.sequence = coordinator.sequence + 1, Witnessed(q)
              PROVE  Witnessed(calls[t].seen)'
            <3> DEFINE n == Len(q)
                       s == Append(q, c)
            <3>1. /\ n \in Nat /\ n > 0 /\ q[n] = coordinator /\ q # <<>>
                  /\ \A i, j \in 1..n : i < j => q[i].sequence < q[j].sequence
                BY <2>2, <2>6 DEF Witnessed
            <3>2. calls'[t].seen = s /\ Len(s) = n + 1 /\ s[n + 1] = c
                  /\ \A i \in 1..n : s[i] = q[i]
                BY <2>2, <3>1, AppendProperties
            <3>3. \A i \in 1..n : q[i].sequence \in Nat
                <4>1. \A i \in 1..n : q[i] \in CoordinatorType
                    BY <2>2
                <4> QED
                    BY <4>1 DEF CoordinatorType
            <3> HIDE DEF s, n, q
            <3>4. n \in 1..n /\ \A i \in 1..n : i = n \/ i < n
                BY <3>1
            <3>5. \A i \in 1..n : q[i].sequence <= coordinator.sequence
                BY <3>1, <3>3, <3>4
            <3>6. c.sequence \in Nat /\ coordinator.sequence \in Nat
                BY DEF TypeInv, CoordinatorType
            <3>7. ASSUME NEW i \in 1..(n + 1), NEW j \in 1..(n + 1), i < j
                  PROVE  s[i].sequence < s[j].sequence
                <4>1. i \in 1..n
                    BY <3>1, <3>7
                <4>2. CASE j \in 1..n
                    BY <3>1, <3>2, <3>7, <4>1, <4>2
                <4>3. CASE j = n + 1
                    BY <2>6, <3>2, <3>3, <3>5, <3>6, <4>1, <4>3
                <4> QED
                    BY <3>1, <4>2, <4>3
            <3> QED
                BY <1>2, <3>1, <3>2, <3>7 DEF Witnessed
        <2>7. AskedBy(t)'
            BY <1>3, <1>4, <2>1, <2>2, <2>6 DEF AskedBy
        <2> QED
            BY <2>4, <2>5, <2>7
    <1> QED
        BY <1>5, <1>6 DEF QueryInv

\* Every step keeps what is known of a query.
LEMMA NextQuery ==
    ASSUME TypeInv, StreamInv, QueryInv, [Next]_vars
    PROVE  QueryInv'
    <1>1. CASE Connect \/ Close
        <2>1. Lockable /\ calls' = calls /\ returned' = NoReturn
            BY <1>1 DEF Connect, Close, Disconnect, FreshStream
        <2> QED
            BY <2>1, NothingClaimed DEF QueryInv, Lockable
    <1>2. CASE Next
        BY <1>1, <1>2, NextCases, CallQuery, ReadQuery, SessionQuery, CoordinatorQuery
    <1>3. CASE UNCHANGED vars
        <2>1. UNCHANGED <<calls, outbox, wire, inbox, session, coordinator, troubled, returned>>
            BY <1>3 DEF vars, client, stream, remote, history
        <2>2. Arriving' = Arriving /\ Unanswered' = Unanswered
            BY <2>1 DEF Arriving, Unanswered, Queued, InHand
        <2> QED
            BY <2>1, <2>2, QueryKept
    <1> QED
        BY <1>2, <1>3

\* QueryCurrentness never reports CURRENT without ground: over a connection on
\* which no read had failed, the coordinator's evidence matched the plan at some
\* moment of the call and its publication sequence at some moment; and at one
\* moment both, if the plan's sequence was one already reached; although
\* HandleClientFrame reads the two under two locks, and the coordinator may
\* publish, invalidate or restart in between.
THEOREM CurrentIsEarned == Spec => []CurrentWasTrue
    <1>1. Init => TypeInv /\ StreamInv /\ QueryInv
        <2> SUFFICES ASSUME Init
                     PROVE  TypeInv /\ StreamInv /\ QueryInv
            OBVIOUS
        <2>1. (\A t \in Thread : calls[t] = Idle) /\ returned = NoReturn
            BY DEF Init
        <2>2. QueryInv
            BY <2>1 DEF QueryInv, CurrentWasTrue, Accepted, NoReturn
        <2> QED
            BY <2>2, InitType, InitStream
    <1>2. TypeInv /\ StreamInv /\ QueryInv /\ [Next]_vars => (TypeInv /\ StreamInv /\ QueryInv)'
        BY NextType, NextStream, NextQuery
    <1>3. QueryInv => CurrentWasTrue
        BY DEF QueryInv
    <1> QED
        BY <1>1, <1>2, <1>3, PTL DEF Spec

============================================================================
