---------------------------- MODULE IngestProofs ----------------------------
(***************************************************************************)
(* The queued write path keeps what it accepts and stores it once, for any *)
(* number of experiences and workers, any delivery limit, and however      *)
(* often workers crash, deliveries are repeated and deletions fail.        *)
(***************************************************************************)
EXTENDS Ingest, FiniteSetTheorems, TLAPS

USE IngestAssumption

\* A worker that is at a message holds one, and what it is about to delete is
\* done with: stored, given up, or never to be stored.
AtWork ==
    \A w \in Workers :
        /\ wpc[w] \in {"handling", "inserting", "deleting"} => batch[w] # <<>>
        /\ wpc[w] = "deleting" => Head(batch[w]).exp \in stored \cup gaveUp \cup Invalid

\* Types, and the queue is finite: a batch can be put in an order.
Typed == TypeOK /\ IsFiniteSet(queue)

IInv == Typed /\ AtWork

-----------------------------------------------------------------------------

\* The messages a worker has received make a batch, not an empty one.
LEMMA BatchIsSequence ==
    ASSUME NEW got, IsFiniteSet(got), got # {}, got \subseteq Experiences,
           NEW order \in Orders(got), NEW times \in [Experiences -> Nat],
           NEW b, b = [k \in DOMAIN order |-> [exp |-> order[k], receives |-> times[order[k]]]]
    PROVE  b \in Seq(Delivery) /\ b # <<>>
<1> DEFINE n == Cardinality(got)
<1>1. n \in Nat /\ n # 0
    BY FS_CardinalityType, FS_EmptySet
<1>2. order \in [1..n -> got]
    BY DEF Orders
<1>3. b \in [1..n -> Delivery]
    BY <1>2 DEF Delivery
<1>4. b \in Seq(Delivery) /\ Len(b) = n
    BY <1>1, <1>3
<1> QED BY <1>1, <1>4

\* The head of a batch is a delivery, and what is left of it is a batch.
LEMMA HeadAndTail ==
    ASSUME NEW b \in Seq(Delivery), b # <<>>
    PROVE  /\ Head(b).exp \in Experiences /\ Head(b).receives \in Nat
           /\ Tail(b) \in Seq(Delivery)
           /\ Len(b) # 1 => Tail(b) # <<>>
<1>1. Head(b) \in Delivery /\ Tail(b) \in Seq(Delivery)
    OBVIOUS
<1>2. Head(b).exp \in Experiences /\ Head(b).receives \in Nat
    BY <1>1 DEF Delivery
<1> DEFINE rest == Tail(b)
<1>3. rest \in Seq(Delivery) /\ Len(b) \in Nat /\ Len(rest) = Len(b) - 1
    OBVIOUS
<1>4. Len(b) # 1 => rest # <<>>
    <2> HIDE DEF rest
    <2>1. rest = <<>> => Len(rest) = 0
        OBVIOUS
    <2> QED BY <1>3, <2>1
<1> QED BY <1>1, <1>2, <1>4

-----------------------------------------------------------------------------
(* What the steps of a worker have in common.                              *)

\* Going on with the next message, or to the queue when it was the last.
LEMMA Advances ==
    ASSUME TypeOK, AtWork, NEW w \in Workers, wpc[w] \in {"inserting", "deleting"},
           NextMessage(w), stored \subseteq stored', gaveUp \subseteq gaveUp'
    PROVE  /\ wpc' \in [Workers -> {"polling", "handling", "inserting", "deleting", "down"}]
           /\ batch' \in [Workers -> Seq(Delivery)]
           /\ AtWork'
<1> DEFINE b == batch[w]
<1>1. b \in Seq(Delivery) /\ b # <<>>
    BY DEF TypeOK, AtWork
<1>2. Tail(b) \in Seq(Delivery) /\ (Len(b) # 1 => Tail(b) # <<>>)
    BY <1>1, HeadAndTail
<1>3. /\ batch' = [batch EXCEPT ![w] = Tail(b)]
      /\ wpc' = [wpc EXCEPT ![w] = IF Len(b) = 1 THEN "polling" ELSE "handling"]
    BY DEF NextMessage
<1> HIDE DEF b
<1>4. ASSUME NEW v \in Workers
      PROVE  /\ wpc'[v] \in {"handling", "inserting", "deleting"} => batch'[v] # <<>>
             /\ wpc'[v] = "deleting" => Head(batch'[v]).exp \in stored' \cup gaveUp' \cup Invalid
    <2>1. CASE v = w
        BY <2>1, <1>2, <1>3 DEF TypeOK
    <2>2. CASE v # w
        BY <2>2, <1>3 DEF TypeOK, AtWork
    <2> QED BY <2>1, <2>2
<1>5. AtWork'
    BY <1>4 DEF AtWork
<1> QED BY <1>2, <1>3, <1>5 DEF TypeOK

\* Going down with the batch.
LEMMA GoesDown ==
    ASSUME TypeOK, AtWork, NEW w \in Workers, Down(w),
           UNCHANGED <<stored, gaveUp>>
    PROVE  /\ wpc' \in [Workers -> {"polling", "handling", "inserting", "deleting", "down"}]
           /\ batch' \in [Workers -> Seq(Delivery)]
           /\ AtWork'
<1>1. /\ wpc' = [wpc EXCEPT ![w] = "down"]
      /\ batch' = [batch EXCEPT ![w] = <<>>]
    BY DEF Down
<1>2. <<>> \in Seq(Delivery)
    OBVIOUS
<1>3. ASSUME NEW v \in Workers
      PROVE  /\ wpc'[v] \in {"handling", "inserting", "deleting"} => batch'[v] # <<>>
             /\ wpc'[v] = "deleting" => Head(batch'[v]).exp \in stored' \cup gaveUp' \cup Invalid
    <2>1. CASE v = w
        BY <2>1, <1>1 DEF TypeOK
    <2>2. CASE v # w
        BY <2>2, <1>1 DEF TypeOK, AtWork
    <2> QED BY <2>1, <2>2
<1> QED BY <1>1, <1>2, <1>3 DEF TypeOK, AtWork

\* Going on to another step at the same message.
LEMMA MovesOn ==
    ASSUME TypeOK, AtWork, NEW w \in Workers, wpc[w] \in {"handling", "inserting"},
           NEW to \in {"inserting", "deleting"}, wpc' = [wpc EXCEPT ![w] = to],
           UNCHANGED batch, stored \subseteq stored', gaveUp \subseteq gaveUp',
           to = "deleting" => Head(batch[w]).exp \in stored' \cup gaveUp' \cup Invalid
    PROVE  AtWork'
<1>1. ASSUME NEW v \in Workers
      PROVE  /\ wpc'[v] \in {"handling", "inserting", "deleting"} => batch'[v] # <<>>
             /\ wpc'[v] = "deleting" => Head(batch'[v]).exp \in stored' \cup gaveUp' \cup Invalid
    <2>1. CASE v = w
        BY <2>1 DEF TypeOK, AtWork
    <2>2. CASE v # w
        BY <2>2 DEF TypeOK, AtWork
    <2> QED BY <2>1, <2>2
<1> QED BY <1>1 DEF AtWork

\* An insert keeps the types of the tables, and loses no row.
LEMMA Inserted ==
    ASSUME TypeOK, NEW e \in Experiences, InsertOnce(e) \/ UNCHANGED tables
    PROVE  /\ stored' \subseteq Experiences /\ selfReports' \subseteq stored'
           /\ entries' \in [Experiences -> Nat]
           /\ stored \subseteq stored'
           /\ InsertOnce(e) => e \in stored'
           /\ EntersOnce => EntersOnce'
           /\ UNCHANGED selfReports
BY DEF TypeOK, InsertOnce, tables, EntersOnce

-----------------------------------------------------------------------------
(* One lemma per step of a worker: types and what it is about to delete.   *)

LEMMA ReceiveStep ==
    ASSUME IInv, NEW w \in Workers, Receive(w)
    PROVE  IInv'
<1>0. PICK got \in SUBSET (queue \ hidden) : \E order \in Orders(got) :
          /\ got # {} /\ Cardinality(got) <= MaxBatch
          /\ hidden' = hidden \cup got
          /\ receives' = [e \in Experiences |-> receives[e] + IF e \in got THEN 1 ELSE 0]
          /\ batch' = [batch EXCEPT ![w] =
                 [k \in DOMAIN order |-> [exp |-> order[k], receives |-> receives'[order[k]]]]]
    BY DEF Receive
<1>1. PICK order \in Orders(got) :
          /\ got # {} /\ Cardinality(got) <= MaxBatch
          /\ hidden' = hidden \cup got
          /\ receives' = [e \in Experiences |-> receives[e] + IF e \in got THEN 1 ELSE 0]
          /\ batch' = [batch EXCEPT ![w] =
                 [k \in DOMAIN order |-> [exp |-> order[k], receives |-> receives'[order[k]]]]]
    BY <1>0
<1>2. /\ wpc' = [wpc EXCEPT ![w] = "handling"]
      /\ UNCHANGED <<client, queue, stored, entries, selfReports, attempts, gaveUp, faults>>
    BY DEF Receive, tables
<1>3. receives' \in [Experiences -> Nat]
    BY <1>1 DEF IInv, Typed, TypeOK
<1>4. got \subseteq Experiences /\ IsFiniteSet(got)
    BY <1>1, FS_Subset DEF IInv, Typed, TypeOK
<1> DEFINE b == [k \in DOMAIN order |-> [exp |-> order[k], receives |-> receives'[order[k]]]]
<1>5. b \in Seq(Delivery) /\ b # <<>>
    BY <1>1, <1>3, <1>4, BatchIsSequence
<1>6. batch' = [batch EXCEPT ![w] = b]
    BY <1>1
<1> HIDE DEF b
<1>7. AtWork'
    <2>1. ASSUME NEW v \in Workers
          PROVE  /\ wpc'[v] \in {"handling", "inserting", "deleting"} => batch'[v] # <<>>
                 /\ wpc'[v] = "deleting" => Head(batch'[v]).exp \in stored' \cup gaveUp' \cup Invalid
        <3>1. CASE v = w
            BY <3>1, <1>2, <1>5, <1>6 DEF IInv, Typed, TypeOK
        <3>2. CASE v # w
            BY <3>2, <1>2, <1>6 DEF IInv, Typed, TypeOK, AtWork
        <3> QED BY <3>1, <3>2
    <2> QED BY <2>1 DEF AtWork
<1> QED BY <1>1, <1>2, <1>3, <1>5, <1>6, <1>7 DEF IInv, Typed, TypeOK

LEMMA HandleStep ==
    ASSUME IInv, NEW w \in Workers, DiscardInvalid(w) \/ Enrich(w) \/ Insert(w)
    PROVE  IInv'
<1> DEFINE d == Head(batch[w])
<1>1. batch[w] \in Seq(Delivery) /\ batch[w] # <<>>
    BY DEF DiscardInvalid, Enrich, Insert, IInv, Typed, TypeOK, AtWork
<1>2. d.exp \in Experiences
    BY <1>1, HeadAndTail
<1>3. CASE DiscardInvalid(w)
    <2>1. AtWork'
        BY <1>3, MovesOn DEF IInv, Typed, DiscardInvalid, tables
    <2> QED BY <1>3, <2>1 DEF IInv, Typed, TypeOK, DiscardInvalid, sqs, tables
<1>4. CASE Enrich(w)
    <2>1. AtWork'
        BY <1>4, MovesOn DEF IInv, Typed, Enrich, tables
    <2>2. attempts' \in [Experiences -> Nat]
        BY <1>2, <1>4 DEF IInv, Typed, TypeOK, Enrich
    <2> QED BY <1>4, <2>1, <2>2 DEF IInv, Typed, TypeOK, Enrich, sqs, tables
<1>5. CASE Insert(w)
    <2>1. /\ InsertOnce(d.exp)
          /\ wpc[w] = "inserting" /\ wpc' = [wpc EXCEPT ![w] = "deleting"]
          /\ UNCHANGED <<client, queue, hidden, receives, batch, attempts, gaveUp, faults>>
        BY <1>5 DEF Insert, sqs
    <2>2. /\ stored' \subseteq Experiences /\ selfReports' \subseteq stored'
          /\ entries' \in [Experiences -> Nat]
          /\ stored \subseteq stored' /\ d.exp \in stored'
        BY <1>2, <2>1, Inserted DEF IInv, Typed
    <2>3. AtWork'
        BY <2>1, <2>2, MovesOn DEF IInv, Typed
    <2> QED BY <2>1, <2>2, <2>3 DEF IInv, Typed, TypeOK
<1> QED BY <1>3, <1>4, <1>5

LEMMA FailStep ==
    ASSUME IInv, NEW w \in Workers, HandlerFails(w)
    PROVE  IInv'
<1> DEFINE d == Head(batch[w])
<1>1. /\ wpc[w] = "inserting" /\ faults' \in 0..MaxFaults
      /\ InsertOnce(d.exp) \/ UNCHANGED tables
      /\ UNCHANGED <<client, queue, hidden, receives, attempts>>
      /\ \/ /\ wpc' = [wpc EXCEPT ![w] = "deleting"]
            /\ gaveUp' = gaveUp \cup {d.exp}
            /\ UNCHANGED batch
         \/ NextMessage(w) /\ UNCHANGED gaveUp
    BY DEF HandlerFails, Fault, sqs, IInv, Typed, TypeOK
<1>2. batch[w] \in Seq(Delivery) /\ batch[w] # <<>>
    BY <1>1 DEF IInv, Typed, TypeOK, AtWork
<1>3. d.exp \in Experiences
    BY <1>2, HeadAndTail
<1>4. /\ stored' \subseteq Experiences /\ selfReports' \subseteq stored'
      /\ entries' \in [Experiences -> Nat]
      /\ stored \subseteq stored'
    BY <1>1, <1>3, Inserted DEF IInv, Typed
<1> HIDE DEF d
<1>5. CASE /\ wpc' = [wpc EXCEPT ![w] = "deleting"]
           /\ gaveUp' = gaveUp \cup {d.exp}
           /\ UNCHANGED batch
    <2>1. AtWork'
        BY <1>1, <1>4, <1>5, MovesOn DEF IInv, Typed, d
    <2> QED BY <1>1, <1>3, <1>4, <1>5, <2>1 DEF IInv, Typed, TypeOK
<1>6. CASE NextMessage(w) /\ UNCHANGED gaveUp
    <2>1. /\ wpc' \in [Workers -> {"polling", "handling", "inserting", "deleting", "down"}]
          /\ batch' \in [Workers -> Seq(Delivery)]
          /\ AtWork'
        BY <1>1, <1>4, <1>6, Advances DEF IInv, Typed
    <2> QED BY <1>1, <1>4, <1>6, <2>1 DEF IInv, Typed, TypeOK
<1> QED BY <1>1, <1>5, <1>6

LEMMA DeleteStep ==
    ASSUME IInv, NEW w \in Workers, Delete(w) \/ DeleteFails(w)
    PROVE  IInv'
<1> DEFINE e == Head(batch[w]).exp
<1>1. /\ wpc[w] = "deleting"
      /\ UNCHANGED <<client, receives, stored, entries, selfReports, attempts, gaveUp>>
      /\ faults' \in 0..MaxFaults
      /\ \/ queue' = queue \ {e} /\ hidden' = hidden \ {e}
         \/ UNCHANGED <<queue, hidden>>
      /\ NextMessage(w) \/ Down(w)
    BY DEF Delete, DeleteFails, Fault, tables, IInv, Typed, TypeOK
<1>2. /\ wpc' \in [Workers -> {"polling", "handling", "inserting", "deleting", "down"}]
      /\ batch' \in [Workers -> Seq(Delivery)]
      /\ AtWork'
    BY <1>1, Advances, GoesDown DEF IInv, Typed
<1>3. IsFiniteSet(queue')
    BY <1>1, FS_Subset DEF IInv, Typed
<1> QED BY <1>1, <1>2, <1>3 DEF IInv, Typed, TypeOK

LEMMA ProcessStep ==
    ASSUME IInv, NEW w \in Workers, Crash(w) \/ Restart(w)
    PROVE  IInv'
<1>1. CASE Crash(w)
    <2>1. /\ Down(w) /\ faults' \in 0..MaxFaults
          /\ UNCHANGED <<client, queue, hidden, receives, stored, entries, selfReports,
                         attempts, gaveUp>>
        BY <1>1 DEF Crash, Fault, sqs, tables, IInv, Typed, TypeOK
    <2> QED BY <2>1, GoesDown DEF IInv, Typed, TypeOK
<1>2. CASE Restart(w)
    <2>1. /\ wpc' = [wpc EXCEPT ![w] = "polling"]
          /\ UNCHANGED <<client, queue, hidden, receives, batch, stored, entries, selfReports,
                         attempts, gaveUp, faults>>
        BY <1>2 DEF Restart, sqs, tables
    <2> QED BY <2>1 DEF IInv, Typed, TypeOK, AtWork
<1> QED BY <1>1, <1>2

\* What the API, its client and the visibility timeouts do.
LEMMA OutsideStep ==
    ASSUME IInv, NEW e \in Experiences,
           \/ Publish(e) \/ PublishFails(e) \/ SelfReport(e)
           \/ TimeoutReturns(e) \/ TimeoutOvertakes(e)
    PROVE  IInv'
<1>1. /\ UNCHANGED <<receives, wpc, batch, stored, entries, attempts, gaveUp>>
      /\ faults' \in 0..MaxFaults
      /\ client' \in [Experiences -> {"new", "accepted", "refused", "reported"}]
      /\ queue' \in {queue, queue \cup {e}}
      /\ hidden' \in {hidden, hidden \ {e}}
      /\ selfReports' \subseteq stored
    <2>1. CASE Publish(e)
        BY <2>1 DEF Publish, worker, tables, IInv, Typed, TypeOK
    <2>2. CASE PublishFails(e)
        BY <2>2 DEF PublishFails, Fault, worker, tables, IInv, Typed, TypeOK
    <2>3. CASE SelfReport(e)
        BY <2>3 DEF SelfReport, sqs, worker, IInv, Typed, TypeOK
    <2>4. CASE TimeoutReturns(e)
        BY <2>4 DEF TimeoutReturns, worker, tables, IInv, Typed, TypeOK
    <2>5. CASE TimeoutOvertakes(e)
        BY <2>5 DEF TimeoutOvertakes, Fault, worker, tables, IInv, Typed, TypeOK
    <2> QED BY <2>1, <2>2, <2>3, <2>4, <2>5
<1>2. IsFiniteSet(queue')
    BY <1>1, FS_AddElement DEF IInv, Typed
<1> QED BY <1>1, <1>2 DEF IInv, Typed, TypeOK, AtWork

LEMMA IInvNext == IInv /\ [Next]_vars => IInv'
<1> SUFFICES ASSUME IInv, [Next]_vars PROVE IInv'
    OBVIOUS
<1>1. CASE UNCHANGED vars
    BY <1>1 DEF vars, sqs, worker, tables, IInv, Typed, TypeOK, AtWork
<1>2. ASSUME NEW w \in Workers, WorkerStep(w)
      PROVE  IInv'
    BY <1>2, ReceiveStep, HandleStep, FailStep, DeleteStep, ProcessStep DEF WorkerStep
<1> QED BY <1>1, <1>2, OutsideStep DEF Next, Quiet

LEMMA Invariance == Spec => []IInv
<1>1. Init => IInv
    BY FS_EmptySet DEF Init, IInv, Typed, TypeOK, AtWork
<1> QED BY <1>1, IInvNext, PTL DEF Spec

-----------------------------------------------------------------------------

\* The write path keeps its types.
THEOREM TypeCorrect == Spec => []TypeOK
<1>1. IInv => TypeOK
    BY DEF IInv, Typed
<1> QED BY <1>1, Invariance, PTL

\* What a step does to the tables and the queue: rows are added with their
\* entry in the audit trail, never taken away, and only what is done with
\* leaves the queue.
LEMMA TableSteps ==
    ASSUME IInv, [Next]_vars
    PROVE  /\ \/ \E e \in Experiences : InsertOnce(e)
              \/ UNCHANGED <<stored, entries>> /\ selfReports \subseteq selfReports'
           /\ gaveUp \subseteq gaveUp'
           /\ queue \ queue' \subseteq stored \cup gaveUp \cup Invalid
           /\ \/ UNCHANGED client
              \/ \E e \in Experiences, to \in {"accepted", "refused", "reported"} :
                    /\ client' = [client EXCEPT ![e] = to]
                    /\ to = "accepted" => e \in queue'
                    /\ to = "reported" => client[e] = "accepted"
<1> DEFINE Result ==
           /\ \/ \E e \in Experiences : InsertOnce(e)
              \/ UNCHANGED <<stored, entries>> /\ selfReports \subseteq selfReports'
           /\ gaveUp \subseteq gaveUp'
           /\ queue \ queue' \subseteq stored \cup gaveUp \cup Invalid
           /\ \/ UNCHANGED client
              \/ \E e \in Experiences, to \in {"accepted", "refused", "reported"} :
                    /\ client' = [client EXCEPT ![e] = to]
                    /\ to = "accepted" => e \in queue'
                    /\ to = "reported" => client[e] = "accepted"
<1>1. CASE UNCHANGED vars
    BY <1>1 DEF vars, sqs, tables
<1>2. ASSUME NEW w \in Workers, WorkerStep(w)
      PROVE  Result
    <2>1. wpc[w] \in {"handling", "inserting", "deleting"} => Head(batch[w]).exp \in Experiences
        BY HeadAndTail DEF IInv, Typed, TypeOK, AtWork
    <2>2. CASE Receive(w)
        BY <2>2 DEF Receive, tables
    <2>3. CASE DiscardInvalid(w) \/ Enrich(w)
        BY <2>3 DEF DiscardInvalid, Enrich, sqs, tables
    <2>4. CASE Insert(w)
        BY <2>1, <2>4 DEF Insert, sqs
    <2>5. CASE HandlerFails(w)
        BY <2>1, <2>5 DEF HandlerFails, sqs, tables
    <2>6. CASE Delete(w) \/ DeleteFails(w)
        BY <2>6 DEF Delete, DeleteFails, tables, IInv, AtWork
    <2>7. CASE Crash(w) \/ Restart(w)
        BY <2>7 DEF Crash, Restart, sqs, tables
    <2> QED BY <1>2, <2>2, <2>3, <2>4, <2>5, <2>6, <2>7 DEF WorkerStep
<1>3. ASSUME NEW e \in Experiences,
             Publish(e) \/ PublishFails(e) \/ SelfReport(e)
                 \/ TimeoutReturns(e) \/ TimeoutOvertakes(e)
      PROVE  Result
    <2>1. CASE Publish(e)
        BY <2>1 DEF Publish, tables
    <2>2. CASE PublishFails(e)
        BY <2>2 DEF PublishFails, tables
    <2>3. CASE SelfReport(e)
        BY <2>3 DEF SelfReport, sqs
    <2>4. CASE TimeoutReturns(e) \/ TimeoutOvertakes(e)
        BY <2>4 DEF TimeoutReturns, TimeoutOvertakes, tables
    <2> QED BY <1>3, <2>1, <2>2, <2>3, <2>4
<1> QED BY <1>1, <1>2, <1>3 DEF Next, Quiet

\* However often an experience is delivered, crashed on and handled by two
\* workers at once, it enters the audit trail once.
THEOREM StoredOnce == Spec => []EntersOnce
<1>1. Init => EntersOnce
    BY DEF Init, EntersOnce
<1>2. IInv /\ EntersOnce /\ [Next]_vars => EntersOnce'
    <2> SUFFICES ASSUME IInv, EntersOnce, [Next]_vars PROVE EntersOnce'
        OBVIOUS
    <2>1. ASSUME NEW e \in Experiences, InsertOnce(e)
          PROVE  EntersOnce'
        BY <2>1, Inserted DEF IInv, Typed
    <2>2. CASE UNCHANGED <<stored, entries>>
        BY <2>2 DEF EntersOnce
    <2> QED BY <2>1, <2>2, TableSteps
<1> QED BY <1>1, <1>2, Invariance, PTL DEF Spec

\* No crash, lost acknowledgement or overtaken delivery makes an accepted and
\* valid experience disappear before it is stored or given up.
THEOREM NothingIsLost == Spec => []AcceptedIsKept
<1>1. Init => AcceptedIsKept
    BY DEF Init, AcceptedIsKept
<1>2. IInv /\ AcceptedIsKept /\ [Next]_vars => AcceptedIsKept'
    <2> SUFFICES ASSUME IInv, AcceptedIsKept, [Next]_vars,
                        NEW x \in Experiences \ Invalid,
                        client'[x] \in {"accepted", "reported"}
                 PROVE  x \in stored' \cup queue' \cup gaveUp'
        BY DEF AcceptedIsKept
    <2>1. stored \subseteq stored' /\ gaveUp \subseteq gaveUp'
        BY TableSteps, Inserted DEF IInv, Typed
    <2>2. CASE client[x] \in {"accepted", "reported"}
        BY <2>1, <2>2, TableSteps DEF AcceptedIsKept
    <2>3. CASE client[x] \notin {"accepted", "reported"}
        BY <2>3, TableSteps DEF IInv, Typed, TypeOK
    <2> QED BY <2>2, <2>3
<1> QED BY <1>1, <1>2, Invariance, PTL DEF Spec

\* No redelivery takes back a row or what governance has done to it.
THEOREM GovernanceIsKept == Spec => RedeliveryKeepsGovernance
<1>1. IInv /\ [Next]_vars => [stored \subseteq stored' /\ selfReports \subseteq selfReports']_vars
    <2> SUFFICES ASSUME IInv, [Next]_vars
                 PROVE  stored \subseteq stored' /\ selfReports \subseteq selfReports'
        OBVIOUS
    <2> QED BY TableSteps, Inserted DEF IInv, Typed
<1> QED BY <1>1, Invariance, PTL DEF Spec, RedeliveryKeepsGovernance
=============================================================================
