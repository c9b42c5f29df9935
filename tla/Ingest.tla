------------------------------- MODULE Ingest -------------------------------
(***************************************************************************)
(* The queued write path: the API publishes an accepted experience to SQS, *)
(* which delivers it at least once; workers take batches, store each       *)
(* experience once and delete its message; the author may then report that *)
(* its own new memory was wrong.  The service gives every store request a  *)
(* fresh id and publishes it once, so a message is named by its experience.*)
(***************************************************************************)
EXTENDS Integers, Sequences, FiniteSets

CONSTANTS
    Experiences, Workers,
    Invalid,        \* experiences whose payload fails validation in the worker
    MaxReceives,    \* MAX_RECEIVES of worker.py
    MaxBatch,       \* messages per receive (10 in the code)
    MaxFaults       \* bound of the model: failures of every kind together

ASSUME IngestAssumption ==
    /\ Invalid \subseteq Experiences
    /\ MaxReceives \in Nat \ {0} /\ MaxBatch \in Nat \ {0} /\ MaxFaults \in Nat

VARIABLES
    client,      \* what the author of each experience knows and has done
    queue,       \* messages not deleted yet
    hidden,      \* those within a visibility timeout
    receives,    \* ApproximateReceiveCount of each message
    wpc, batch,  \* per worker: its next step, the deliveries left to process
    stored,      \* experiences with a row
    entries,     \* audit rows with no from_tier, per experience
    selfReports, \* experiences with a counted failure report by their author
    attempts,    \* history: deliveries on which work on an experience began
    gaveUp,      \* history: experiences discarded at the delivery limit
    faults       \* failures so far (bound of the model)

sqs    == <<queue, hidden, receives>>
worker == <<wpc, batch>>
tables == <<stored, entries, selfReports>>
vars   == <<client, sqs, worker, tables, attempts, gaveUp, faults>>

Delivery == [exp : Experiences, receives : Nat]

Init ==
    /\ client = [e \in Experiences |-> "new"]
    /\ queue = {} /\ hidden = {}
    /\ receives = [e \in Experiences |-> 0]
    /\ wpc = [w \in Workers |-> "polling"]
    /\ batch = [w \in Workers |-> <<>>]
    /\ stored = {} /\ selfReports = {} /\ gaveUp = {}
    /\ entries = [e \in Experiences |-> 0]
    /\ attempts = [e \in Experiences |-> 0]
    /\ faults = 0

Fault == faults < MaxFaults /\ faults' = faults + 1

-----------------------------------------------------------------------------
(* The API and its client.                                                 *)

\* store_experience with the queue: published, and the client gets its id.
Publish(e) ==
    /\ client[e] = "new"
    /\ client' = [client EXCEPT ![e] = "accepted"]
    /\ queue' = queue \cup {e}
    /\ UNCHANGED <<hidden, receives, worker, tables, attempts, gaveUp, faults>>

\* Publishing raises: the client is refused (503), though SQS may have the
\* message all the same.
PublishFails(e) ==
    /\ client[e] = "new" /\ Fault
    /\ client' = [client EXCEPT ![e] = "refused"]
    /\ queue' \in {queue, queue \cup {e}}
    /\ UNCHANGED <<hidden, receives, worker, tables, attempts, gaveUp>>

SelfReportUnchecked(e) ==   \* slip: a report on a row that does not exist is kept
    /\ client[e] = "accepted"
    /\ client' = [client EXCEPT ![e] = "reported"]
    /\ selfReports' = selfReports \cup {e}
    /\ UNCHANGED <<sqs, worker, stored, entries, attempts, gaveUp, faults>>

\* run_task: the outcome is observed and the author says its memory was wrong.
\* While the row is missing the API answers 404, which the client swallows.
SelfReport(e) ==
    /\ client[e] = "accepted"
    /\ client' = [client EXCEPT ![e] = "reported"]
    /\ selfReports' = IF e \in stored THEN selfReports \cup {e} ELSE selfReports
    /\ UNCHANGED <<sqs, worker, stored, entries, attempts, gaveUp, faults>>

-----------------------------------------------------------------------------
(* SQS.                                                                    *)

Holds(w, e) == \E k \in 1..Len(batch[w]) : batch[w][k].exp = e

\* The visibility timeout of a message nobody works on any more.
TimeoutReturns(e) ==
    /\ e \in hidden /\ \A w \in Workers : ~Holds(w, e)
    /\ hidden' = hidden \ {e}
    /\ UNCHANGED <<client, queue, receives, worker, tables, attempts, gaveUp, faults>>

\* The timeout of a message whose batch takes too long: it will be delivered
\* a second time while the first delivery is still in hand.
TimeoutOvertakes(e) ==
    /\ e \in hidden /\ \E w \in Workers : Holds(w, e)
    /\ Fault
    /\ hidden' = hidden \ {e}
    /\ UNCHANGED <<client, queue, receives, worker, tables, attempts, gaveUp>>

-----------------------------------------------------------------------------
(* The worker.                                                             *)

\* The messages in a batch, in the order the worker processes them.
Orders(S) == {q \in [1..Cardinality(S) -> S] : \A e \in S : \E k \in DOMAIN q : q[k] = e}

ReceiveAcknowledged(w) ==   \* slip: messages are deleted when they are received
    /\ wpc[w] = "polling"
    /\ \E got \in SUBSET (queue \ hidden) : \E order \in Orders(got) :
          /\ got # {} /\ Cardinality(got) <= MaxBatch
          /\ queue' = queue \ got
          /\ receives' = [e \in Experiences |-> receives[e] + IF e \in got THEN 1 ELSE 0]
          /\ batch' = [batch EXCEPT ![w] =
                 [k \in DOMAIN order |-> [exp |-> order[k], receives |-> receives'[order[k]]]]]
    /\ wpc' = [wpc EXCEPT ![w] = "handling"]
    /\ UNCHANGED <<client, hidden, tables, attempts, gaveUp, faults>>

Receive(w) ==
    /\ wpc[w] = "polling"
    /\ \E got \in SUBSET (queue \ hidden) : \E order \in Orders(got) :
          /\ got # {} /\ Cardinality(got) <= MaxBatch
          /\ hidden' = hidden \cup got
          /\ receives' = [e \in Experiences |-> receives[e] + IF e \in got THEN 1 ELSE 0]
          /\ batch' = [batch EXCEPT ![w] =
                 [k \in DOMAIN order |-> [exp |-> order[k], receives |-> receives'[order[k]]]]]
    /\ wpc' = [wpc EXCEPT ![w] = "handling"]
    /\ UNCHANGED <<client, queue, tables, attempts, gaveUp, faults>>

NextMessage(w) ==
    /\ batch' = [batch EXCEPT ![w] = Tail(@)]
    /\ wpc' = [wpc EXCEPT ![w] = IF Len(batch[w]) = 1 THEN "polling" ELSE "handling"]

RetryInvalid(w) ==   \* slip: a payload that cannot be parsed is tried again in place
    /\ wpc[w] = "handling" /\ Head(batch[w]).exp \in Invalid
    /\ UNCHANGED vars

\* A payload that can never be processed: deleted, not retried.
DiscardInvalid(w) ==
    /\ wpc[w] = "handling" /\ Head(batch[w]).exp \in Invalid
    /\ wpc' = [wpc EXCEPT ![w] = "deleting"]
    /\ UNCHANGED <<client, sqs, batch, tables, attempts, gaveUp, faults>>

\* process_experience begins: tier, extraction, embedding.
Enrich(w) ==
    /\ wpc[w] = "handling" /\ Head(batch[w]).exp \notin Invalid
    /\ wpc' = [wpc EXCEPT ![w] = "inserting"]
    /\ attempts' = [attempts EXCEPT ![Head(batch[w]).exp] = @ + 1]
    /\ UNCHANGED <<client, sqs, batch, tables, gaveUp, faults>>

InsertOrReplace(e) ==   \* slip: a redelivered experience overwrites its row
    /\ stored' = stored \cup {e}
    /\ entries' = [entries EXCEPT ![e] = @ + 1]
    /\ selfReports' = selfReports \ {e}

InsertAuditedAgain(e) ==   \* slip: after a conflict the audit row is written all the same
    /\ stored' = stored \cup {e}
    /\ entries' = [entries EXCEPT ![e] = @ + 1]
    /\ UNCHANGED selfReports

\* insert_enriched_experience: row and audit row together, or neither.
InsertOnce(e) ==
    /\ stored' = stored \cup {e}
    /\ entries' = IF e \in stored THEN entries ELSE [entries EXCEPT ![e] = @ + 1]
    /\ UNCHANGED selfReports

Insert(w) ==
    /\ wpc[w] = "inserting"
    /\ InsertOnce(Head(batch[w]).exp)
    /\ wpc' = [wpc EXCEPT ![w] = "deleting"]
    /\ UNCHANGED <<client, sqs, batch, attempts, gaveUp, faults>>

\* The handler raises: before its transaction commits, or with the answer to
\* the commit lost.  At the delivery limit the message is discarded.
HandlerFails(w) ==
    /\ wpc[w] = "inserting" /\ Fault
    /\ LET d == Head(batch[w]) IN
       /\ InsertOnce(d.exp) \/ UNCHANGED tables
       /\ IF d.receives >= MaxReceives
          THEN /\ wpc' = [wpc EXCEPT ![w] = "deleting"]
               /\ gaveUp' = gaveUp \cup {d.exp}
               /\ UNCHANGED batch
          ELSE NextMessage(w) /\ UNCHANGED gaveUp
    /\ UNCHANGED <<client, sqs, attempts>>

\* The acknowledgement.  SQS may ignore the receipt of a delivery that was
\* overtaken by a later one.
Delete(w) ==
    /\ wpc[w] = "deleting"
    /\ LET d == Head(batch[w]) IN
       \/ queue' = queue \ {d.exp} /\ hidden' = hidden \ {d.exp}
       \/ receives[d.exp] > d.receives /\ UNCHANGED <<queue, hidden>>
    /\ NextMessage(w)
    /\ UNCHANGED <<client, receives, tables, attempts, gaveUp, faults>>

Down(w) ==
    /\ wpc' = [wpc EXCEPT ![w] = "down"]
    /\ batch' = [batch EXCEPT ![w] = <<>>]

\* queue.delete raises.  run() does not catch it: the worker ends with the
\* rest of its batch, whether or not SQS carried the deletion out.
DeleteFails(w) ==
    /\ wpc[w] = "deleting" /\ Fault
    /\ LET e == Head(batch[w]).exp IN
       \/ queue' = queue \ {e} /\ hidden' = hidden \ {e}
       \/ UNCHANGED <<queue, hidden>>
    /\ Down(w)
    /\ UNCHANGED <<client, receives, tables, attempts, gaveUp>>

\* The worker process dies; what it had not committed rolls back.
Crash(w) ==
    /\ wpc[w] # "down" /\ Fault
    /\ Down(w)
    /\ UNCHANGED <<client, sqs, tables, attempts, gaveUp>>

\* The deployment starts a new worker process.
Restart(w) ==
    /\ wpc[w] = "down"
    /\ wpc' = [wpc EXCEPT ![w] = "polling"]
    /\ UNCHANGED <<client, sqs, batch, tables, attempts, gaveUp, faults>>

\* Nothing is queued, and the workers poll.
Quiet == queue = {} /\ (\A w \in Workers : wpc[w] = "polling") /\ UNCHANGED vars

WorkerStep(w) ==
    \/ Receive(w) \/ DiscardInvalid(w) \/ Enrich(w) \/ Insert(w) \/ Delete(w)
    \/ HandlerFails(w) \/ DeleteFails(w) \/ Crash(w) \/ Restart(w)

Next ==
    \/ \E e \in Experiences : \/ Publish(e) \/ PublishFails(e) \/ SelfReport(e)
                              \/ TimeoutReturns(e) \/ TimeoutOvertakes(e)
    \/ \E w \in Workers : WorkerStep(w)
    \/ Quiet

\* Workers run and are restarted, timeouts expire.  A worker that takes
\* batches for ever takes each message in the end: SQS delivers every message.
Delivered(w, e) == Receive(w) /\ e \in hidden' \ hidden

Fairness ==
    /\ \A w \in Workers :
          /\ WF_vars(DiscardInvalid(w)) /\ WF_vars(Enrich(w)) /\ WF_vars(Insert(w))
          /\ WF_vars(Delete(w)) /\ WF_vars(Restart(w))
    /\ \A e \in Experiences :
          WF_vars(TimeoutReturns(e)) /\ SF_vars(\E w \in Workers : Delivered(w, e))

Spec     == Init /\ [][Next]_vars
FairSpec == Spec /\ Fairness

-----------------------------------------------------------------------------
(* Properties.                                                             *)

TypeOK ==
    /\ client \in [Experiences -> {"new", "accepted", "refused", "reported"}]
    /\ queue \subseteq Experiences /\ hidden \subseteq queue
    /\ receives \in [Experiences -> Nat]
    /\ wpc \in [Workers -> {"polling", "handling", "inserting", "deleting", "down"}]
    /\ batch \in [Workers -> Seq(Delivery)]
    /\ stored \subseteq Experiences /\ selfReports \subseteq stored
    /\ entries \in [Experiences -> Nat] /\ attempts \in [Experiences -> Nat]
    /\ gaveUp \subseteq Experiences
    /\ faults \in 0..MaxFaults

\* An experience enters the audit trail exactly once, however often it is
\* delivered and whoever is handling it (insert_enriched_experience: "a
\* duplicate message cannot duplicate the audit trail either").
EntersOnce ==
    \A e \in Experiences : entries[e] = IF e \in stored THEN 1 ELSE 0

\* Once accepted, an experience is stored, or on the queue, or was given up
\* at the delivery limit, or could never be stored: no crash, lost
\* acknowledgement or overtaken delivery makes it disappear in between.
AcceptedIsKept ==
    \A e \in Experiences \ Invalid : client[e] \in {"accepted", "reported"}
        => e \in stored \cup queue \cup gaveUp

\* A redelivery never undoes what governance has done to a stored memory.
RedeliveryKeepsGovernance == [][stored \subseteq stored' /\ selfReports \subseteq selfReports']_vars

\* Every message leaves the queue for good, the ones that can never be
\* processed included (process_one: no message becomes "an infinite loop"),
\* and what was accepted and valid is then stored or given up.
QueueDrains ==
    \A e \in Experiences : e \in queue ~> e \notin queue
AcceptedIsSettled ==
    \A e \in Experiences \ Invalid : client[e] = "accepted" ~> e \in stored \cup gaveUp

\* A message is discarded only after MAX_RECEIVES deliveries on which it was
\* at least begun (worker.py: "After this many failed deliveries a message is
\* dropped").
GivesUpAfterFailedDeliveries ==
    \A e \in gaveUp : attempts[e] >= MaxReceives

\* The failure an author reports on its own new memory is on that memory's
\* record once it is stored (run_task: "a negative self-report, which the
\* Judge counts").
SelfReportIsCounted ==
    \A e \in stored : client[e] = "reported" => e \in selfReports
=============================================================================
