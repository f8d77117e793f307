---------------------------- MODULE ConfigOutbox ----------------------------
(***************************************************************************)
(* The config_outbox table of the Config Registry, the publishers that     *)
(* move its records to Kafka, and the backoffice operator                  *)
(* (application/use_cases/config_event_publisher.py, config_outbox.py,     *)
(* infrastructure/postgres/unit_of_work.py, kafka/config_delivery.py,      *)
(* backoffice_actions.py).                                                 *)
(*                                                                         *)
(* Publishers are the worker loop and any batch command run beside it; a   *)
(* batch mixes the records of all agents.  A reservation locks its rows    *)
(* and is one step.  A mark is two: the row is read without a lock, and    *)
(* the flush writes only the columns that differ from what was read, so    *)
(* that two marks of one row may mix.                                      *)
(*                                                                         *)
(* Instants are the seconds still to go, and 0 once they have passed.      *)
(***************************************************************************)
EXTENDS Integers, Sequences, FiniteSets

CONSTANTS
  Publisher,      \* processes that run PublishConfigOutboxBatch
  Polling,        \* those among them that do so again and again
  Agent,          \* agents with records in the table
  MaxRevisions,   \* bound: config revisions rendered
  AgentOf,        \* the agent each of them is rendered for
  Scopes,         \* records per revision: agent_runtime, then its sources
  BatchLimit,     \* outbox_batch_limit
  LeaseSeconds,   \* outbox_lease_seconds
  RetryDelay,     \* outbox_retry_delay_seconds
  MaxAttempts,    \* outbox_max_attempts
  MaxCrashes,     \* bound: publishers stopped in the middle of a batch
  MaxOperations,  \* bound: operator actions on one record
  MaxResends,     \* bound: messages of a record sent again by the producer
  NoLease         \* lease_expires_at IS NULL

(* Records in the order of available_at, then created_at *)
Record == 1..(MaxRevisions * Scopes)

Revision == 1..MaxRevisions

RecordsOf(revision) == {i \in Record : (i - 1) \div Scopes = revision - 1}

AgentOfRecord(i) == AgentOf[(i - 1) \div Scopes + 1]

(* kafka_key: the agent and the config_scope *)
KafkaKey(i) == <<AgentOfRecord(i), (i - 1) % Scopes>>

ASSUME BoundsAssumption ==
  /\ MaxRevisions \in Nat \ {0}
  /\ Scopes \in Nat \ {0}
  /\ MaxCrashes \in Nat
  /\ MaxOperations \in Nat
  /\ MaxResends \in Nat

ASSUME PublisherAssumption == IsFiniteSet(Publisher) /\ Polling \subseteq Publisher

ASSUME AgentAssumption == AgentOf \in [Revision -> Agent]

ASSUME SettingsAssumption ==
  /\ BatchLimit \in Nat \ {0}
  /\ LeaseSeconds \in Nat
  /\ RetryDelay \in Nat
  /\ MaxAttempts \in Nat \ {0}

ASSUME NoLeaseAssumption == NoLease \notin Int

VARIABLES
  rows,      \* the table: a row per record, "absent" until it is inserted
  pc,        \* per publisher: where its batch is
  batch,     \* per publisher: the reserved records it has still to finish
  snapshot,  \* per publisher: attempt_count of those records when reserved
  age,       \* per publisher: seconds since its batch's `now`
  outcome,   \* per publisher: of the record it is at
  seen,      \* per publisher: the row its mark has read
  queue,     \* per publisher: messages left in its producer by timeouts
  log,       \* the topic idp.edge.configs.v1: records, oldest first
  operator,  \* the operator's action under way
  failures,  \* history: failed publications per record
  operated,  \* history: operator actions per record
  resent,    \* history: copies of a record whose acknowledgement was lost
  crashes,   \* history: publishers stopped in the middle of a batch
  stale      \* history: publishers ended by a deletion under their mark

publishers == <<pc, batch, snapshot, age, outcome, seen>>

vars == <<rows, publishers, queue, log, operator, failures, operated, resent, crashes,
          stale>>

Verdict == {"published", "retry", "dead_letter"}

Status == Verdict \cup {"absent", "pending", "inflight", "deleted"}

Row == [ status : Status, leaseExpiresAt : Nat \cup {NoLease},
         attemptCount : Nat, nextAttemptAt : Nat ]

(* A row that was never reserved, or is none at all *)
Blank(status) == [ status |-> status, leaseExpiresAt |-> NoLease,
                   attemptCount |-> 0, nextAttemptAt |-> 0 ]

Stored == {i \in Record : rows[i].status \notin {"absent", "deleted"}}

(* What session.get leaves behind, to tell which columns have changed *)
Read == [ status : Status, leased : BOOLEAN, attempts : Nat ]

Seen(i) == [ status |-> rows[i].status,
             leased |-> rows[i].leaseExpiresAt # NoLease,
             attempts |-> rows[i].attemptCount ]

Unread == [ status |-> "absent", leased |-> FALSE, attempts |-> 0 ]

NoAction == [ verdict |-> "none", record |-> 1, seen |-> Unread ]

Empty == [i \in Record |-> 0]

(***************************************************************************)
(* The table.  An operator marked "Fault" is no part of the model: it is a *)
(* way the next definition could have been got wrong, kept to show which   *)
(* property would notice.                                                  *)
(***************************************************************************)

(* StoreRenderedAgentRuntimeConfig: a record per scope in one transaction.  *)
(* Concurrent renders may commit in either order.                          *)
StoreRendered ==
  \E revision \in Revision :
    /\ \A i \in RecordsOf(revision) : rows[i].status = "absent"
    /\ rows' = [i \in Record |->
                  IF i \in RecordsOf(revision) THEN Blank("pending") ELSE rows[i]]
    /\ UNCHANGED <<publishers, queue, log, operator, failures, operated, resent, crashes,
                   stale>>

(* delete_for_agent: every record of the agent goes, the others stay.  An   *)
(* agent created again under the same code is given later revisions.       *)
DeleteForAgent(agent) ==
  LET gone == {i \in Stored : AgentOfRecord(i) = agent} IN
  /\ gone # {}
  /\ rows' = [i \in Record |-> IF i \in gone THEN Blank("deleted") ELSE rows[i]]
  /\ UNCHANGED <<publishers, queue, log, operator, failures, operated, resent, crashes,
                 stale>>

(* Fault: only records never tried before are reserved *)
DueWhenPending(i) == rows[i].status = "pending"

(* Fault: a record that is out on lease, or settled, is due all the same *)
DueWhateverStatus(i) == i \in Stored /\ rows[i].nextAttemptAt = 0

Due(i) == rows[i].status \in {"pending", "retry"} /\ rows[i].nextAttemptAt = 0

(* The record publisher w is at: its batch is worked through in order *)
IsNext(w, i) == i \in batch[w] /\ \A j \in batch[w] : i <= j

(* Rows on which a flush not yet committed may hold a lock *)
Locked == {i \in Record :
             \/ operator.verdict # "none" /\ operator.record = i
             \/ \E w \in Publisher : pc[w] = "write" /\ IsNext(w, i)}

(* ORDER BY available_at, created_at LIMIT limit *)
IsFirstOf(taken, due) ==
  /\ taken \subseteq due
  /\ \A i \in taken, j \in due \ taken : i < j
  /\ Cardinality(taken) = IF Cardinality(due) < BatchLimit
                          THEN Cardinality(due) ELSE BatchLimit

(* reserve_available, FOR UPDATE SKIP LOCKED, and commit.  The first record *)
(* is handed to the producer at once.                                      *)
ReserveAvailable(w) ==
  \E skipped \in SUBSET Locked, taken \in SUBSET {i \in Record : Due(i)} :
    /\ pc[w] = "idle"
    /\ taken # {}
    /\ IsFirstOf(taken, {i \in Record : Due(i)} \ skipped)
    /\ rows' = [i \in Record |->
                  IF i \in taken
                  THEN [rows[i] EXCEPT !.status = "inflight", !.leaseExpiresAt = LeaseSeconds]
                  ELSE rows[i]]
    /\ pc' = [pc EXCEPT ![w] = "publish"]
    /\ batch' = [batch EXCEPT ![w] = taken]
    /\ snapshot' = [snapshot EXCEPT ![w] =
                      [i \in Record |-> IF i \in taken THEN rows[i].attemptCount ELSE 0]]
    /\ age' = [age EXCEPT ![w] = 0]
    /\ outcome' = [outcome EXCEPT ![w] = "queued"]
    /\ UNCHANGED <<seen, queue, log, operator, failures, operated, resent, crashes, stale>>

(* Fault: a failed publication is not counted *)
MarkedUncounted(row, read, verdict, at) ==
  [ status |-> IF read.status = verdict THEN row.status ELSE verdict,
    leaseExpiresAt |-> IF read.leased THEN NoLease ELSE row.leaseExpiresAt,
    attemptCount |-> row.attemptCount,
    nextAttemptAt |-> IF verdict = "retry" THEN at ELSE row.nextAttemptAt ]

(* Fault: mark_retry releases the lease and leaves the status alone *)
MarkedStatusKept(row, read, verdict, at) ==
  [ status |-> IF verdict = "retry" THEN row.status ELSE verdict,
    leaseExpiresAt |-> IF read.leased THEN NoLease ELSE row.leaseExpiresAt,
    attemptCount |-> IF verdict = "published" THEN row.attemptCount ELSE read.attempts + 1,
    nextAttemptAt |-> IF verdict = "retry" THEN at ELSE row.nextAttemptAt ]

(* mark_published, mark_retry and mark_dead_letter flush a row that was     *)
(* read as `read` and may have changed since                               *)
Marked(row, read, verdict, at) ==
  [ status |-> IF read.status = verdict THEN row.status ELSE verdict,
    leaseExpiresAt |-> IF read.leased THEN NoLease ELSE row.leaseExpiresAt,
    attemptCount |-> IF verdict = "published" THEN row.attemptCount ELSE read.attempts + 1,
    nextAttemptAt |-> IF verdict = "retry" THEN at ELSE row.nextAttemptAt ]

(***************************************************************************)
(* ConfluentKafkaConfigRecordPublisher: produce, then flush until nothing  *)
(* is left in the producer or the timeout strikes.                         *)
(***************************************************************************)

(* The broker writes, or refuses for good, the message being published.     *)
(* acks=all makes it answer when the message is written.                    *)
MessageAcked(w) ==
  \E i \in Record :
    /\ pc[w] = "publish"
    /\ outcome[w] = "queued"
    /\ IsNext(w, i)
    /\ log' = Append(log, i)
    /\ outcome' = [outcome EXCEPT ![w] = "acked"]
    /\ UNCHANGED <<rows, pc, batch, snapshot, age, seen, queue, operator, failures,
                   operated, resent, crashes, stale>>

MessageRefused(w) ==
  /\ pc[w] = "publish"
  /\ outcome[w] = "queued"
  /\ outcome' = [outcome EXCEPT ![w] = "refused"]
  /\ UNCHANGED <<rows, pc, batch, snapshot, age, seen, queue, log, operator, failures,
                 operated, resent, crashes, stale>>

(* The broker writes a message and its answer is lost.  The producer, which *)
(* is not idempotent, sends the message again.                             *)
MessageResent(w) ==
  \E i \in Record :
    /\ \/ pc[w] = "publish" /\ outcome[w] = "queued" /\ IsNext(w, i)
       \/ queue[w][i] > 0
    /\ resent[i] < MaxResends
    /\ log' = Append(log, i)
    /\ resent' = [resent EXCEPT ![i] = @ + 1]
    /\ UNCHANGED <<rows, publishers, queue, operator, failures, operated, crashes, stale>>

(* A message a timeout left behind reaches the broker after all, or expires *)
LateDelivery(w) ==
  \E i \in Record :
    /\ queue[w][i] > 0
    /\ queue' = [queue EXCEPT ![w][i] = @ - 1]
    /\ log' \in {log, Append(log, i)}
    /\ UNCHANGED <<rows, publishers, operator, failures, operated, resent, crashes, stale>>

(* Fault: what is left in the producer after the flush goes unnoticed *)
PublishedUnflushed(w) == outcome[w] \in {"acked", "queued"}

(* publish returns, rather than raises: flush left nothing behind, of this  *)
(* record or of an earlier one, and this record's callback saw no error    *)
Published(w) == outcome[w] = "acked" /\ queue[w] = Empty

(* Fault: the limit is compared with the failures before this one *)
ExhaustedLate(attempts) == attempts >= MaxAttempts

Exhausted(attempts) == attempts + 1 >= MaxAttempts

PublishReturns(w) ==
  /\ pc[w] = "publish"
  /\ Published(w)
  /\ outcome' = [outcome EXCEPT ![w] = "published"]
  /\ pc' = [pc EXCEPT ![w] = "mark"]
  /\ UNCHANGED <<rows, batch, snapshot, age, seen, queue, log, operator, failures,
                 operated, resent, crashes, stale>>

(* Fault: nothing is decided, and the mark writes what the callback reported *)
PublishRaisesUndecided(w) ==
  \E i \in Record :
    /\ pc[w] = "publish"
    /\ IsNext(w, i)
    /\ outcome[w] # "acked" \/ queue[w] # Empty
    /\ queue' = [queue EXCEPT ![w][i] = IF outcome[w] = "queued" THEN @ + 1 ELSE @]
    /\ failures' = [failures EXCEPT ![i] = @ + 1]
    /\ pc' = [pc EXCEPT ![w] = "mark"]
    /\ UNCHANGED <<rows, batch, snapshot, age, outcome, seen, log, operator, operated,
                   resent, crashes, stale>>

(* The except clause: the limit is tested on the attempt_count read when    *)
(* the batch was reserved.  An unsent message stays with the producer.     *)
PublishRaises(w) ==
  \E i \in Record :
    /\ pc[w] = "publish"
    /\ IsNext(w, i)
    /\ outcome[w] # "acked" \/ queue[w] # Empty
    /\ queue' = [queue EXCEPT ![w][i] = IF outcome[w] = "queued" THEN @ + 1 ELSE @]
    /\ failures' = [failures EXCEPT ![i] = @ + 1]
    /\ outcome' = [outcome EXCEPT ![w] =
                     IF Exhausted(snapshot[w][i]) THEN "dead_letter" ELSE "retry"]
    /\ pc' = [pc EXCEPT ![w] = "mark"]
    /\ UNCHANGED <<rows, batch, snapshot, age, seen, log, operator, operated, resent, crashes, stale>>

(***************************************************************************)
(* PublishConfigOutboxBatch: each record's mark, in a transaction of its   *)
(* own.                                                                    *)
(***************************************************************************)
After(w, i) ==
  /\ batch' = [batch EXCEPT ![w] = @ \ {i}]
  /\ snapshot' = [snapshot EXCEPT ![w][i] = 0]
  /\ seen' = [seen EXCEPT ![w] = Unread]
  /\ IF batch[w] = {i}
     THEN /\ pc' = [pc EXCEPT ![w] = "idle"]
          /\ outcome' = [outcome EXCEPT ![w] = "none"]
          /\ age' = [age EXCEPT ![w] = 0]
     ELSE /\ pc' = [pc EXCEPT ![w] = "publish"]
          /\ outcome' = [outcome EXCEPT ![w] = "queued"]
          /\ age' = age

(* The publisher's process ends: what it held and what it had queued is gone *)
Stop(w) ==
  /\ pc' = [pc EXCEPT ![w] = "idle"]
  /\ batch' = [batch EXCEPT ![w] = {}]
  /\ snapshot' = [snapshot EXCEPT ![w] = Empty]
  /\ seen' = [seen EXCEPT ![w] = Unread]
  /\ outcome' = [outcome EXCEPT ![w] = "none"]
  /\ age' = [age EXCEPT ![w] = 0]
  /\ queue' = [queue EXCEPT ![w] = Empty]

(* session.get; a record deleted in the meantime is passed over *)
ReadRow(w) ==
  \E i \in Record :
    /\ pc[w] = "mark"
    /\ IsNext(w, i)
    /\ IF i \in Stored
       THEN /\ seen' = [seen EXCEPT ![w] = Seen(i)]
            /\ pc' = [pc EXCEPT ![w] = "write"]
            /\ UNCHANGED <<batch, snapshot, age, outcome>>
       ELSE After(w, i)
    /\ UNCHANGED <<rows, queue, log, operator, failures, operated, resent, crashes, stale>>

(* next_attempt_at counts from the batch's `now` *)
RetryIn(w) == IF age[w] < RetryDelay THEN RetryDelay - age[w] ELSE 0

(* session.flush and commit *)
WriteRow(w) ==
  \E i \in Stored :
    /\ pc[w] = "write"
    /\ IsNext(w, i)
    /\ rows' = [rows EXCEPT ![i] = Marked(rows[i], seen[w], outcome[w], RetryIn(w))]
    /\ After(w, i)
    /\ UNCHANGED <<queue, log, operator, failures, operated, resent, crashes, stale>>

(* The row was deleted after it was read: the flush finds none to update and *)
(* its StaleDataError ends the publisher, with the rest of its batch in hand *)
WriteStale(w) ==
  /\ pc[w] = "write"
  /\ \E i \in Record \ Stored : IsNext(w, i)
  /\ stale' = stale + 1
  /\ Stop(w)
  /\ UNCHANGED <<rows, log, operator, failures, operated, resent, crashes>>

Crash(w) ==
  /\ pc[w] # "idle"
  /\ crashes < MaxCrashes
  /\ crashes' = crashes + 1
  /\ Stop(w)
  /\ UNCHANGED <<rows, log, operator, failures, operated, resent, stale>>

(* publish-config-outbox-batch ends, or the worker is restarted, between two *)
(* batches; its producer's leftovers go with it                            *)
Exit(w) ==
  /\ pc[w] = "idle"
  /\ queue[w] # Empty
  /\ Stop(w)
  /\ UNCHANGED <<rows, log, operator, failures, operated, resent, crashes, stale>>

(***************************************************************************)
(* The backoffice: MarkConfigOutboxRetry and MarkConfigOutboxDeadLetter on  *)
(* any record, whatever its status and whoever holds it.                   *)
(***************************************************************************)
OperatorReads ==
  \E i \in Stored, verdict \in {"retry", "dead_letter"} :
    /\ operator = NoAction
    /\ operated[i] < MaxOperations
    /\ operator' = [ verdict |-> verdict, record |-> i, seen |-> Seen(i) ]
    /\ operated' = [operated EXCEPT ![i] = @ + 1]
    /\ UNCHANGED <<rows, publishers, queue, log, failures, resent, crashes, stale>>

(* A record deleted in between makes the request fail *)
OperatorWrites ==
  \E at \in {0, RetryDelay} :
    /\ operator # NoAction
    /\ LET i == operator.record IN
       rows' = IF i \in Stored
               THEN [rows EXCEPT ![i] = Marked(rows[i], operator.seen, operator.verdict, at)]
               ELSE rows
    /\ operator' = NoAction
    /\ UNCHANGED <<publishers, queue, log, failures, operated, resent, crashes, stale>>

(***************************************************************************)
(* Time.                                                                   *)
(***************************************************************************)
Sooner(t) == IF t > 0 THEN t - 1 ELSE 0

Tick ==
  /\ rows' = [i \in Record |->
       [rows[i] EXCEPT !.nextAttemptAt = Sooner(@),
                       !.leaseExpiresAt = IF @ = NoLease THEN @ ELSE Sooner(@)]]
  /\ age' = [w \in Publisher |->
               IF pc[w] # "idle" /\ age[w] < RetryDelay THEN age[w] + 1 ELSE age[w]]
  /\ UNCHANGED <<pc, batch, snapshot, outcome, seen, queue, log, operator, failures,
                 operated, resent, crashes, stale>>

Init ==
  /\ rows = [i \in Record |-> Blank("absent")]
  /\ pc = [w \in Publisher |-> "idle"]
  /\ batch = [w \in Publisher |-> {}]
  /\ snapshot = [w \in Publisher |-> Empty]
  /\ age = [w \in Publisher |-> 0]
  /\ outcome = [w \in Publisher |-> "none"]
  /\ seen = [w \in Publisher |-> Unread]
  /\ queue = [w \in Publisher |-> Empty]
  /\ log = <<>>
  /\ operator = NoAction
  /\ failures = Empty
  /\ operated = Empty
  /\ resent = Empty
  /\ crashes = 0
  /\ stale = 0

Next ==
  \/ StoreRendered
  \/ \E agent \in Agent : DeleteForAgent(agent)
  \/ OperatorReads
  \/ OperatorWrites
  \/ Tick
  \/ \E w \in Publisher :
       \/ ReserveAvailable(w)
       \/ MessageAcked(w)
       \/ MessageRefused(w)
       \/ MessageResent(w)
       \/ LateDelivery(w)
       \/ PublishReturns(w)
       \/ PublishRaises(w)
       \/ ReadRow(w)
       \/ WriteRow(w)
       \/ WriteStale(w)
       \/ Crash(w)
       \/ Exit(w)

Spec == Init /\ [][Next]_vars

(* publish-config-outbox-worker reserves in an endless loop, and its         *)
(* container is started again when it ends (compose.yaml, restart:         *)
(* unless-stopped); the -batch command need not be run again.  Each batch  *)
(* carries on, flush has a timeout.  Nothing makes the broker answer.      *)
Fairness ==
  /\ WF_vars(Tick)
  /\ \A w \in Polling : WF_vars(ReserveAvailable(w))
  /\ \A w \in Publisher : /\ WF_vars(PublishReturns(w) \/ PublishRaises(w))
                          /\ WF_vars(ReadRow(w))
                          /\ WF_vars(WriteRow(w) \/ WriteStale(w))

FairSpec == Spec /\ Fairness

(***************************************************************************)
(* Properties.                                                             *)
(***************************************************************************)
TypeOK ==
  /\ rows \in [Record -> Row]
  /\ pc \in [Publisher -> {"idle", "publish", "mark", "write"}]
  /\ batch \in [Publisher -> SUBSET Record]
  /\ snapshot \in [Publisher -> [Record -> Nat]]
  /\ age \in [Publisher -> Nat]
  /\ outcome \in [Publisher -> Verdict \cup {"none", "queued", "acked", "refused"}]
  /\ seen \in [Publisher -> Read]
  /\ queue \in [Publisher -> [Record -> Nat]]
  /\ log \in Seq(Record)
  /\ operator \in [ verdict : Verdict \cup {"none"}, record : Record, seen : Read ]
  /\ failures \in [Record -> Nat]
  /\ operated \in [Record -> Nat]
  /\ resent \in [Record -> Nat]
  /\ crashes \in Nat
  /\ stale \in Nat

Logged(i) == \E n \in DOMAIN log : log[n] = i

(* "published" is earned: whatever operators, timeouts and half-overwritten *)
(* rows do, a record that says so is in the topic.                         *)
PublishedWasLogged ==
  \A i \in Record : rows[i].status = "published" => Logged(i)

(* Without an operator a record is given up after MaxAttempts failures, not *)
(* one more or less, although the limit is tested on an old attempt_count. *)
DeadLetterIsExhausted ==
  \A i \in Record : operated[i] = 0 /\ rows[i].status = "dead_letter" =>
    failures[i] = MaxAttempts

Holders(i) == {w \in Publisher : i \in batch[w]}

(* Only an operator can put one record in the hands of several publishers,  *)
(* and one action of his adds one.                                         *)
HoldersAreBounded ==
  \A i \in Record : Cardinality(Holders(i)) <= 1 + operated[i]

(* Left inflight with nobody to mark it.  Nothing takes it up again. *)
Abandoned(i) == rows[i].status = "inflight" /\ Holders(i) = {}

(* Nobody but a publisher that ended in the middle of a batch abandons       *)
(* records.  A crash may cost the whole batch; the deletion of one agent    *)
(* under a mark costs what the batch holds besides, the records of others. *)
InflightIsHeld ==
  Cardinality({i \in Record : Abandoned(i)})
    <= crashes * BatchLimit + stale * (BatchLimit - 1)

Copies(i) == Cardinality({n \in DOMAIN log : log[n] = i})

(* Without an operator a record reaches Kafka at most once per attempt and   *)
(* lost acknowledgement, counting the copies that arrive after their publish *)
(* has timed out.                                                          *)
CopiesAreBounded ==
  \A i \in Record : operated[i] = 0 => Copies(i) <= MaxAttempts + resent[i]

(* Without an operator no published record is ever taken up again. *)
PublishedIsFinal ==
  [][\A i \in Record : rows[i].status = "published" /\ operated'[i] = 0 =>
       rows'[i].status \in {"published", "deleted"}]_vars

(* A record that was stored is one day published, given up or deleted,      *)
(* unless the publisher that had it has ended (InflightIsHeld).            *)
EventuallySettled ==
  \A i \in Record :
    i \in Stored ~> \/ rows[i].status \in {"published", "dead_letter", "deleted"}
                    \/ Abandoned(i)

(* ADR-010: an inflight record whose lease has expired returns to the retry *)
(* flow.  The only code that would do it has no caller.                    *)
ExpiredLeaseReturns ==
  \A i \in Record :
    rows[i].status = "inflight" /\ rows[i].leaseExpiresAt = 0 ~> rows[i].status # "inflight"

(* ADR-010: the Kafka key keeps the configs of one agent or source in order. *)
(* A record that has to be retried is overtaken by its successor.          *)
RevisionsKeepOrder ==
  \A m, n \in DOMAIN log :
    m < n /\ KafkaKey(log[m]) = KafkaKey(log[n]) => log[m] <= log[n]
=============================================================================
