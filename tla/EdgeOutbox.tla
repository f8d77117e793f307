----------------------------- MODULE EdgeOutbox -----------------------------
(***************************************************************************)
(* The SQLite delivery outbox of the Edge Telemetry Agent and the delivery *)
(* workers that drain it (infrastructure/sqlite_outbox.py,                 *)
(* application/delivery.py, infrastructure/mqtt_publisher.py).             *)
(*                                                                         *)
(* Several processes may share one SQLite file: a running source adapter   *)
(* and any number of `deliver-once` command lines.  Every method of        *)
(* SQLiteOutbox is one SQLite transaction, hence one action here; whatever *)
(* a worker does between two methods interleaves with the other workers.   *)
(*                                                                         *)
(* Instants are kept relative to the wall clock: a value is the number of  *)
(* seconds until the instant, Tick brings every instant one second nearer  *)
(* and instants further back than Horizon are all alike.  A worker may     *)
(* call deliver_once with a `now` that is not the wall clock (the source   *)
(* adapter passes the time of the observation), at an offset it picks from *)
(* NowOffset.                                                              *)
(*                                                                         *)
(* Messages travel at QoS 1: the client sends a message again until the    *)
(* broker's acknowledgement comes back, so one publish may be received     *)
(* several times.  The model keeps which attempts have been received, not  *)
(* how often.                                                              *)
(***************************************************************************)
EXTENDS Integers, Sequences, FiniteSets

CONSTANTS
  Worker,                   \* processes running a DeliveryWorker
  MaxEvents,                \* bound: events ever appended
  BatchLimit,               \* `limit` of reserve_batch
  LeaseSeconds,             \* `lease_seconds` of reserve_batch
  RetryBackoff,             \* delivery.mqtt.retry_backoff_seconds
  DeadLetterAfterAttempts,  \* storage.dead_letter_after_attempts
  NowOffset,                \* per worker, its possible `now` minus the wall clock
  Horizon,                  \* instants this far in the past are not told apart
  MaxCrashes,               \* bound: processes killed in the middle of a batch
  MaxQueued,                \* bound: messages all clients keep unacknowledged
  NoLease                   \* lease_expires_at IS NULL

Event == 1..MaxEvents       \* outbox ids, in AUTOINCREMENT order

ASSUME BoundsAssumption ==
  /\ MaxEvents \in Nat \ {0}
  /\ BatchLimit \in Nat \ {0}
  /\ MaxCrashes \in Nat
  /\ MaxQueued \in Nat
  /\ Horizon \in Nat

ASSUME SettingsAssumption ==
  /\ LeaseSeconds \in Nat
  /\ DeadLetterAfterAttempts \in Nat \ {0}
  /\ RetryBackoff \in Seq(Nat)

(* Clipping at Horizon is exact: no comparison tells clipped instants apart *)
ASSUME ClockAssumption ==
  /\ NowOffset \in [Worker -> SUBSET Int]
  /\ \A w \in Worker : \A t \in NowOffset[w] :
       /\ -Horizon <= t
       /\ \A k \in 1..Len(RetryBackoff) : RetryBackoff[k] - Horizon <= t

ASSUME NoLeaseAssumption == NoLease \notin Int

VARIABLES
  outbox,     \* the table: a row per event id, "absent" until it is inserted
  pc,         \* per worker: where its deliver_once is
  held,       \* per worker and event: attempt_count of the record it holds, or 0
  now,        \* per worker: the `timestamp` of its deliver_once
  queued,     \* per worker: copies its MQTT client has no acknowledgement for
  delivered,  \* copies the broker has received at least once
  crashes     \* processes killed so far (bounds the model)

vars == <<outbox, pc, held, now, queued, delivered, crashes>>

Status == {"absent", "pending", "inflight", "sent", "dead_letter"}

Row == [ status         : Status,
         availableAt    : Int,
         leaseExpiresAt : Int \cup {NoLease},
         attemptCount   : Nat ]

AbsentRow == [ status |-> "absent", availableAt |-> -Horizon,
               leaseExpiresAt |-> NoLease, attemptCount |-> 0 ]

(* A copy of event i is known by the attempt that sent it *)
Copy == Event \X (Nat \ {0})

None == [i \in Event |-> 0]

Stored == {i \in Event : outbox[i].status # "absent"}

(***************************************************************************)
(* SQLiteOutbox.  An operator marked "Fault" is no part of the model: it   *)
(* is a way the next definition could have been got wrong, kept to show    *)
(* which property would notice.                                            *)
(***************************************************************************)

(* append: a fresh event is inserted behind all the others.  available_at  *)
(* is the observation's time, at some worker's offset, or the wall clock.  *)
AppendEvent ==
  \E i \in Event, at \in {0} \cup UNION {NowOffset[w] : w \in Worker} :
    /\ outbox[i].status = "absent"
    /\ \A j \in Event : j < i => outbox[j].status # "absent"
    /\ outbox' = [outbox EXCEPT ![i] = [ status |-> "pending", availableAt |-> at,
                                         leaseExpiresAt |-> NoLease, attemptCount |-> 0 ]]
    /\ UNCHANGED <<pc, held, now, queued, delivered, crashes>>

(* Fault: the recovery looks for the wrong status and finds no row *)
ExpiredWrongStatus(i, t) ==
  /\ outbox[i].status = "pending"
  /\ outbox[i].leaseExpiresAt # NoLease
  /\ outbox[i].leaseExpiresAt <= t

Expired(i, t) ==
  /\ outbox[i].status = "inflight"
  /\ outbox[i].leaseExpiresAt # NoLease
  /\ outbox[i].leaseExpiresAt <= t

(* Fault: a recovered row keeps its lease *)
RecoveredOnLease(t) ==
  [i \in Event |-> IF Expired(i, t)
                  THEN [outbox[i] EXCEPT !.status = "pending", !.availableAt = t]
                  ELSE outbox[i]]

(* _recover_expired_inflight: the table with expired leases given back *)
Recovered(t) ==
  [i \in Event |->
     IF Expired(i, t)
     THEN [outbox[i] EXCEPT !.status = "pending", !.availableAt = t,
                            !.leaseExpiresAt = NoLease]
     ELSE outbox[i]]

(* Fault: whatever became available is due, settled or not *)
DueWhateverStatus(rows, t) ==
  {i \in Event : rows[i].status \notin {"absent", "inflight"} /\ rows[i].availableAt <= t}

Due(rows, t) ==
  {i \in Event : rows[i].status = "pending" /\ rows[i].availableAt <= t}

(* ORDER BY id ASC LIMIT limit *)
IsFirstOf(batch, due) ==
  /\ batch \subseteq due
  /\ \A i \in batch, j \in due \ batch : i < j
  /\ Cardinality(batch) = IF Cardinality(due) < BatchLimit
                          THEN Cardinality(due) ELSE BatchLimit

(* Fault: the attempt is not counted when the row is reserved *)
LeasedUncounted(row, t) ==
  [row EXCEPT !.status = "inflight", !.leaseExpiresAt = t + LeaseSeconds]

Leased(row, t) ==
  [ status |-> "inflight", availableAt |-> row.availableAt,
    leaseExpiresAt |-> t + LeaseSeconds, attemptCount |-> row.attemptCount + 1 ]

(* reserve_batch, the first step of deliver_once.  When nothing is due it   *)
(* returns without a change: whatever it recovers is due at once.           *)
ReserveBatch(w) ==
  \E t \in NowOffset[w] :
    LET rows == Recovered(t) IN
    \E batch \in SUBSET Due(rows, t) :
      /\ pc[w] = "idle"
      /\ batch # {}
      /\ IsFirstOf(batch, Due(rows, t))
      /\ outbox' = [i \in Event |->
                      IF i \in batch THEN Leased(rows[i], t) ELSE rows[i]]
      /\ held' = [held EXCEPT ![w] = [i \in Event |->
                    IF i \in batch THEN rows[i].attemptCount + 1 ELSE 0]]
      /\ now' = [now EXCEPT ![w] = t]
      /\ pc' = [pc EXCEPT ![w] = "publish"]
      /\ UNCHANGED <<queued, delivered, crashes>>

(* recover_expired_inflight called on its own, by the clock of a worker *)
RecoverExpiredInflight ==
  \E w \in Worker : \E t \in NowOffset[w] :
    /\ \E i \in Event : Expired(i, t)
    /\ outbox' = Recovered(t)
    /\ UNCHANGED <<pc, held, now, queued, delivered, crashes>>

(* The three outcomes: UPDATE ... WHERE id = ?, whatever the row's status   *)
(* and whoever holds its lease by now.                                      *)
SetSent(i) ==
  [outbox EXCEPT ![i].status = "sent", ![i].leaseExpiresAt = NoLease]

(* Fault: a status the edge schema does not know *)
SetRetryStatus(i, retryAt) ==
  [outbox EXCEPT ![i].status = "retry", ![i].availableAt = retryAt,
                 ![i].leaseExpiresAt = NoLease]

SetRetry(i, retryAt) ==
  [outbox EXCEPT ![i].status = "pending", ![i].availableAt = retryAt,
                 ![i].leaseExpiresAt = NoLease]

SetDeadLetter(i) ==
  [outbox EXCEPT ![i].status = "dead_letter", ![i].leaseExpiresAt = NoLease]

(***************************************************************************)
(* DeliveryWorker: the records of a batch in id order, each published and  *)
(* then marked.                                                            *)
(***************************************************************************)
Batch(w) == {i \in Event : held[w][i] > 0}

IsNext(w, i) == i \in Batch(w) /\ \A j \in Batch(w) : i <= j

RetryDelay(attempt) ==
  IF RetryBackoff = <<>> THEN 0
  ELSE RetryBackoff[IF attempt < Len(RetryBackoff) THEN attempt ELSE Len(RetryBackoff)]

Queued == UNION {queued[w] : w \in Worker}

Holding(w, i) == <<i, held[w][i]>>

(* publish returns: the broker has acknowledged the message (delivery.mqtt   *)
(* .qos is 1, the only value the bootstrap schema allows), which the client *)
(* may have sent more than once by then.                                    *)
PublishAcked(w) ==
  \E i \in Event :
    /\ pc[w] = "publish"
    /\ IsNext(w, i)
    /\ delivered' = delivered \cup {Holding(w, i)}
    /\ pc' = [pc EXCEPT ![w] = "acked"]
    /\ UNCHANGED <<outbox, held, now, queued, crashes>>

(* Fault: a publication that did not complete is taken for a success *)
PublishFailedUnnoticed(w) ==
  \E i \in Event :
    /\ pc[w] = "publish"
    /\ IsNext(w, i)
    /\ pc' = [pc EXCEPT ![w] = "acked"]
    /\ UNCHANGED <<outbox, held, now, queued, delivered, crashes>>

(* publish raises: the client never took the message, or it has it still   *)
(* (not connected, or the wait timed out) and goes on trying; the broker may *)
(* have received it already, with the acknowledgement lost on the way.      *)
PublishFailed(w) ==
  \E i \in Event :
    /\ pc[w] = "publish"
    /\ IsNext(w, i)
    /\ \/ UNCHANGED <<queued, delivered>>
       \/ /\ Cardinality(Queued) < MaxQueued
          /\ queued' = [queued EXCEPT ![w] = @ \cup {Holding(w, i)}]
          /\ delivered' \in {delivered, delivered \cup {Holding(w, i)}}
    /\ pc' = [pc EXCEPT ![w] = "failed"]
    /\ UNCHANGED <<outbox, held, now, crashes>>

(* The client sends a message whose publish gave up on it, be it for the    *)
(* first time or once more after a reconnect.  Either the acknowledgement   *)
(* comes back or the client keeps the message, to send it yet again.        *)
Transmit(w) ==
  \E copy \in queued[w] :
    /\ delivered' = delivered \cup {copy}
    /\ \/ queued' = queued
       \/ queued' = [queued EXCEPT ![w] = @ \ {copy}]
    /\ UNCHANGED <<outbox, pc, held, now, crashes>>

(* PahoMqttPublisher.close at the end of a run drops what is still queued *)
CloseClient(w) ==
  /\ pc[w] = "idle"
  /\ queued[w] # {}
  /\ queued' = [queued EXCEPT ![w] = {}]
  /\ UNCHANGED <<outbox, pc, held, now, delivered, crashes>>

(* The worker is done with record i: on to the next one, or to the next run *)
Release(w, i) ==
  /\ held' = [held EXCEPT ![w][i] = 0]
  /\ IF Batch(w) = {i}
     THEN pc' = [pc EXCEPT ![w] = "idle"] /\ now' = [now EXCEPT ![w] = 0]
     ELSE pc' = [pc EXCEPT ![w] = "publish"] /\ now' = now

MarkSent(w) ==
  \E i \in Event :
    /\ pc[w] = "acked"
    /\ IsNext(w, i)
    /\ outbox' = SetSent(i)
    /\ Release(w, i)
    /\ UNCHANGED <<queued, delivered, crashes>>

(* Fault: the attempt that has just failed is counted twice *)
ExhaustedEarly(attempt) == attempt + 1 >= DeadLetterAfterAttempts

Exhausted(attempt) == attempt >= DeadLetterAfterAttempts

(* _handle_failure: the limit and the delay both use the attempt_count read *)
(* when the batch was reserved, the delay counts from the batch's timestamp *)
HandleFailure(w) ==
  \E i \in Event :
    /\ pc[w] = "failed"
    /\ IsNext(w, i)
    /\ outbox' = IF Exhausted(held[w][i])
                 THEN SetDeadLetter(i)
                 ELSE SetRetry(i, now[w] + RetryDelay(held[w][i]))
    /\ Release(w, i)
    /\ UNCHANGED <<queued, delivered, crashes>>

(* The process dies, or an SQLite error outside publish ends its run, with  *)
(* records still in hand; its successor starts with nothing in memory.      *)
Crash(w) ==
  /\ pc[w] # "idle"
  /\ crashes < MaxCrashes
  /\ pc' = [pc EXCEPT ![w] = "idle"]
  /\ held' = [held EXCEPT ![w] = None]
  /\ now' = [now EXCEPT ![w] = 0]
  /\ queued' = [queued EXCEPT ![w] = {}]
  /\ crashes' = crashes + 1
  /\ UNCHANGED <<outbox, delivered>>

(***************************************************************************)
(* Time.                                                                   *)
(***************************************************************************)
Sooner(t) == IF t > -Horizon THEN t - 1 ELSE t

Tick ==
  /\ outbox' = [i \in Event |->
       [outbox[i] EXCEPT !.availableAt = Sooner(@),
                         !.leaseExpiresAt = IF @ = NoLease THEN @ ELSE Sooner(@)]]
  /\ now' = [w \in Worker |-> IF pc[w] = "idle" THEN now[w] ELSE Sooner(now[w])]
  /\ UNCHANGED <<pc, held, queued, delivered, crashes>>

Init ==
  /\ outbox = [i \in Event |-> AbsentRow]
  /\ pc = [w \in Worker |-> "idle"]
  /\ held = [w \in Worker |-> None]
  /\ now = [w \in Worker |-> 0]
  /\ queued = [w \in Worker |-> {}]
  /\ delivered = {}
  /\ crashes = 0

Next ==
  \/ AppendEvent
  \/ RecoverExpiredInflight
  \/ Tick
  \/ \E w \in Worker :
       \/ ReserveBatch(w)
       \/ PublishAcked(w)
       \/ PublishFailed(w)
       \/ Transmit(w)
       \/ CloseClient(w)
       \/ MarkSent(w)
       \/ HandleFailure(w)
       \/ Crash(w)

Spec == Init /\ [][Next]_vars

(* Time passes and a run that has begun carries on: publish comes back, if  *)
(* only by its timeout, and the outcome is marked.  Nothing makes anybody   *)
(* begin a run: deliver-once is one batch and an exit, and the adapter runs *)
(* after an observation it published.  Nor need the broker answer.          *)
Fairness ==
  /\ WF_vars(Tick)
  /\ \A w \in Worker : /\ WF_vars(PublishAcked(w) \/ PublishFailed(w))
                       /\ WF_vars(MarkSent(w) \/ HandleFailure(w))

FairSpec == Spec /\ Fairness

(***************************************************************************)
(* Properties.                                                             *)
(***************************************************************************)
TypeOK ==
  /\ outbox \in [Event -> Row]
  /\ pc \in [Worker -> {"idle", "publish", "acked", "failed"}]
  /\ held \in [Worker -> [Event -> Nat]]
  /\ now \in [Worker -> Int]
  /\ queued \in [Worker -> SUBSET Copy]
  /\ delivered \in SUBSET Copy
  /\ crashes \in Nat

(* mark_sent is earned: however workers interleave, time out and crash, a   *)
(* row that says "sent" is an event the broker has received.                *)
SentWasDelivered ==
  \A i \in Event : outbox[i].status = "sent" => \E copy \in delivered : copy[1] = i

(* An event is given up only after it was reserved as often as the settings *)
(* allow, although the worker that gives up may hold a stale attempt_count.  *)
DeadLetterIsExhausted ==
  \A i \in Event : outbox[i].status = "dead_letter" =>
    outbox[i].attemptCount >= DeadLetterAfterAttempts

(* A worker hands an attempt to its MQTT client once, and to no client      *)
(* before the table counts it: what a row's attempt_count does not account  *)
(* for are the client's own retransmissions, never a second publish.        *)
OnePublishPerAttempt ==
  /\ \A copy \in delivered \cup Queued :
       copy[2] <= outbox[copy[1]].attemptCount
  /\ \A w \in Worker, i \in Event : pc[w] = "publish" /\ IsNext(w, i) =>
       Holding(w, i) \notin delivered \cup Queued

(* reserve_batch never hands the same attempt to two workers: the same      *)
(* record may be in two hands after a lease ran out, never the same attempt. *)
AttemptHasOneHolder ==
  \A i \in Event : \A v, w \in Worker :
    held[v][i] = held[w][i] /\ held[v][i] > 0 => v = w

(* A record out on lease is out of everybody else's reach: an inflight row  *)
(* has a lease to run out, and any other row has none.                      *)
LeaseMeansInflight ==
  \A i \in Event : (outbox[i].status = "inflight") <=> (outbox[i].leaseExpiresAt # NoLease)

Settled(i) == outbox[i].status \in {"sent", "dead_letter"}

(* Whoever calls deliver_once now finds the event (if the batch has room)  *)
InReach(i) ==
  \A w \in Worker : \A t \in NowOffset[w] : i \in Due(Recovered(t), t)

(* An event never hangs: again and again it is settled or within the reach  *)
(* of every worker, whatever crashed with it, ran out of its lease or put   *)
(* off its retry (docs/contracts/edge-telemetry-agent/sqlite-storage.v1.md:89, 106). *)
NeverOutOfReach ==
  \A i \in Event : (i \in Stored) ~> (Settled(i) \/ InReach(i))

(* A sent row is final unless somebody still holds it: only a worker whose  *)
(* lease ran out in mid-flight can reopen an event that was already sent.   *)
SentIsFinal ==
  [][\A i \in Event :
       outbox[i].status = "sent" /\ (\A w \in Worker : held[w][i] = 0)
         => outbox'[i].status = "sent"]_vars

(* The promise of EventDelivery, kept by the table and its workers: the     *)
(* outcome is the row's status, a try is a reservation.                     *)
Outcome(status) ==
  CASE status = "absent" -> "none"
    [] status \in {"pending", "inflight"} -> "open"
    [] OTHER -> status

Delivery == INSTANCE EventDelivery
  WITH Budget   <- DeadLetterAfterAttempts,
       outcome  <- [i \in Event |-> Outcome(outbox[i].status)],
       tries    <- [i \in Event |-> outbox[i].attemptCount],
       received <- delivered

ImplementsDelivery == Delivery!Spec

(***************************************************************************)
(* Why it works: what relates the table, the workers' memory and the       *)
(* copies in flight, whatever the interleaving.                            *)
(***************************************************************************)
(* No worker holds an attempt the table has not counted *)
HeldIsCounted ==
  \A i \in Event :
    /\ outbox[i].status = "absent" => outbox[i].attemptCount = 0
    /\ \A w \in Worker : held[w][i] <= outbox[i].attemptCount

IdleHoldsNothing ==
  \A w \in Worker : (pc[w] = "idle") <=> (Batch(w) = {})

AckedHasArrived ==
  \A w \in Worker, i \in Event :
    pc[w] = "acked" /\ IsNext(w, i) => Holding(w, i) \in delivered

(* What a worker has yet to publish nobody has published *)
UnpublishedIsFresh ==
  \A w \in Worker : \A i \in Batch(w) :
    pc[w] = "publish" \/ ~IsNext(w, i) => Holding(w, i) \notin delivered \cup Queued

CopyIsCounted ==
  \A copy \in delivered \cup Queued : copy[2] <= outbox[copy[1]].attemptCount

(* A message is in the memory of one client *)
CopyHasOneClient ==
  \A v \in Worker : \A w \in Worker \ {v} : queued[v] \cap queued[w] = {}

(* Nobody settles a record on its first attempt but the one who holds it *)
FirstAttemptIsOpen ==
  \A w \in Worker : \A i \in Batch(w) :
    outbox[i].attemptCount = 1 => outbox[i].status \in {"pending", "inflight"}

IndInv ==
  /\ TypeOK
  /\ LeaseMeansInflight
  /\ HeldIsCounted
  /\ IdleHoldsNothing
  /\ AckedHasArrived
  /\ SentWasDelivered
  /\ DeadLetterIsExhausted
  /\ AttemptHasOneHolder
  /\ UnpublishedIsFresh
  /\ CopyIsCounted
  /\ CopyHasOneClient
  /\ FirstAttemptIsOpen
=============================================================================
