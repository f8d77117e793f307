-------------------------- MODULE EdgeOutboxProofs --------------------------
(***************************************************************************)
(* Theorems about EdgeOutbox for every number of workers and events, every *)
(* setting and every clock: its types, its safety properties, and that it  *)
(* keeps the promise of EventDelivery.                                     *)
(***************************************************************************)
EXTENDS EdgeOutbox, TLAPS

USE DEF Holding

(* The delay before a retry is a number of seconds, whatever the settings *)
LEMMA RetryDelayType ==
  ASSUME NEW attempt \in Nat \ {0}
  PROVE  RetryDelay(attempt) \in Nat
<1>1. CASE RetryBackoff = <<>>
  BY <1>1 DEF RetryDelay
<1>2. CASE RetryBackoff # <<>>
  <2>1. Len(RetryBackoff) \in Nat \ {0}
    BY <1>2, SettingsAssumption
  <2>2. (IF attempt < Len(RetryBackoff) THEN attempt ELSE Len(RetryBackoff))
           \in 1..Len(RetryBackoff)
    BY <2>1
  <2>3. QED
    BY <1>2, <2>2, SettingsAssumption DEF RetryDelay
<1>3. QED
  BY <1>1, <1>2

(* Time moves an instant to another integer *)
LEMMA SoonerType ==
  ASSUME NEW t \in Int
  PROVE  Sooner(t) \in Int
BY BoundsAssumption DEF Sooner

(* A worker's clock shows an integer, which is not the absent lease *)
LEMMA ClockType ==
  /\ NoLease \notin Int
  /\ \A w \in Worker : NowOffset[w] \subseteq Int
  /\ LeaseSeconds \in Nat
BY NoLeaseAssumption, ClockAssumption, SettingsAssumption

(***************************************************************************)
(* What the statements of SQLiteOutbox do to a row.                        *)
(***************************************************************************)

(* Giving expired leases back touches inflight rows only, and no count *)
LEMMA RecoveredRows ==
  ASSUME TypeOK, NEW t \in Int
  PROVE  /\ Recovered(t) \in [Event -> Row]
         /\ \A i \in Event :
              /\ Recovered(t)[i].attemptCount = outbox[i].attemptCount
              /\ \/ Recovered(t)[i] = outbox[i]
                 \/ /\ outbox[i].status = "inflight"
                    /\ Recovered(t)[i].status = "pending"
                    /\ Recovered(t)[i].leaseExpiresAt = NoLease
<1>1. \A i \in Event : outbox[i] \in Row
  BY DEF TypeOK
<1>2. ASSUME NEW i \in Event, Expired(i, t)
      PROVE  /\ Recovered(t)[i] \in Row
             /\ Recovered(t)[i].attemptCount = outbox[i].attemptCount
             /\ outbox[i].status = "inflight"
             /\ Recovered(t)[i].status = "pending"
             /\ Recovered(t)[i].leaseExpiresAt = NoLease
  <2>1. Recovered(t)[i] = [outbox[i] EXCEPT !.status = "pending", !.availableAt = t,
                                           !.leaseExpiresAt = NoLease]
    BY <1>2 DEF Recovered
  <2>2. outbox[i].status = "inflight"
    BY <1>2 DEF Expired
  <2>3. QED
    BY <1>1, <2>1, <2>2 DEF Row, Status
<1>3. ASSUME NEW i \in Event, ~Expired(i, t) PROVE Recovered(t)[i] = outbox[i]
  BY <1>3 DEF Recovered
<1>4. Recovered(t) = [i \in Event |-> Recovered(t)[i]]
  BY DEF Recovered
<1>5. QED
  BY <1>1, <1>2, <1>3, <1>4

(* Reserving a row puts it on lease and counts an attempt *)
LEMMA LeasedRow ==
  ASSUME NEW r \in Row, NEW t \in Int
  PROVE  /\ Leased(r, t) \in Row
         /\ Leased(r, t).status = "inflight"
         /\ Leased(r, t).leaseExpiresAt # NoLease
         /\ Leased(r, t).attemptCount = r.attemptCount + 1
<1>1. t + LeaseSeconds \in Int /\ t + LeaseSeconds # NoLease
  BY ClockType
<1>2. r.attemptCount \in Nat /\ r.availableAt \in Int
  BY DEF Row
<1>3. QED
  BY <1>1, <1>2 DEF Leased, Row, Status

(* Each of the three marks sets a status and drops the lease of one row *)
LEMMA SetSentRow ==
  ASSUME TypeOK, NEW i \in Event
  PROVE  /\ SetSent(i) \in [Event -> Row]
         /\ SetSent(i)[i].status = "sent"
         /\ SetSent(i)[i].leaseExpiresAt = NoLease
         /\ SetSent(i)[i].attemptCount = outbox[i].attemptCount
         /\ \A j \in Event \ {i} : SetSent(i)[j] = outbox[j]
<1> DEFINE Marked == [outbox[i] EXCEPT !.status = "sent", !.leaseExpiresAt = NoLease]
<1>1. outbox \in [Event -> Row] /\ outbox[i] \in Row
  BY DEF TypeOK
<1>2. SetSent(i) = [outbox EXCEPT ![i] = Marked]
  BY <1>1 DEF SetSent, Row
<1>3. /\ Marked \in Row /\ Marked.status = "sent" /\ Marked.leaseExpiresAt = NoLease
      /\ Marked.attemptCount = outbox[i].attemptCount
  BY <1>1 DEF Row, Status
<1> HIDE DEF Marked
<1>4. QED
  BY <1>1, <1>2, <1>3

LEMMA SetRetryRow ==
  ASSUME TypeOK, NEW i \in Event, NEW at \in Int
  PROVE  /\ SetRetry(i, at) \in [Event -> Row]
         /\ SetRetry(i, at)[i].status = "pending"
         /\ SetRetry(i, at)[i].leaseExpiresAt = NoLease
         /\ SetRetry(i, at)[i].attemptCount = outbox[i].attemptCount
         /\ \A j \in Event \ {i} : SetRetry(i, at)[j] = outbox[j]
<1> DEFINE Marked == [outbox[i] EXCEPT !.status = "pending", !.availableAt = at,
                                        !.leaseExpiresAt = NoLease]
<1>1. outbox \in [Event -> Row] /\ outbox[i] \in Row
  BY DEF TypeOK
<1>2. SetRetry(i, at) = [outbox EXCEPT ![i] = Marked]
  BY <1>1 DEF SetRetry, Row
<1>3. /\ Marked \in Row /\ Marked.status = "pending" /\ Marked.leaseExpiresAt = NoLease
      /\ Marked.attemptCount = outbox[i].attemptCount
  BY <1>1 DEF Row, Status
<1> HIDE DEF Marked
<1>4. QED
  BY <1>1, <1>2, <1>3

LEMMA SetDeadLetterRow ==
  ASSUME TypeOK, NEW i \in Event
  PROVE  /\ SetDeadLetter(i) \in [Event -> Row]
         /\ SetDeadLetter(i)[i].status = "dead_letter"
         /\ SetDeadLetter(i)[i].leaseExpiresAt = NoLease
         /\ SetDeadLetter(i)[i].attemptCount = outbox[i].attemptCount
         /\ \A j \in Event \ {i} : SetDeadLetter(i)[j] = outbox[j]
<1> DEFINE Marked == [outbox[i] EXCEPT !.status = "dead_letter", !.leaseExpiresAt = NoLease]
<1>1. outbox \in [Event -> Row] /\ outbox[i] \in Row
  BY DEF TypeOK
<1>2. SetDeadLetter(i) = [outbox EXCEPT ![i] = Marked]
  BY <1>1 DEF SetDeadLetter, Row
<1>3. /\ Marked \in Row /\ Marked.status = "dead_letter" /\ Marked.leaseExpiresAt = NoLease
      /\ Marked.attemptCount = outbox[i].attemptCount
  BY <1>1 DEF Row, Status
<1> HIDE DEF Marked
<1>4. QED
  BY <1>1, <1>2, <1>3

(***************************************************************************)
(* Types.                                                                  *)
(***************************************************************************)
LEMMA TypeInit == Init => TypeOK
BY BoundsAssumption DEF Init, TypeOK, AbsentRow, Row, Status, None

LEMMA TypeNext == TypeOK /\ [Next]_vars => TypeOK'
<1> SUFFICES ASSUME TypeOK, [Next]_vars PROVE TypeOK'
  OBVIOUS
<1> USE DEF TypeOK
<1>1. CASE AppendEvent
  <2>1. PICK i \in Event, at \in {0} \cup UNION {NowOffset[w] : w \in Worker} :
          outbox' = [outbox EXCEPT ![i] = [ status |-> "pending", availableAt |-> at,
                                            leaseExpiresAt |-> NoLease, attemptCount |-> 0 ]]
    BY <1>1 DEF AppendEvent
  <2>2. at \in Int
    BY ClockType
  <2>3. outbox' \in [Event -> Row]
    BY <2>1, <2>2 DEF Row, Status
  <2>4. QED
    BY <1>1, <2>3 DEF AppendEvent
<1>2. CASE RecoverExpiredInflight
  <2>1. PICK t \in Int : outbox' = Recovered(t)
    BY <1>2, ClockType DEF RecoverExpiredInflight
  <2>2. outbox' \in [Event -> Row]
    BY <2>1, RecoveredRows
  <2>3. QED
    BY <1>2, <2>2 DEF RecoverExpiredInflight
<1>3. CASE Tick
  <2>1. outbox' \in [Event -> Row]
    BY <1>3, SoonerType DEF Tick, Row
  <2>2. now' \in [Worker -> Int]
    BY <1>3, SoonerType DEF Tick
  <2>3. QED
    BY <1>3, <2>1, <2>2 DEF Tick
<1>4. ASSUME NEW w \in Worker, ReserveBatch(w) PROVE TypeOK'
  <2>1. PICK t \in Int, batch \in SUBSET Event :
          /\ outbox' = [i \in Event |-> IF i \in batch THEN Leased(Recovered(t)[i], t)
                                        ELSE Recovered(t)[i]]
          /\ held' = [held EXCEPT ![w] = [i \in Event |->
                        IF i \in batch THEN Recovered(t)[i].attemptCount + 1 ELSE 0]]
          /\ now' = [now EXCEPT ![w] = t]
          /\ pc' = [pc EXCEPT ![w] = "publish"]
          /\ UNCHANGED <<queued, delivered, crashes>>
    BY <1>4, ClockType DEF ReserveBatch, Due
  <2>2. \A i \in Event : Recovered(t)[i] \in Row
    BY RecoveredRows
  <2>3. outbox' \in [Event -> Row]
    BY <2>1, <2>2, LeasedRow
  <2>4. held' \in [Worker -> [Event -> Nat]]
    BY <2>1, <2>2 DEF Row
  <2>5. QED
    BY <2>1, <2>3, <2>4
<1>5. ASSUME NEW w \in Worker, PublishAcked(w) PROVE TypeOK'
  BY <1>5 DEF PublishAcked, IsNext, Batch, Copy
<1>6. ASSUME NEW w \in Worker, PublishFailed(w) PROVE TypeOK'
  BY <1>6 DEF PublishFailed, IsNext, Batch, Copy
<1>7. ASSUME NEW w \in Worker, Transmit(w) PROVE TypeOK'
  BY <1>7 DEF Transmit
<1>8. ASSUME NEW w \in Worker, CloseClient(w) PROVE TypeOK'
  BY <1>8 DEF CloseClient
<1>9. ASSUME NEW w \in Worker, MarkSent(w) PROVE TypeOK'
  <2>1. PICK i \in Event : /\ outbox' = SetSent(i) /\ Release(w, i)
                           /\ UNCHANGED <<queued, delivered, crashes>>
    BY <1>9 DEF MarkSent
  <2>2. outbox' \in [Event -> Row]
    BY <2>1, SetSentRow
  <2>3. QED
    BY <2>1, <2>2 DEF Release
<1>10. ASSUME NEW w \in Worker, HandleFailure(w) PROVE TypeOK'
  <2>1. PICK i \in Event :
          /\ IsNext(w, i)
          /\ outbox' = IF Exhausted(held[w][i])
                       THEN SetDeadLetter(i)
                       ELSE SetRetry(i, now[w] + RetryDelay(held[w][i]))
          /\ Release(w, i)
          /\ UNCHANGED <<queued, delivered, crashes>>
    BY <1>10 DEF HandleFailure
  <2>2. now[w] + RetryDelay(held[w][i]) \in Int
    BY <2>1, RetryDelayType DEF IsNext, Batch
  <2>3. outbox' \in [Event -> Row]
    BY <2>1, <2>2, SetRetryRow, SetDeadLetterRow DEF Exhausted
  <2>4. QED
    BY <2>1, <2>3 DEF Release, Exhausted
<1>11. ASSUME NEW w \in Worker, Crash(w) PROVE TypeOK'
  BY <1>11 DEF Crash, None
<1>12. CASE UNCHANGED vars
  BY <1>12 DEF vars
<1>13. QED
  BY <1>1, <1>2, <1>3, <1>4, <1>5, <1>6, <1>7, <1>8, <1>9, <1>10, <1>11, <1>12 DEF Next

(* The table, the workers' memory and the copies in flight keep their types *)
THEOREM TypeCorrect == Spec => []TypeOK
<1>1. Init => TypeOK
  BY TypeInit
<1>2. TypeOK /\ [Next]_vars => TypeOK'
  BY TypeNext
<1>3. QED
  BY <1>1, <1>2, PTL DEF Spec

(***************************************************************************)
(* The inductive invariant.                                                *)
(***************************************************************************)
LEMMA IndInit == Init => IndInv
<1> SUFFICES ASSUME Init PROVE IndInv
  OBVIOUS
<1>1. TypeOK
  BY TypeInit
<1>2. \A i \in Event : outbox[i] = AbsentRow
  BY DEF Init
<1>3. /\ LeaseMeansInflight /\ SentWasDelivered /\ DeadLetterIsExhausted
  BY <1>2 DEF LeaseMeansInflight, SentWasDelivered, DeadLetterIsExhausted, AbsentRow
<1>4. \A w \in Worker : held[w] = None /\ pc[w] = "idle" /\ queued[w] = {} /\ Batch(w) = {}
  BY DEF Init, Batch, None
<1>5. delivered = {} /\ Queued = {}
  BY <1>4 DEF Init, Queued
<1>6. HeldIsCounted /\ AttemptHasOneHolder
  BY <1>2, <1>4 DEF HeldIsCounted, AttemptHasOneHolder, AbsentRow, None
<1>7. IdleHoldsNothing /\ AckedHasArrived /\ UnpublishedIsFresh /\ FirstAttemptIsOpen
  BY <1>4 DEF IdleHoldsNothing, AckedHasArrived, UnpublishedIsFresh, FirstAttemptIsOpen
<1>8. CopyIsCounted /\ CopyHasOneClient
  BY <1>4, <1>5 DEF CopyIsCounted, CopyHasOneClient
<1>9. QED
  BY <1>1, <1>3, <1>6, <1>7, <1>8 DEF IndInv

(* A step that changes rows only, keeping counts and settling nothing, such *)
(* as an insertion, a recovery or the passing of time.                      *)
LEMMA TableOnly ==
  ASSUME IndInv, TypeOK',
         UNCHANGED <<pc, held, queued, delivered>>,
         LeaseMeansInflight',
         \A i \in Event :
           /\ outbox'[i].attemptCount = outbox[i].attemptCount
           /\ outbox[i].status = "absent" => outbox[i].attemptCount = 0
           /\ outbox'[i].status \in {"absent", "sent", "dead_letter"} =>
                outbox'[i].status = outbox[i].status
  PROVE  IndInv'
<1>1. /\ Queued' = Queued
      /\ \A w \in Worker : Batch(w)' = Batch(w)
      /\ \A w \in Worker, i \in Event : IsNext(w, i)' = IsNext(w, i)
  BY DEF Queued, Batch, IsNext
<1>2. HeldIsCounted' /\ SentWasDelivered' /\ DeadLetterIsExhausted' /\ AttemptHasOneHolder'
  BY DEF IndInv, HeldIsCounted, SentWasDelivered, DeadLetterIsExhausted, AttemptHasOneHolder
<1>3. IdleHoldsNothing' /\ AckedHasArrived' /\ UnpublishedIsFresh'
  <2>1. IdleHoldsNothing'
    BY <1>1 DEF IndInv, IdleHoldsNothing
  <2>2. AckedHasArrived'
    BY <1>1 DEF IndInv, AckedHasArrived
  <2>3. UnpublishedIsFresh'
    BY <1>1 DEF IndInv, UnpublishedIsFresh, Batch
  <2>4. QED
    BY <2>1, <2>2, <2>3
<1>4. CopyIsCounted'
  <2>1. \A copy \in delivered \cup Queued : copy[1] \in Event
    BY DEF IndInv, TypeOK, Queued, Copy
  <2>2. QED
    BY <1>1, <2>1 DEF IndInv, CopyIsCounted
<1>5. CopyHasOneClient'
  BY DEF IndInv, CopyHasOneClient
<1>6. FirstAttemptIsOpen'
  <2> SUFFICES ASSUME NEW w \in Worker, NEW i \in Batch(w),
                      outbox'[i].attemptCount = 1
               PROVE  outbox'[i].status \in {"pending", "inflight"}
    BY <1>1 DEF FirstAttemptIsOpen
  <2>1. i \in Event /\ outbox[i].status \in {"pending", "inflight"}
    BY DEF IndInv, FirstAttemptIsOpen, Batch
  <2>2. outbox'[i].status \in Status
    BY <2>1 DEF TypeOK, Row
  <2>3. QED
    BY <2>1, <2>2 DEF Status
<1>7. QED
  BY <1>2, <1>3, <1>4, <1>5, <1>6 DEF IndInv

LEMMA IndAppend ==
  ASSUME IndInv, AppendEvent, TypeOK' PROVE IndInv'
<1>1. PICK i \in Event, at \in {0} \cup UNION {NowOffset[w] : w \in Worker} :
        /\ outbox[i].status = "absent"
        /\ outbox' = [outbox EXCEPT ![i] = [ status |-> "pending", availableAt |-> at,
                                          leaseExpiresAt |-> NoLease, attemptCount |-> 0 ]]
  BY DEF AppendEvent
<1>2. \A j \in Event : outbox[j].status = "absent" => outbox[j].attemptCount = 0
  BY DEF IndInv, HeldIsCounted
<1>3. /\ outbox'[i].status = "pending" /\ outbox'[i].leaseExpiresAt = NoLease
      /\ outbox'[i].attemptCount = outbox[i].attemptCount
      /\ \A j \in Event \ {i} : outbox'[j] = outbox[j]
  BY <1>1, <1>2 DEF IndInv, TypeOK
<1>4. LeaseMeansInflight'
  BY <1>3 DEF IndInv, LeaseMeansInflight
<1>5. \A j \in Event : /\ outbox'[j].attemptCount = outbox[j].attemptCount
                       /\ outbox'[j].status \in {"absent", "sent", "dead_letter"} =>
                            outbox'[j].status = outbox[j].status
  BY <1>3
<1>6. UNCHANGED <<pc, held, queued, delivered>>
  BY DEF AppendEvent
<1>7. QED
  BY <1>2, <1>4, <1>5, <1>6, TableOnly

LEMMA IndRecover ==
  ASSUME IndInv, RecoverExpiredInflight, TypeOK' PROVE IndInv'
<1>1. PICK t \in Int : outbox' = Recovered(t)
  BY ClockType DEF RecoverExpiredInflight
<1>2. \A i \in Event :
        /\ outbox'[i].attemptCount = outbox[i].attemptCount
        /\ \/ outbox'[i] = outbox[i]
           \/ outbox'[i].status = "pending" /\ outbox'[i].leaseExpiresAt = NoLease
  BY <1>1, RecoveredRows DEF IndInv
<1>3. LeaseMeansInflight'
  BY <1>2 DEF IndInv, LeaseMeansInflight
<1>4. UNCHANGED <<pc, held, queued, delivered>>
  BY DEF RecoverExpiredInflight
<1>5. \A j \in Event : outbox[j].status = "absent" => outbox[j].attemptCount = 0
  BY DEF IndInv, HeldIsCounted
<1>6. \A j \in Event : outbox'[j].status \in {"absent", "sent", "dead_letter"} =>
                         outbox'[j].status = outbox[j].status
  BY <1>2
<1>7. QED
  BY <1>2, <1>3, <1>4, <1>5, <1>6, TableOnly

LEMMA IndTick ==
  ASSUME IndInv, Tick, TypeOK' PROVE IndInv'
<1>1. \A i \in Event : outbox[i] \in Row
  BY DEF IndInv, TypeOK
<1>2. \A i \in Event :
        /\ outbox'[i].status = outbox[i].status
        /\ outbox'[i].attemptCount = outbox[i].attemptCount
        /\ outbox'[i].leaseExpiresAt = IF outbox[i].leaseExpiresAt = NoLease
                                       THEN NoLease ELSE Sooner(outbox[i].leaseExpiresAt)
  BY <1>1 DEF Tick, Row
<1>3. \A i \in Event : outbox'[i].leaseExpiresAt = NoLease <=> outbox[i].leaseExpiresAt = NoLease
  <2> TAKE i \in Event
  <2>1. CASE outbox[i].leaseExpiresAt = NoLease
    BY <1>2, <2>1
  <2>2. CASE outbox[i].leaseExpiresAt # NoLease
    <3>1. Sooner(outbox[i].leaseExpiresAt) \in Int
      BY <1>1, <2>2, SoonerType DEF Row
    <3>2. QED
      BY <1>2, <2>2, <3>1, ClockType
  <2>3. QED
    BY <2>1, <2>2
<1>4. LeaseMeansInflight'
  BY <1>2, <1>3 DEF IndInv, LeaseMeansInflight
<1>5. UNCHANGED <<pc, held, queued, delivered>>
  BY DEF Tick
<1>6. \A j \in Event : outbox[j].status = "absent" => outbox[j].attemptCount = 0
  BY DEF IndInv, HeldIsCounted
<1>7. QED
  BY <1>2, <1>4, <1>5, <1>6, TableOnly

(* A worker is done with one record: it settles it or puts it up for retry, *)
(* whatever other workers hold of it.                                       *)
LEMMA RecordDone ==
  ASSUME IndInv, TypeOK', NEW w \in Worker, NEW i \in Event,
         IsNext(w, i), Release(w, i), pc[w] # "idle",
         UNCHANGED <<queued, delivered>>,
         \A j \in Event \ {i} : outbox'[j] = outbox[j],
         outbox'[i].leaseExpiresAt = NoLease,
         outbox'[i].attemptCount = outbox[i].attemptCount,
         \/ outbox'[i].status = "pending"
         \/ outbox'[i].status = "sent" /\ \E copy \in delivered : copy[1] = i
         \/ outbox'[i].status = "dead_letter" /\ outbox[i].attemptCount >= DeadLetterAfterAttempts
  PROVE  IndInv'
<1>1. /\ held'[w] = [held[w] EXCEPT ![i] = 0]
      /\ \A v \in Worker \ {w} : held'[v] = held[v] /\ pc'[v] = pc[v]
      /\ Batch(w) = {i} => pc'[w] = "idle"
      /\ Batch(w) # {i} => pc'[w] = "publish"
  BY DEF IndInv, TypeOK, Release
<1>2. /\ i \in Batch(w)
      /\ Batch(w)' = Batch(w) \ {i}
      /\ \A v \in Worker \ {w} : Batch(v)' = Batch(v)
      /\ \A v \in Worker \ {w}, j \in Event : IsNext(v, j)' = IsNext(v, j)
      /\ \A v \in Worker, j \in Event : held'[v][j] = IF v = w /\ j = i THEN 0 ELSE held[v][j]
  BY <1>1 DEF IndInv, TypeOK, Batch, IsNext
<1>3. \A j \in Event : outbox'[j].attemptCount = outbox[j].attemptCount
  OBVIOUS
<1>4. Queued' = Queued
  BY DEF Queued
<1>5. LeaseMeansInflight'
  BY DEF IndInv, LeaseMeansInflight
<1>6. HeldIsCounted'
  <2>1. \A j \in Event : outbox'[j].status = "absent" => outbox'[j].attemptCount = 0
    BY DEF IndInv, HeldIsCounted
  <2>2. \A j \in Event, v \in Worker : held'[v][j] <= outbox'[j].attemptCount
    <3> TAKE j \in Event, v \in Worker
    <3>1. held[v][j] <= outbox[j].attemptCount /\ outbox[j].attemptCount \in Nat
      BY DEF IndInv, HeldIsCounted, TypeOK, Row
    <3>2. held'[v][j] \in {0, held[v][j]}
      BY <1>2
    <3>3. QED
      BY <1>3, <3>1, <3>2
  <2>3. QED
    BY <2>1, <2>2 DEF HeldIsCounted
<1>7. IdleHoldsNothing'
  <2>1. \A v \in Worker : (pc'[v] = "idle") <=> (Batch(v)' = {})
    <3> TAKE v \in Worker
    <3>1. CASE v = w
      BY <1>1, <1>2, <3>1
    <3>2. CASE v # w
      BY <1>1, <1>2, <3>2 DEF IndInv, IdleHoldsNothing
    <3>3. QED
      BY <3>1, <3>2
  <2>2. QED
    BY <2>1 DEF IdleHoldsNothing
<1>8. AckedHasArrived'
  BY <1>1, <1>2 DEF IndInv, AckedHasArrived
<1>9. SentWasDelivered'
  BY DEF IndInv, SentWasDelivered
<1>10. DeadLetterIsExhausted'
  BY DEF IndInv, DeadLetterIsExhausted
<1>11. AttemptHasOneHolder'
  BY <1>2 DEF IndInv, AttemptHasOneHolder
<1>12. UnpublishedIsFresh'
  <2> SUFFICES ASSUME NEW v \in Worker, NEW j \in Batch(v)',
                      pc'[v] = "publish" \/ ~IsNext(v, j)'
               PROVE  <<j, held'[v][j]>> \notin delivered \cup Queued
    BY <1>4 DEF UnpublishedIsFresh
  <2>1. CASE v = w
    <3>1. j \in Batch(w) /\ j # i
      BY <1>2, <2>1
    <3>2. ~IsNext(w, j)
      BY <3>1 DEF IsNext, Batch, Event
    <3>3. <<j, held[w][j]>> \notin delivered \cup Queued
      BY <3>1, <3>2 DEF IndInv, UnpublishedIsFresh
    <3>4. QED
      BY <1>2, <2>1, <3>1, <3>3 DEF Batch
  <2>2. CASE v # w
    <3>1. j \in Batch(v) /\ held'[v][j] = held[v][j]
      BY <1>1, <1>2, <2>2
    <3>2. pc[v] = "publish" \/ ~IsNext(v, j)
      BY <1>1, <1>2, <2>2, <3>1 DEF Batch
    <3>3. QED
      BY <3>1, <3>2 DEF IndInv, UnpublishedIsFresh
  <2>3. QED
    BY <2>1, <2>2
<1>13. CopyIsCounted'
  <2>1. \A copy \in delivered \cup Queued : copy[1] \in Event
    BY DEF IndInv, TypeOK, Queued, Copy
  <2>2. QED
    BY <1>3, <1>4, <2>1 DEF IndInv, CopyIsCounted
<1>14. CopyHasOneClient'
  BY DEF IndInv, CopyHasOneClient
<1>15. FirstAttemptIsOpen'
  <2> SUFFICES ASSUME NEW v \in Worker, NEW j \in Batch(v)', outbox'[j].attemptCount = 1
               PROVE  outbox'[j].status \in {"pending", "inflight"}
    BY DEF FirstAttemptIsOpen
  <2>1. j \in Batch(v) /\ j \in Event /\ outbox[j].attemptCount = 1
    BY <1>2, <1>3 DEF Batch
  <2>2. CASE j = i
    <3>1. v # w
      BY <1>2, <2>2
    <3>2. held[v][i] \in Nat /\ held[v][i] > 0 /\ held[v][i] <= 1
      BY <2>1, <2>2 DEF Batch, IndInv, TypeOK, HeldIsCounted
    <3>3. held[w][i] \in Nat /\ held[w][i] > 0 /\ held[w][i] <= 1
      BY <1>2, <2>1, <2>2 DEF Batch, IndInv, TypeOK, HeldIsCounted
    <3>4. held[v][i] = held[w][i]
      BY <3>2, <3>3
    <3>5. QED
      BY <3>1, <3>2, <3>4 DEF IndInv, AttemptHasOneHolder
  <2>3. CASE j # i
    BY <2>1, <2>3 DEF IndInv, FirstAttemptIsOpen
  <2>4. QED
    BY <2>2, <2>3
<1>16. QED
  BY <1>5, <1>6, <1>7, <1>8, <1>9, <1>10, <1>11, <1>12, <1>13, <1>14, <1>15 DEF IndInv

LEMMA IndMarkSent ==
  ASSUME IndInv, NEW w \in Worker, MarkSent(w), TypeOK' PROVE IndInv'
<1>1. PICK i \in Event : /\ pc[w] = "acked" /\ IsNext(w, i) /\ Release(w, i)
                         /\ outbox' = SetSent(i)
                         /\ UNCHANGED <<queued, delivered, crashes>>
  BY DEF MarkSent
<1>2. <<i, held[w][i]>> \in delivered
  BY <1>1 DEF IndInv, AckedHasArrived
<1>3. /\ outbox'[i].status = "sent" /\ outbox'[i].leaseExpiresAt = NoLease
      /\ outbox'[i].attemptCount = outbox[i].attemptCount
      /\ \A j \in Event \ {i} : outbox'[j] = outbox[j]
  BY <1>1, SetSentRow DEF IndInv
<1>4. \E copy \in delivered : copy[1] = i
  BY <1>2
<1>5. QED
  BY <1>1, <1>3, <1>4, RecordDone

LEMMA IndHandleFailure ==
  ASSUME IndInv, NEW w \in Worker, HandleFailure(w), TypeOK' PROVE IndInv'
<1>1. PICK i \in Event : /\ pc[w] = "failed" /\ IsNext(w, i) /\ Release(w, i)
                         /\ outbox' = IF Exhausted(held[w][i])
                                      THEN SetDeadLetter(i)
                                      ELSE SetRetry(i, now[w] + RetryDelay(held[w][i]))
                         /\ UNCHANGED <<queued, delivered, crashes>>
  BY DEF HandleFailure
<1>2. /\ held[w][i] \in Nat \ {0} /\ outbox[i].attemptCount \in Nat
      /\ held[w][i] <= outbox[i].attemptCount
  <2>1. held[w][i] \in Nat \ {0}
    BY <1>1 DEF IndInv, TypeOK, IsNext, Batch
  <2>2. outbox[i].attemptCount \in Nat
    BY DEF IndInv, TypeOK, Row
  <2>3. QED
    BY <2>1, <2>2 DEF IndInv, HeldIsCounted
<1>3. now[w] + RetryDelay(held[w][i]) \in Int
  <2>1. RetryDelay(held[w][i]) \in Nat
    BY <1>2, RetryDelayType
  <2>2. now[w] \in Int
    BY DEF IndInv, TypeOK
  <2>3. QED
    BY <2>1, <2>2
<1>4. CASE Exhausted(held[w][i])
  <2>1. /\ outbox'[i].status = "dead_letter" /\ outbox'[i].leaseExpiresAt = NoLease
        /\ outbox'[i].attemptCount = outbox[i].attemptCount
        /\ \A j \in Event \ {i} : outbox'[j] = outbox[j]
    BY <1>1, <1>4, SetDeadLetterRow DEF IndInv
  <2>2. outbox[i].attemptCount >= DeadLetterAfterAttempts
    BY <1>2, <1>4, SettingsAssumption DEF Exhausted
  <2>3. QED
    BY <1>1, <2>1, <2>2, RecordDone
<1>5. CASE ~(Exhausted(held[w][i]))
  <2>1. /\ outbox'[i].status = "pending" /\ outbox'[i].leaseExpiresAt = NoLease
        /\ outbox'[i].attemptCount = outbox[i].attemptCount
        /\ \A j \in Event \ {i} : outbox'[j] = outbox[j]
    BY <1>1, <1>3, <1>5, SetRetryRow DEF IndInv
  <2>2. QED
    BY <1>1, <2>1, RecordDone
<1>6. QED
  BY <1>4, <1>5

(* A worker's call to publish ends: its copy, so far nobody's, has arrived, *)
(* waits in its client, or is lost.                                         *)
LEMMA PublishDone ==
  ASSUME IndInv, TypeOK', NEW w \in Worker, NEW i \in Event,
         pc[w] = "publish", IsNext(w, i),
         UNCHANGED <<outbox, held>>,
         NEW D \in SUBSET {<<i, held[w][i]>>}, NEW Q \in SUBSET {<<i, held[w][i]>>},
         NEW result \in {"acked", "failed"}, result = "acked" => D # {},
         delivered' = delivered \cup D,
         queued' = [queued EXCEPT ![w] = @ \cup Q],
         pc' = [pc EXCEPT ![w] = result]
  PROVE  IndInv'
<1> DEFINE copy == <<i, held[w][i]>>
<1>1. copy \notin delivered \cup Queued
  BY DEF IndInv, UnpublishedIsFresh, IsNext
<1>2. /\ \A v \in Worker : Batch(v)' = Batch(v) /\ \A j \in Event : IsNext(v, j)' = IsNext(v, j)
      /\ \A v \in Worker \ {w} : pc'[v] = pc[v] /\ queued'[v] = queued[v]
      /\ pc'[w] \in {"acked", "failed"} /\ queued'[w] = queued[w] \cup Q
      /\ pc'[w] = "acked" => D = {copy}
  <2>1. \A v \in Worker : Batch(v)' = Batch(v) /\ \A j \in Event : IsNext(v, j)' = IsNext(v, j)
    BY DEF Batch, IsNext
  <2>2. \A v \in Worker \ {w} : pc'[v] = pc[v] /\ queued'[v] = queued[v]
    BY DEF IndInv, TypeOK
  <2>3. queued'[w] = queued[w] \cup Q
    BY DEF IndInv, TypeOK
  <2>4. pc'[w] = result
    BY DEF IndInv, TypeOK
  <2>5. QED
    BY <2>1, <2>2, <2>3, <2>4
<1>3. Queued' = Queued \cup Q
  BY DEF IndInv, TypeOK, Queued
<1>4. \A v \in Worker : \A j \in Batch(v) :
        <<j, held[v][j]>> = copy => v = w /\ j = i
  BY DEF IndInv, AttemptHasOneHolder, IsNext, Batch
<1>5. LeaseMeansInflight' /\ HeldIsCounted' /\ DeadLetterIsExhausted' /\ AttemptHasOneHolder'
  BY DEF IndInv, LeaseMeansInflight, HeldIsCounted, DeadLetterIsExhausted, AttemptHasOneHolder
<1>6. IdleHoldsNothing'
  <2>1. Batch(w) # {}
    BY DEF IsNext
  <2>2. QED
    BY <1>2, <2>1 DEF IndInv, IdleHoldsNothing
<1>7. AckedHasArrived'
  <2> SUFFICES ASSUME NEW v \in Worker, NEW j \in Event, pc'[v] = "acked", IsNext(v, j)
               PROVE  <<j, held[v][j]>> \in delivered'
    BY <1>2 DEF AckedHasArrived
  <2>1. CASE v = w
    <3>1. j = i
      BY <2>1 DEF IsNext, Batch, Event
    <3>2. QED
      BY <1>2, <2>1, <3>1
  <2>2. CASE v # w
    BY <1>2, <2>2 DEF IndInv, AckedHasArrived
  <2>3. QED
    BY <2>1, <2>2
<1>8. SentWasDelivered'
  BY DEF IndInv, SentWasDelivered
<1>9. UnpublishedIsFresh'
  <2> SUFFICES ASSUME NEW v \in Worker, NEW j \in Batch(v), pc'[v] = "publish" \/ ~IsNext(v, j)
               PROVE  <<j, held[v][j]>> \notin delivered' \cup Queued'
    BY <1>2 DEF UnpublishedIsFresh, Batch
  <2>1. ~(v = w /\ j = i)
    BY <1>2
  <2>2. <<j, held[v][j]>> # copy
    BY <1>4, <2>1
  <2>3. pc[v] = "publish" \/ ~IsNext(v, j)
    BY <1>2
  <2>4. <<j, held[v][j]>> \notin delivered \cup Queued
    BY <2>3 DEF IndInv, UnpublishedIsFresh
  <2>5. QED
    BY <1>3, <2>2, <2>4
<1>10. CopyIsCounted'
  <2>1. copy[1] = i /\ copy[2] = held[w][i] /\ held[w][i] <= outbox[i].attemptCount
    BY DEF IndInv, HeldIsCounted
  <2>2. \A c \in delivered' \cup Queued' : c \in delivered \cup Queued \/ c = copy
    BY <1>3
  <2>3. QED
    BY <2>1, <2>2 DEF IndInv, CopyIsCounted
<1>11. CopyHasOneClient'
  <2>1. \A u \in Worker : copy \notin queued[u]
    BY <1>1 DEF Queued
  <2>2. QED
    BY <1>2, <2>1 DEF IndInv, CopyHasOneClient
<1>12. FirstAttemptIsOpen'
  BY <1>2 DEF IndInv, FirstAttemptIsOpen
<1>13. QED
  BY <1>5, <1>6, <1>7, <1>8, <1>9, <1>10, <1>11, <1>12 DEF IndInv

LEMMA IndPublishAcked ==
  ASSUME IndInv, NEW w \in Worker, PublishAcked(w), TypeOK' PROVE IndInv'
<1>1. PICK i \in Event : /\ pc[w] = "publish" /\ IsNext(w, i)
                         /\ delivered' = delivered \cup {<<i, held[w][i]>>}
                         /\ pc' = [pc EXCEPT ![w] = "acked"]
                         /\ UNCHANGED <<outbox, held, now, queued, crashes>>
  BY DEF PublishAcked
<1>2. queued' = [queued EXCEPT ![w] = @ \cup {}]
  BY <1>1 DEF IndInv, TypeOK
<1>3. QED
  BY <1>1, <1>2, PublishDone

LEMMA IndPublishFailed ==
  ASSUME IndInv, NEW w \in Worker, PublishFailed(w), TypeOK' PROVE IndInv'
<1>1. PICK i \in Event :
        /\ pc[w] = "publish" /\ IsNext(w, i)
        /\ \/ UNCHANGED <<queued, delivered>>
           \/ /\ queued' = [queued EXCEPT ![w] = @ \cup {<<i, held[w][i]>>}]
              /\ delivered' \in {delivered, delivered \cup {<<i, held[w][i]>>}}
        /\ pc' = [pc EXCEPT ![w] = "failed"]
        /\ UNCHANGED <<outbox, held, now, crashes>>
  BY DEF PublishFailed
<1>2. \E Q \in SUBSET {<<i, held[w][i]>>} : queued' = [queued EXCEPT ![w] = @ \cup Q]
  <2>1. CASE queued' = queued
    <3>1. queued' = [queued EXCEPT ![w] = @ \cup {}]
      BY <2>1 DEF IndInv, TypeOK
    <3>2. QED
      BY <3>1
  <2>2. CASE queued' = [queued EXCEPT ![w] = @ \cup {<<i, held[w][i]>>}]
    BY <2>2
  <2>3. QED
    BY <1>1, <2>1, <2>2
<1>3. \E D \in SUBSET {<<i, held[w][i]>>} : delivered' = delivered \cup D
  <2>1. delivered' = delivered \cup {} \/ delivered' = delivered \cup {<<i, held[w][i]>>}
    BY <1>1
  <2>2. QED
    BY <2>1
<1>4. QED
  BY <1>1, <1>2, <1>3, PublishDone

(* A client sends copies it has, and drops some of them *)
LEMMA CopiesMoved ==
  ASSUME IndInv, TypeOK',
         UNCHANGED <<outbox, pc, held>>,
         NEW w \in Worker, NEW rest \in SUBSET queued[w], NEW D \in SUBSET queued[w],
         delivered' = delivered \cup D,
         queued' = [queued EXCEPT ![w] = rest]
  PROVE  IndInv'
<1>1. /\ \A v \in Worker : Batch(v)' = Batch(v) /\ \A j \in Event : IsNext(v, j)' = IsNext(v, j)
      /\ queued'[w] = rest
      /\ \A v \in Worker \ {w} : queued'[v] = queued[v]
  <2>1. \A v \in Worker : Batch(v)' = Batch(v) /\ \A j \in Event : IsNext(v, j)' = IsNext(v, j)
    BY DEF Batch, IsNext
  <2>2. QED
    BY <2>1 DEF IndInv, TypeOK
<1>2. delivered' \cup Queued' \subseteq delivered \cup Queued
  BY <1>1 DEF Queued
<1>3. /\ LeaseMeansInflight' /\ HeldIsCounted' /\ DeadLetterIsExhausted' /\ AttemptHasOneHolder'
      /\ SentWasDelivered'
  BY DEF IndInv, LeaseMeansInflight, HeldIsCounted, DeadLetterIsExhausted, AttemptHasOneHolder,
         SentWasDelivered
<1>4. IdleHoldsNothing' /\ AckedHasArrived' /\ FirstAttemptIsOpen'
  BY <1>1 DEF IndInv, IdleHoldsNothing, AckedHasArrived, FirstAttemptIsOpen
<1>5. UnpublishedIsFresh'
  BY <1>1, <1>2 DEF IndInv, UnpublishedIsFresh, Batch
<1>6. CopyIsCounted'
  BY <1>2 DEF IndInv, CopyIsCounted
<1>7. CopyHasOneClient'
  BY <1>1 DEF IndInv, CopyHasOneClient
<1>8. QED
  BY <1>3, <1>4, <1>5, <1>6, <1>7 DEF IndInv

LEMMA IndTransmit ==
  ASSUME IndInv, NEW w \in Worker, Transmit(w), TypeOK' PROVE IndInv'
<1>1. PICK copy \in queued[w] : /\ delivered' = delivered \cup {copy}
                                /\ \/ queued' = queued
                                   \/ queued' = [queued EXCEPT ![w] = @ \ {copy}]
                                /\ UNCHANGED <<outbox, pc, held, now, crashes>>
  BY DEF Transmit
<1>2. PICK rest \in SUBSET queued[w] : queued' = [queued EXCEPT ![w] = rest]
  <2>1. CASE queued' = queued
    <3>1. queued' = [queued EXCEPT ![w] = queued[w]]
      BY <2>1 DEF IndInv, TypeOK
    <3>2. QED
      BY <3>1
  <2>2. CASE queued' = [queued EXCEPT ![w] = @ \ {copy}]
    <3>1. queued' = [queued EXCEPT ![w] = queued[w] \ {copy}]
      BY <2>2
    <3>2. QED
      BY <3>1
  <2>3. QED
    BY <1>1, <2>1, <2>2
<1> DEFINE D == {copy}
<1>3. D \in SUBSET queued[w] /\ delivered' = delivered \cup D
  BY <1>1
<1>4. UNCHANGED <<outbox, pc, held>>
  BY <1>1
<1> HIDE DEF D
<1>5. QED
  BY <1>2, <1>3, <1>4, CopiesMoved

LEMMA IndCloseClient ==
  ASSUME IndInv, NEW w \in Worker, CloseClient(w), TypeOK' PROVE IndInv'
<1>1. queued' = [queued EXCEPT ![w] = {}] /\ delivered' = delivered \cup {}
  BY DEF CloseClient
<1>2. UNCHANGED <<outbox, pc, held>>
  BY DEF CloseClient
<1>3. {} \in SUBSET queued[w]
  OBVIOUS
<1>4. QED
  BY <1>1, <1>2, <1>3, CopiesMoved

LEMMA IndCrash ==
  ASSUME IndInv, NEW w \in Worker, Crash(w), TypeOK' PROVE IndInv'
<1>1. UNCHANGED <<outbox, delivered>>
  BY DEF Crash
<1>2. held' = [held EXCEPT ![w] = None] /\ pc' = [pc EXCEPT ![w] = "idle"]
      /\ queued' = [queued EXCEPT ![w] = {}]
  BY DEF Crash
<1>3. /\ held'[w] = None /\ pc'[w] = "idle" /\ queued'[w] = {}
      /\ \A v \in Worker \ {w} : held'[v] = held[v] /\ pc'[v] = pc[v] /\ queued'[v] = queued[v]
  BY <1>2 DEF IndInv, TypeOK
<1>4. /\ Batch(w)' = {}
      /\ \A j \in Event : ~IsNext(w, j)'
      /\ \A v \in Worker \ {w} : Batch(v)' = Batch(v) /\ \A j \in Event : IsNext(v, j)' = IsNext(v, j)
  BY <1>3 DEF Batch, IsNext, None
<1>5. Queued' \subseteq Queued
  BY <1>3 DEF Queued
<1>6. LeaseMeansInflight' /\ DeadLetterIsExhausted' /\ SentWasDelivered'
  BY <1>1 DEF IndInv, LeaseMeansInflight, DeadLetterIsExhausted, SentWasDelivered
<1>7. HeldIsCounted'
  <2>1. \A i \in Event, v \in Worker : held'[v][i] <= outbox[i].attemptCount
    <3> TAKE i \in Event, v \in Worker
    <3>1. outbox[i].attemptCount \in Nat
      BY DEF IndInv, TypeOK, Row
    <3>2. CASE v = w
      BY <1>3, <3>1, <3>2 DEF None
    <3>3. CASE v # w
      BY <1>3, <3>3 DEF IndInv, HeldIsCounted
    <3>4. QED
      BY <3>2, <3>3
  <2>2. QED
    BY <1>1, <2>1 DEF IndInv, HeldIsCounted
<1>8. IdleHoldsNothing'
  BY <1>3, <1>4 DEF IndInv, IdleHoldsNothing
<1>9. AckedHasArrived'
  BY <1>1, <1>3, <1>4 DEF IndInv, AckedHasArrived
<1>10. AttemptHasOneHolder'
  BY <1>3 DEF IndInv, AttemptHasOneHolder, None
<1>11. UnpublishedIsFresh'
  BY <1>1, <1>3, <1>4, <1>5 DEF IndInv, UnpublishedIsFresh, Batch
<1>12. CopyIsCounted'
  BY <1>1, <1>5 DEF IndInv, CopyIsCounted
<1>13. CopyHasOneClient'
  BY <1>1, <1>3 DEF IndInv, CopyHasOneClient
<1>14. FirstAttemptIsOpen'
  BY <1>1, <1>4 DEF IndInv, FirstAttemptIsOpen
<1>15. QED
  BY <1>6, <1>7, <1>8, <1>9, <1>10, <1>11, <1>12, <1>13, <1>14 DEF IndInv

(* reserve_batch: what it does to the rows of its batch and to the others *)
LEMMA ReserveRows ==
  ASSUME IndInv, NEW w \in Worker, ReserveBatch(w), TypeOK'
  PROVE  \E batch \in SUBSET Event :
           /\ pc[w] = "idle" /\ pc' = [pc EXCEPT ![w] = "publish"]
           /\ batch # {}
           /\ held' = [held EXCEPT ![w] = [i \in Event |->
                         IF i \in batch THEN outbox[i].attemptCount + 1 ELSE 0]]
           /\ UNCHANGED <<queued, delivered, crashes>>
           /\ \A i \in batch : /\ outbox[i].status \in {"pending", "inflight"}
                               /\ outbox'[i].status = "inflight"
                               /\ outbox'[i].leaseExpiresAt # NoLease
                               /\ outbox'[i].attemptCount = outbox[i].attemptCount + 1
           /\ \A i \in Event \ batch :
                /\ outbox'[i].attemptCount = outbox[i].attemptCount
                /\ \/ outbox'[i] = outbox[i]
                   \/ /\ outbox[i].status = "inflight"
                      /\ outbox'[i].status = "pending"
                      /\ outbox'[i].leaseExpiresAt = NoLease
<1>1. PICK t \in Int, batch \in SUBSET Event :
        /\ batch \subseteq Due(Recovered(t), t)
        /\ pc[w] = "idle" /\ pc' = [pc EXCEPT ![w] = "publish"]
        /\ batch # {}
        /\ outbox' = [i \in Event |-> IF i \in batch THEN Leased(Recovered(t)[i], t)
                                      ELSE Recovered(t)[i]]
        /\ held' = [held EXCEPT ![w] = [i \in Event |->
                      IF i \in batch THEN Recovered(t)[i].attemptCount + 1 ELSE 0]]
        /\ UNCHANGED <<queued, delivered, crashes>>
  BY ClockType DEF ReserveBatch, IsFirstOf, Due
<1>2. \A i \in Event :
        /\ Recovered(t)[i] \in Row
        /\ Recovered(t)[i].attemptCount = outbox[i].attemptCount
        /\ \/ Recovered(t)[i] = outbox[i]
           \/ /\ outbox[i].status = "inflight"
              /\ Recovered(t)[i].status = "pending"
              /\ Recovered(t)[i].leaseExpiresAt = NoLease
  BY RecoveredRows DEF IndInv
<1>3. ASSUME NEW i \in batch
      PROVE  /\ outbox[i].status \in {"pending", "inflight"}
             /\ outbox'[i].status = "inflight"
             /\ outbox'[i].leaseExpiresAt # NoLease
             /\ outbox'[i].attemptCount = outbox[i].attemptCount + 1
  <2>1. outbox'[i] = Leased(Recovered(t)[i], t)
    BY <1>1
  <2>2. i \in Event /\ Recovered(t)[i].status = "pending"
    BY <1>1 DEF Due
  <2>3. QED
    BY <1>2, <2>1, <2>2, LeasedRow
<1>4. \A i \in Event \ batch : outbox'[i] = Recovered(t)[i]
  BY <1>1
<1>5. [i \in Event |-> IF i \in batch THEN Recovered(t)[i].attemptCount + 1 ELSE 0]
        = [i \in Event |-> IF i \in batch THEN outbox[i].attemptCount + 1 ELSE 0]
  BY <1>2
<1>6. QED
  BY <1>1, <1>2, <1>3, <1>4, <1>5

LEMMA IndReserve ==
  ASSUME IndInv, NEW w \in Worker, ReserveBatch(w), TypeOK' PROVE IndInv'
<1>1. PICK batch \in SUBSET Event :
        /\ pc[w] = "idle" /\ pc' = [pc EXCEPT ![w] = "publish"]
        /\ batch # {}
        /\ held' = [held EXCEPT ![w] = [i \in Event |->
                      IF i \in batch THEN outbox[i].attemptCount + 1 ELSE 0]]
        /\ UNCHANGED <<queued, delivered, crashes>>
        /\ \A i \in batch : /\ outbox[i].status \in {"pending", "inflight"}
                            /\ outbox'[i].status = "inflight"
                            /\ outbox'[i].leaseExpiresAt # NoLease
                            /\ outbox'[i].attemptCount = outbox[i].attemptCount + 1
        /\ \A i \in Event \ batch :
             /\ outbox'[i].attemptCount = outbox[i].attemptCount
             /\ \/ outbox'[i] = outbox[i]
                \/ /\ outbox[i].status = "inflight"
                   /\ outbox'[i].status = "pending"
                   /\ outbox'[i].leaseExpiresAt = NoLease
  BY ReserveRows
<1>2. \A i \in Event : outbox[i].attemptCount \in Nat
  BY DEF IndInv, TypeOK, Row
<1>3. /\ pc'[w] = "publish"
      /\ \A i \in Event : held'[w][i] = IF i \in batch THEN outbox[i].attemptCount + 1 ELSE 0
      /\ \A v \in Worker \ {w} : held'[v] = held[v] /\ pc'[v] = pc[v]
  BY <1>1 DEF IndInv, TypeOK
<1>4. Batch(w)' = batch
  BY <1>2, <1>3 DEF Batch
<1>5. \A v \in Worker \ {w} :
        Batch(v)' = Batch(v) /\ \A j \in Event : IsNext(v, j)' = IsNext(v, j)
  BY <1>3 DEF Batch, IsNext
<1>6. Queued' = Queued
  BY <1>1 DEF Queued
<1>7. \A i \in Event : outbox[i].attemptCount <= outbox'[i].attemptCount
  BY <1>1, <1>2
<1>8. LeaseMeansInflight'
  BY <1>1 DEF IndInv, LeaseMeansInflight
<1>9. HeldIsCounted'
  <2>1. \A i \in Event : outbox'[i].status = "absent" => outbox'[i].attemptCount = 0
    BY <1>1 DEF IndInv, HeldIsCounted
  <2>2. \A i \in Event, v \in Worker : held'[v][i] <= outbox'[i].attemptCount
    <3> TAKE i \in Event, v \in Worker
    <3>1. CASE v = w
      BY <1>1, <1>2, <1>3, <3>1
    <3>2. CASE v # w
      <4>1. held[v][i] <= outbox[i].attemptCount /\ held[v][i] \in Nat
        BY DEF IndInv, HeldIsCounted, TypeOK
      <4>2. QED
        BY <1>1, <1>2, <1>3, <3>2, <4>1
    <3>3. QED
      BY <3>1, <3>2
  <2>3. QED
    BY <2>1, <2>2 DEF HeldIsCounted
<1>10. IdleHoldsNothing'
  BY <1>1, <1>3, <1>4, <1>5 DEF IndInv, IdleHoldsNothing
<1>11. AckedHasArrived'
  BY <1>1, <1>3, <1>5 DEF IndInv, AckedHasArrived
<1>12. SentWasDelivered'
  BY <1>1 DEF IndInv, SentWasDelivered
<1>13. DeadLetterIsExhausted'
  BY <1>1 DEF IndInv, DeadLetterIsExhausted
<1>14. AttemptHasOneHolder'
  <2>1. \A i \in Event, v \in Worker \ {w} :
          held'[v][i] = held[v][i] /\ (held'[w][i] = 0 \/ held[v][i] # held'[w][i])
    <3> TAKE i \in Event, v \in Worker \ {w}
    <3>1. held[v][i] <= outbox[i].attemptCount /\ held[v][i] \in Nat
      BY DEF IndInv, HeldIsCounted, TypeOK
    <3>2. QED
      BY <1>2, <1>3, <3>1
  <2>2. QED
    BY <2>1 DEF IndInv, AttemptHasOneHolder
<1>15. CopyIsCounted'
  <2>1. \A copy \in delivered \cup Queued : copy[1] \in Event /\ copy[2] \in Nat
    BY DEF IndInv, TypeOK, Queued, Copy
  <2>2. \A copy \in delivered \cup Queued : copy[2] <= outbox'[copy[1]].attemptCount
    <3> TAKE copy \in delivered \cup Queued
    <3>1. copy[2] <= outbox[copy[1]].attemptCount
      BY DEF IndInv, CopyIsCounted
    <3>2. QED
      BY <1>1, <1>2, <2>1, <3>1
  <2>3. QED
    BY <1>1, <1>6, <2>2 DEF CopyIsCounted
<1>16. UnpublishedIsFresh'
  <2> SUFFICES ASSUME NEW v \in Worker, NEW i \in Batch(v)', pc'[v] = "publish" \/ ~IsNext(v, i)'
               PROVE  <<i, held'[v][i]>> \notin delivered \cup Queued
    BY <1>1, <1>6 DEF UnpublishedIsFresh
  <2>1. CASE v = w
    <3>1. i \in Event /\ held'[w][i] = outbox[i].attemptCount + 1
      BY <1>3, <1>4, <2>1
    <3>2. <<i, held'[w][i]>> \in delivered \cup Queued =>
            held'[w][i] <= outbox[i].attemptCount
      BY DEF IndInv, CopyIsCounted
    <3>3. QED
      BY <1>2, <2>1, <3>1, <3>2
  <2>2. CASE v # w
    BY <1>3, <1>5, <2>2 DEF IndInv, UnpublishedIsFresh, Batch
  <2>3. QED
    BY <2>1, <2>2
<1>17. CopyHasOneClient'
  BY <1>1 DEF IndInv, CopyHasOneClient
<1>18. FirstAttemptIsOpen'
  <2> SUFFICES ASSUME NEW v \in Worker, NEW i \in Batch(v)', outbox'[i].attemptCount = 1
               PROVE  outbox'[i].status \in {"pending", "inflight"}
    BY DEF FirstAttemptIsOpen
  <2>1. CASE i \in batch
    BY <1>1, <2>1
  <2>2. CASE i \notin batch
    <3>1. v # w /\ i \in Batch(v) /\ i \in Event
      BY <1>4, <1>5, <2>2 DEF Batch
    <3>2. QED
      BY <1>1, <2>2, <3>1 DEF IndInv, FirstAttemptIsOpen
  <2>3. QED
    BY <2>1, <2>2
<1>19. QED
  BY <1>8, <1>9, <1>10, <1>11, <1>12, <1>13, <1>14, <1>15, <1>16, <1>17, <1>18 DEF IndInv

LEMMA IndNext == IndInv /\ [Next]_vars => IndInv'
<1> SUFFICES ASSUME IndInv, [Next]_vars PROVE IndInv'
  OBVIOUS
<1>1. TypeOK'
  BY TypeNext DEF IndInv
<1>2. CASE AppendEvent
  BY <1>1, <1>2, IndAppend
<1>3. CASE RecoverExpiredInflight
  BY <1>1, <1>3, IndRecover
<1>4. CASE Tick
  BY <1>1, <1>4, IndTick
<1>5. ASSUME NEW w \in Worker, ReserveBatch(w) PROVE IndInv'
  BY <1>1, <1>5, IndReserve
<1>6. ASSUME NEW w \in Worker, PublishAcked(w) PROVE IndInv'
  BY <1>1, <1>6, IndPublishAcked
<1>7. ASSUME NEW w \in Worker, PublishFailed(w) PROVE IndInv'
  BY <1>1, <1>7, IndPublishFailed
<1>8. ASSUME NEW w \in Worker, Transmit(w) PROVE IndInv'
  BY <1>1, <1>8, IndTransmit
<1>9. ASSUME NEW w \in Worker, CloseClient(w) PROVE IndInv'
  BY <1>1, <1>9, IndCloseClient
<1>10. ASSUME NEW w \in Worker, MarkSent(w) PROVE IndInv'
  BY <1>1, <1>10, IndMarkSent
<1>11. ASSUME NEW w \in Worker, HandleFailure(w) PROVE IndInv'
  BY <1>1, <1>11, IndHandleFailure
<1>12. ASSUME NEW w \in Worker, Crash(w) PROVE IndInv'
  BY <1>1, <1>12, IndCrash
<1>13. CASE UNCHANGED vars
  BY <1>13 DEF vars, IndInv, TypeOK, LeaseMeansInflight, HeldIsCounted, IdleHoldsNothing,
     AckedHasArrived, SentWasDelivered, DeadLetterIsExhausted, AttemptHasOneHolder,
     UnpublishedIsFresh, CopyIsCounted, CopyHasOneClient, FirstAttemptIsOpen,
     Batch, IsNext, Queued
<1>14. QED
  BY <1>2, <1>3, <1>4, <1>5, <1>6, <1>7, <1>8, <1>9, <1>10, <1>11, <1>12, <1>13 DEF Next

(* The relations between table, workers and copies hold in every state *)
THEOREM Invariance == Spec => []IndInv
<1>1. Init => IndInv
  BY IndInit
<1>2. IndInv /\ [Next]_vars => IndInv'
  BY IndNext
<1>3. QED
  BY <1>1, <1>2, PTL DEF Spec

(* No row is "sent" before the broker has the event, for any number of      *)
(* workers, whatever expires, crashes or arrives late.                      *)
THEOREM SentIsEarned == Spec => []SentWasDelivered
<1>1. IndInv => SentWasDelivered
  BY DEF IndInv
<1>2. QED
  BY <1>1, Invariance, PTL

(* No event is given up on fewer reservations than the settings allow *)
THEOREM GivingUpIsEarned == Spec => []DeadLetterIsExhausted
<1>1. IndInv => DeadLetterIsExhausted
  BY DEF IndInv
<1>2. QED
  BY <1>1, Invariance, PTL

(* No two workers ever hold the same attempt at an event *)
THEOREM AttemptsAreExclusive == Spec => []AttemptHasOneHolder
<1>1. IndInv => AttemptHasOneHolder
  BY DEF IndInv
<1>2. QED
  BY <1>1, Invariance, PTL

(* However workers interleave, an attempt is counted before it is published *)
(* and published by one worker, once                                        *)
THEOREM AttemptsArePublishedOnce == Spec => []OnePublishPerAttempt
<1>1. ASSUME IndInv PROVE OnePublishPerAttempt
  <2>1. \A copy \in delivered \cup Queued : copy[2] <= outbox[copy[1]].attemptCount
    BY <1>1 DEF IndInv, CopyIsCounted
  <2>2. \A w \in Worker, i \in Event : pc[w] = "publish" /\ IsNext(w, i) =>
          <<i, held[w][i]>> \notin delivered \cup Queued
    BY <1>1 DEF IndInv, UnpublishedIsFresh, IsNext
  <2>3. QED
    BY <2>1, <2>2 DEF OnePublishPerAttempt
<1>2. QED
  BY <1>1, Invariance, PTL

(* No statement of the outbox writes a sent row that no worker holds: the   *)
(* recovery and the reservation pick other statuses, and an outcome is      *)
(* written by a worker that has the record in hand.                         *)
LEMMA SentStays ==
  ASSUME IndInv, [Next]_vars, NEW i \in Event,
         outbox[i].status = "sent", \A w \in Worker : held[w][i] = 0
  PROVE  outbox'[i].status = "sent"
<1>1. TypeOK /\ TypeOK'
  BY TypeNext DEF IndInv
<1>2. \A w \in Worker, j \in Event : IsNext(w, j) => j # i
  BY <1>1 DEF IsNext, Batch, TypeOK
<1>3. CASE AppendEvent
  <2>1. PICK j \in Event : /\ outbox[j].status = "absent"
                           /\ \A k \in Event \ {j} : outbox'[k] = outbox[k]
    BY <1>1, <1>3 DEF AppendEvent, TypeOK
  <2>2. QED
    BY <2>1
<1>4. CASE RecoverExpiredInflight
  <2>1. PICK t \in Int : outbox' = Recovered(t)
    BY <1>4, ClockType DEF RecoverExpiredInflight
  <2>2. QED
    BY <1>1, <2>1, RecoveredRows
<1>5. CASE Tick
  <2>1. outbox[i] \in Row
    BY <1>1 DEF TypeOK
  <2>2. QED
    BY <1>5, <2>1 DEF Tick, Row
<1>6. ASSUME NEW w \in Worker, ReserveBatch(w) PROVE outbox'[i].status = "sent"
  BY <1>1, <1>6, ReserveRows
<1>7. ASSUME NEW w \in Worker, MarkSent(w) PROVE outbox'[i].status = "sent"
  <2>1. PICK j \in Event : IsNext(w, j) /\ outbox' = SetSent(j)
    BY <1>7 DEF MarkSent
  <2>2. QED
    BY <1>1, <1>2, <2>1, SetSentRow
<1>8. ASSUME NEW w \in Worker, HandleFailure(w) PROVE outbox'[i].status = "sent"
  <2>1. PICK j \in Event : /\ IsNext(w, j)
                           /\ outbox' = IF Exhausted(held[w][j])
                                        THEN SetDeadLetter(j)
                                        ELSE SetRetry(j, now[w] + RetryDelay(held[w][j]))
    BY <1>8 DEF HandleFailure
  <2>2. now[w] + RetryDelay(held[w][j]) \in Int
    <3>1. held[w][j] \in Nat \ {0} /\ now[w] \in Int
      BY <1>1, <2>1 DEF TypeOK, IsNext, Batch
    <3>2. QED
      BY <3>1, RetryDelayType
  <2>3. outbox'[i] = outbox[i]
    BY <1>1, <1>2, <2>1, <2>2, SetDeadLetterRow, SetRetryRow
  <2>4. QED
    BY <2>3
<1>9. ASSUME NEW w \in Worker,
             PublishAcked(w) \/ PublishFailed(w) \/ Transmit(w) \/ CloseClient(w) \/ Crash(w)
      PROVE  outbox' = outbox
  BY <1>9 DEF PublishAcked, PublishFailed, Transmit, CloseClient, Crash
<1>10. CASE UNCHANGED vars
  BY <1>10 DEF vars
<1>11. QED
  BY <1>3, <1>4, <1>5, <1>6, <1>7, <1>8, <1>9, <1>10 DEF Next

(* A sent row is final while nobody holds it, for any number of workers *)
THEOREM SentStaysSent == Spec => SentIsFinal
<1>1. IndInv /\ [Next]_vars =>
        [\A i \in Event :
           outbox[i].status = "sent" /\ (\A w \in Worker : held[w][i] = 0)
             => outbox'[i].status = "sent"]_vars
  BY SentStays
<1>2. QED
  BY <1>1, Invariance, PTL DEF Spec, SentIsFinal

(***************************************************************************)
(* The outbox keeps the promise of EventDelivery.                          *)
(***************************************************************************)
LEMMA RefineInit == Init => Delivery!Init
<1> SUFFICES ASSUME Init PROVE Delivery!Init
  OBVIOUS
<1>1. \A i \in Event : outbox[i].status = "absent" /\ outbox[i].attemptCount = 0
  BY DEF Init, AbsentRow
<1>2. QED
  BY <1>1 DEF Init, Delivery!Init, Outcome

(* Nothing is seen of a step that keeps outcomes, counts and arrivals *)
LEMMA RefineStutter ==
  ASSUME delivered' = delivered,
         \A i \in Event : /\ outbox'[i].attemptCount = outbox[i].attemptCount
                          /\ Outcome(outbox'[i].status) = Outcome(outbox[i].status)
  PROVE  UNCHANGED Delivery!vars
<1>1. [i \in Event |-> Outcome(outbox'[i].status)] = [i \in Event |-> Outcome(outbox[i].status)]
  OBVIOUS
<1>2. [i \in Event |-> outbox'[i].attemptCount] = [i \in Event |-> outbox[i].attemptCount]
  OBVIOUS
<1>3. QED
  BY <1>1, <1>2 DEF Delivery!vars

(* Seen from outside, a mark changes one outcome and nothing else *)
LEMMA RefineMark ==
  ASSUME NEW i \in Event, delivered' = delivered,
         \A j \in Event \ {i} : outbox'[j] = outbox[j],
         outbox'[i].attemptCount = outbox[i].attemptCount
  PROVE  /\ [j \in Event |-> Outcome(outbox'[j].status)]
              = [[j \in Event |-> Outcome(outbox[j].status)]
                   EXCEPT ![i] = Outcome(outbox'[i].status)]
         /\ [j \in Event |-> outbox'[j].attemptCount] = [j \in Event |-> outbox[j].attemptCount]
OBVIOUS

LEMMA RefineAppend ==
  ASSUME IndInv, AppendEvent PROVE Delivery!Next
<1>1. PICK i \in Event, at \in {0} \cup UNION {NowOffset[w] : w \in Worker} :
        /\ outbox[i].status = "absent"
        /\ outbox' = [outbox EXCEPT ![i] = [ status |-> "pending", availableAt |-> at,
                                          leaseExpiresAt |-> NoLease, attemptCount |-> 0 ]]
        /\ delivered' = delivered
  BY DEF AppendEvent
<1>2. outbox[i].attemptCount = 0
  BY <1>1 DEF IndInv, HeldIsCounted
<1>3. /\ \A j \in Event \ {i} : outbox'[j] = outbox[j]
      /\ outbox'[i].attemptCount = outbox[i].attemptCount
      /\ outbox'[i].status = "pending"
  BY <1>1, <1>2 DEF IndInv, TypeOK
<1>4. Delivery!Accept(i)
  BY <1>1, <1>3, RefineMark DEF Delivery!Accept, Outcome
<1>5. QED
  BY <1>4 DEF Delivery!Next

LEMMA RefineReserve ==
  ASSUME IndInv, NEW w \in Worker, ReserveBatch(w), TypeOK' PROVE Delivery!Next
<1>1. PICK batch \in SUBSET Event :
        /\ delivered' = delivered
        /\ \A i \in batch : /\ outbox[i].status \in {"pending", "inflight"}
                            /\ outbox'[i].status = "inflight"
                            /\ outbox'[i].attemptCount = outbox[i].attemptCount + 1
        /\ \A i \in Event \ batch :
             /\ outbox'[i].attemptCount = outbox[i].attemptCount
             /\ \/ outbox'[i] = outbox[i]
                \/ outbox[i].status = "inflight" /\ outbox'[i].status = "pending"
  BY ReserveRows
<1>2. \A i \in Event : Outcome(outbox'[i].status) = Outcome(outbox[i].status)
  BY <1>1 DEF Outcome
<1>3. \A i \in Event : outbox'[i].attemptCount =
                         IF i \in batch THEN outbox[i].attemptCount + 1 ELSE outbox[i].attemptCount
  BY <1>1
<1>4. \A i \in batch : i \in Event /\ Outcome(outbox[i].status) = "open"
  BY <1>1 DEF Outcome
<1>5. Delivery!Try(batch)
  BY <1>1, <1>2, <1>3, <1>4 DEF Delivery!Try, Delivery!Open
<1>6. QED
  BY <1>5 DEF Delivery!Next

(* Copies that reach the broker belong to one attempt on record *)
LEMMA RefineArrival ==
  ASSUME IndInv, NEW i \in Event, NEW k \in Nat \ {0},
         k <= outbox[i].attemptCount,
         outbox' = outbox, delivered' = delivered \cup {<<i, k>>}
  PROVE  Delivery!Next
<1>1. outbox[i].attemptCount \in Nat
  BY DEF IndInv, TypeOK, Row
<1>2. [j \in Event |-> outbox[j].attemptCount][i] = outbox[i].attemptCount
  OBVIOUS
<1>3. k \in 1..([j \in Event |-> outbox[j].attemptCount][i])
  BY <1>1, <1>2
<1>4. Delivery!Receive(i, k)
  BY <1>3 DEF Delivery!Receive
<1>5. QED
  BY <1>3, <1>4 DEF Delivery!Next

LEMMA RefineMarkSent ==
  ASSUME IndInv, NEW w \in Worker, MarkSent(w) PROVE Delivery!Next
<1>1. PICK i \in Event : /\ pc[w] = "acked" /\ IsNext(w, i) /\ outbox' = SetSent(i)
                         /\ delivered' = delivered
  BY DEF MarkSent
<1>2. /\ <<i, held[w][i]>> \in delivered
      /\ held[w][i] \in Nat /\ held[w][i] > 0
  BY <1>1 DEF IndInv, TypeOK, AckedHasArrived, IsNext, Batch
<1>3. held[w][i] <= outbox[i].attemptCount /\ outbox[i].attemptCount \in Nat
  BY DEF IndInv, HeldIsCounted, TypeOK, Row
<1>4. /\ outbox'[i].status = "sent" /\ outbox'[i].attemptCount = outbox[i].attemptCount
      /\ \A j \in Event \ {i} : outbox'[j] = outbox[j]
  BY <1>1, SetSentRow DEF IndInv
<1>5. outbox[i].status # "absent"
  BY <1>2, <1>3 DEF IndInv, HeldIsCounted
<1>6. outbox[i].status \in Status
  BY DEF IndInv, TypeOK, Row
<1>7. Outcome(outbox[i].status) # "none" /\ Outcome("sent") = "sent"
  BY <1>5, <1>6 DEF Outcome, Status
<1>8. held[w][i] \in 1..([j \in Event |-> outbox[j].attemptCount][i])
  BY <1>2, <1>3
<1>9. Delivery!Confirm(i)
  BY <1>1, <1>2, <1>4, <1>7, <1>8, RefineMark DEF Delivery!Confirm, Delivery!Accepted
<1>10. QED
  BY <1>9 DEF Delivery!Next

LEMMA RefineHandleFailure ==
  ASSUME IndInv, NEW w \in Worker, HandleFailure(w) PROVE [Delivery!Next]_(Delivery!vars)
<1>1. PICK i \in Event : /\ IsNext(w, i)
                         /\ outbox' = IF Exhausted(held[w][i])
                                      THEN SetDeadLetter(i)
                                      ELSE SetRetry(i, now[w] + RetryDelay(held[w][i]))
                         /\ delivered' = delivered
  BY DEF HandleFailure
<1>2. held[w][i] \in Nat \ {0} /\ i \in Batch(w)
  BY <1>1 DEF IndInv, TypeOK, IsNext, Batch
<1>3. held[w][i] <= outbox[i].attemptCount /\ outbox[i].attemptCount \in Nat
  BY DEF IndInv, HeldIsCounted, TypeOK, Row
<1>4. outbox[i].status \in Status /\ outbox[i].status # "absent"
  BY <1>2, <1>3 DEF IndInv, HeldIsCounted, TypeOK, Row
<1>5. Outcome(outbox[i].status) # "none"
  BY <1>4 DEF Outcome, Status
<1>6. RetryDelay(held[w][i]) \in Nat /\ now[w] \in Int
  BY <1>2, RetryDelayType DEF IndInv, TypeOK
<1>7. now[w] + RetryDelay(held[w][i]) \in Int
  BY <1>6
<1>8. CASE Exhausted(held[w][i])
  <2>1. /\ outbox'[i].status = "dead_letter" /\ outbox'[i].attemptCount = outbox[i].attemptCount
        /\ \A j \in Event \ {i} : outbox'[j] = outbox[j]
    BY <1>1, <1>8, SetDeadLetterRow DEF IndInv
  <2>2. outbox[i].attemptCount >= DeadLetterAfterAttempts
    BY <1>2, <1>3, <1>8, SettingsAssumption DEF Exhausted
  <2>3. Outcome("dead_letter") = "dead_letter"
    BY DEF Outcome
  <2>4. Delivery!GiveUp(i)
    BY <1>1, <1>5, <2>1, <2>2, <2>3, RefineMark DEF Delivery!GiveUp, Delivery!Accepted
  <2>5. QED
    BY <2>4 DEF Delivery!Next
<1>9. CASE ~(Exhausted(held[w][i]))
  <2>1. /\ outbox'[i].status = "pending" /\ outbox'[i].attemptCount = outbox[i].attemptCount
        /\ \A j \in Event \ {i} : outbox'[j] = outbox[j]
    BY <1>1, <1>7, <1>9, SetRetryRow DEF IndInv
  <2>2. Outcome("pending") = "open"
    BY DEF Outcome
  <2>3. CASE outbox[i].status \in {"pending", "inflight"}
    <3>1. Outcome(outbox[i].status) = "open"
      BY <2>3 DEF Outcome
    <3>2. UNCHANGED Delivery!vars
      BY <1>1, <2>1, <2>2, <3>1, RefineStutter
    <3>3. QED
      BY <3>2
  <2>4. CASE outbox[i].status \notin {"pending", "inflight"}
    <3>1. outbox[i].attemptCount # 1
      BY <1>2, <2>4 DEF IndInv, FirstAttemptIsOpen
    <3>2. outbox[i].attemptCount >= 2
      BY <1>2, <1>3, <3>1
    <3>3. Delivery!Reopen(i)
      BY <1>1, <1>5, <2>1, <2>2, <3>2, RefineMark DEF Delivery!Reopen, Delivery!Accepted
    <3>4. QED
      BY <3>3 DEF Delivery!Next
  <2>5. QED
    BY <2>3, <2>4
<1>10. QED
  BY <1>8, <1>9

LEMMA RefineNext ==
  IndInv /\ [Next]_vars => [Delivery!Next]_(Delivery!vars)
<1> SUFFICES ASSUME IndInv, [Next]_vars PROVE [Delivery!Next]_(Delivery!vars)
  OBVIOUS
<1>1. TypeOK'
  BY TypeNext DEF IndInv
<1>2. CASE AppendEvent
  BY <1>2, RefineAppend
<1>3. CASE RecoverExpiredInflight
  <2>1. PICK t \in Int : outbox' = Recovered(t)
    BY <1>3, ClockType DEF RecoverExpiredInflight
  <2>2. \A i \in Event : /\ outbox'[i].attemptCount = outbox[i].attemptCount
                         /\ Outcome(outbox'[i].status) = Outcome(outbox[i].status)
    BY <2>1, RecoveredRows DEF IndInv, Outcome
  <2>3. QED
    BY <1>3, <2>2, RefineStutter DEF RecoverExpiredInflight
<1>4. CASE Tick
  <2>1. \A i \in Event : outbox[i] \in Row
    BY DEF IndInv, TypeOK
  <2>2. \A i \in Event : /\ outbox'[i].attemptCount = outbox[i].attemptCount
                         /\ outbox'[i].status = outbox[i].status
    BY <1>4, <2>1 DEF Tick, Row
  <2>3. QED
    BY <1>4, <2>2, RefineStutter DEF Tick
<1>5. ASSUME NEW w \in Worker, ReserveBatch(w) PROVE Delivery!Next
  BY <1>1, <1>5, RefineReserve
<1>6. ASSUME NEW w \in Worker, PublishAcked(w) \/ PublishFailed(w)
      PROVE  [Delivery!Next]_(Delivery!vars)
  <2>1. PICK i \in Event : /\ IsNext(w, i) /\ outbox' = outbox
                           /\ delivered' \in {delivered, delivered \cup {<<i, held[w][i]>>}}
    BY <1>6 DEF PublishAcked, PublishFailed
  <2>2. held[w][i] \in Nat \ {0} /\ held[w][i] <= outbox[i].attemptCount
    BY <2>1 DEF IndInv, TypeOK, HeldIsCounted, IsNext, Batch
  <2>3. CASE delivered' = delivered
    BY <2>1, <2>3, RefineStutter
  <2>4. CASE delivered' = delivered \cup {<<i, held[w][i]>>}
    BY <2>1, <2>2, <2>4, RefineArrival
  <2>5. QED
    BY <2>1, <2>3, <2>4
<1>7. ASSUME NEW w \in Worker, Transmit(w) PROVE Delivery!Next
  <2>1. PICK copy \in queued[w] : outbox' = outbox /\ delivered' = delivered \cup {copy}
    BY <1>7 DEF Transmit
  <2>2. copy \in Copy /\ copy[2] <= outbox[copy[1]].attemptCount
    BY <2>1 DEF IndInv, TypeOK, CopyIsCounted, Queued
  <2>3. copy[1] \in Event /\ copy[2] \in Nat \ {0} /\ copy = <<copy[1], copy[2]>>
    BY <2>2 DEF Copy
  <2>4. QED
    BY <2>1, <2>2, <2>3, RefineArrival
<1>8. ASSUME NEW w \in Worker, CloseClient(w) \/ Crash(w)
      PROVE  UNCHANGED Delivery!vars
  BY <1>8, RefineStutter DEF CloseClient, Crash
<1>9. ASSUME NEW w \in Worker, MarkSent(w) PROVE Delivery!Next
  BY <1>9, RefineMarkSent
<1>10. ASSUME NEW w \in Worker, HandleFailure(w) PROVE [Delivery!Next]_(Delivery!vars)
  BY <1>10, RefineHandleFailure
<1>11. CASE UNCHANGED vars
  BY <1>11, RefineStutter DEF vars
<1>12. QED
  BY <1>2, <1>3, <1>4, <1>5, <1>6, <1>7, <1>8, <1>9, <1>10, <1>11 DEF Next

(* Whatever workers, clocks, crashes and late messages do, what is seen of  *)
(* the outbox from outside is a behaviour of EventDelivery: every outcome   *)
(* is earned, what arrives (once or often) is a counted try, and an event   *)
(* with one try is settled for good.                                        *)
THEOREM Implementation == Spec => ImplementsDelivery
<1>1. Init => Delivery!Init
  BY RefineInit
<1>2. IndInv /\ [Next]_vars => [Delivery!Next]_(Delivery!vars)
  BY RefineNext
<1>3. QED
  BY <1>1, <1>2, Invariance, PTL DEF Spec, ImplementsDelivery, Delivery!Spec
=============================================================================
