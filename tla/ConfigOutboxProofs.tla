------------------------- MODULE ConfigOutboxProofs -------------------------
(***************************************************************************)
(* For any number of publishers, agents, records, operators' actions and   *)
(* crashes: "published" is earned, records are given up exactly at the     *)
(* limit, hands they are in and copies there are of them are bounded, and  *)
(* only publishers that end in the middle of a batch leave records         *)
(* inflight.                                                               *)
(***************************************************************************)
EXTENDS ConfigOutbox, FiniteSetTheorems, SequenceTheorems, TLAPS

(* A publisher has a batch while it is busy, no larger than it may be, of    *)
(* records that were stored.                                                 *)
BatchShape(w) ==
  /\ pc[w] = "idle" <=> batch[w] = {}
  /\ pc[w] = "publish" => outcome[w] \in {"queued", "acked", "refused"}
  /\ pc[w] \in {"mark", "write"} => outcome[w] \in Verdict
  /\ Cardinality(batch[w]) <= BatchLimit
  /\ \A i \in batch[w] : rows[i].status # "absent"

(* An operator retries or gives up a record that was stored, and is counted. *)
OperatorShape ==
  IF operator.verdict = "none" THEN operator = NoAction
  ELSE /\ operator.verdict \in {"retry", "dead_letter"}
       /\ rows[operator.record].status # "absent"
       /\ operated[operator.record] > 0

Shape == TypeOK /\ OperatorShape /\ \A w \in Publisher : BatchShape(w)

SomeDeleted == \E agent \in Agent : DeleteForAgent(agent)

-----------------------------------------------------------------------------
(* Basics.                                                                 *)

(* Records are numbered from 1. *)
LEMMA RecordFacts == Record \subseteq Nat /\ 1 \in Record /\ IsFiniteSet(Record)
<1> DEFINE n == MaxRevisions * Scopes
<1>1. n \in Nat /\ n >= 1
  BY BoundsAssumption
<1> HIDE DEF n
<1>2. 1..n \subseteq Nat /\ 1 \in 1..n
  BY <1>1
<1>3. IsFiniteSet(1..n)
  BY <1>1, FS_Interval
<1> QED BY <1>2, <1>3 DEF Record, n

(* A marked row is a row. *)
LEMMA MarkedIsRow ==
  ASSUME NEW row \in Row, NEW read \in Read, NEW verdict \in Verdict, NEW at \in Nat
  PROVE  /\ Marked(row, read, verdict, at) \in Row
         /\ Marked(row, read, verdict, at).status \in {row.status, verdict}
         /\ read.status # verdict => Marked(row, read, verdict, at).status = verdict
BY DEF Marked, Row, Read, Verdict, Status

(* What has been read of a row is what a mark may compare with. *)
LEMMA SeenIsRead ==
  ASSUME TypeOK, NEW i \in Record PROVE Seen(i) \in Read
BY DEF TypeOK, Seen, Read, Row

(* A blank row is a row. *)
LEMMA BlankIsRow ==
  ASSUME NEW status \in Status
  PROVE  Blank(status) \in Row /\ Blank(status).status = status
BY DEF Blank, Row

(* Nothing is read, done or counted at first. *)
LEMMA EmptyTypes ==
  /\ Unread \in Read
  /\ Empty \in [Record -> Nat]
  /\ NoAction \in [ verdict : Verdict \cup {"none"}, record : Record, seen : Read ]
  /\ NoAction.verdict = "none"
<1>1. Unread \in Read
  BY DEF Unread, Read, Status
<1> QED BY <1>1, RecordFacts DEF Empty, NoAction

(* The next record is one, and it is in the batch. *)
LEMMA NextIsOne ==
  ASSUME TypeOK, NEW w \in Publisher, NEW i \in Record, NEW j \in Record,
         IsNext(w, i), IsNext(w, j)
  PROVE  i = j
BY RecordFacts DEF IsNext

(* Batches are finite, and smaller without a record. *)
LEMMA BatchIsFinite ==
  ASSUME TypeOK, NEW w \in Publisher
  PROVE  /\ IsFiniteSet(batch[w]) /\ Cardinality(batch[w]) \in Nat
         /\ \A i \in batch[w] : Cardinality(batch[w] \ {i}) = Cardinality(batch[w]) - 1
<1>1. IsFiniteSet(batch[w])
  BY RecordFacts, FS_Subset DEF TypeOK
<1>2. Cardinality(batch[w]) \in Nat
  BY <1>1, FS_CardinalityType
<1>3. \A i \in batch[w] : Cardinality(batch[w] \ {i}) = Cardinality(batch[w]) - 1
  BY <1>1, FS_RemoveElement
<1> QED BY <1>1, <1>2, <1>3

(* The end of a record's mark, publisher by publisher. *)
LEMMA AfterStep ==
  ASSUME TypeOK, NEW w \in Publisher, NEW i \in Record, After(w, i)
  PROVE  /\ batch' \in [Publisher -> SUBSET Record]
         /\ snapshot' \in [Publisher -> [Record -> Nat]]
         /\ seen' \in [Publisher -> Read]
         /\ pc' \in [Publisher -> {"idle", "publish", "mark", "write"}]
         /\ age' \in [Publisher -> Nat]
         /\ outcome' \in [Publisher -> Verdict \cup {"none", "queued", "acked", "refused"}]
         /\ \A v \in Publisher \ {w} :
              /\ batch'[v] = batch[v] /\ pc'[v] = pc[v] /\ outcome'[v] = outcome[v]
              /\ seen'[v] = seen[v] /\ snapshot'[v] = snapshot[v]
         /\ batch'[w] = batch[w] \ {i}
         /\ pc'[w] = IF batch[w] = {i} THEN "idle" ELSE "publish"
         /\ outcome'[w] = IF batch[w] = {i} THEN "none" ELSE "queued"
         /\ \A j \in Record \ {i} : snapshot'[w][j] = snapshot[w][j]
<1>1. /\ batch' \in [Publisher -> SUBSET Record]
      /\ seen' \in [Publisher -> Read]
      /\ batch'[w] = batch[w] \ {i}
      /\ \A v \in Publisher \ {w} : batch'[v] = batch[v] /\ seen'[v] = seen[v]
  BY EmptyTypes DEF After, TypeOK
<1>2. /\ snapshot' \in [Publisher -> [Record -> Nat]]
      /\ \A v \in Publisher \ {w} : snapshot'[v] = snapshot[v]
      /\ \A j \in Record \ {i} : snapshot'[w][j] = snapshot[w][j]
  BY DEF After, TypeOK
<1>3. /\ pc' \in [Publisher -> {"idle", "publish", "mark", "write"}]
      /\ age' \in [Publisher -> Nat]
      /\ outcome' \in [Publisher -> Verdict \cup {"none", "queued", "acked", "refused"}]
      /\ \A v \in Publisher \ {w} : pc'[v] = pc[v] /\ outcome'[v] = outcome[v]
      /\ pc'[w] = IF batch[w] = {i} THEN "idle" ELSE "publish"
      /\ outcome'[w] = IF batch[w] = {i} THEN "none" ELSE "queued"
  <2>1. CASE batch[w] = {i}
    <3>1. /\ pc' = [pc EXCEPT ![w] = "idle"]
          /\ outcome' = [outcome EXCEPT ![w] = "none"]
          /\ age' = [age EXCEPT ![w] = 0]
      BY <2>1 DEF After
    <3> QED BY <2>1, <3>1 DEF TypeOK
  <2>2. CASE batch[w] # {i}
    <3>1. /\ pc' = [pc EXCEPT ![w] = "publish"]
          /\ outcome' = [outcome EXCEPT ![w] = "queued"]
          /\ age' = age
      BY <2>2 DEF After
    <3> QED BY <2>2, <3>1 DEF TypeOK
  <2> QED BY <2>1, <2>2
<1> QED BY <1>1, <1>2, <1>3

(* The end of a publisher, publisher by publisher. *)
LEMMA StopStep ==
  ASSUME TypeOK, NEW w \in Publisher, Stop(w)
  PROVE  /\ batch' \in [Publisher -> SUBSET Record]
         /\ snapshot' \in [Publisher -> [Record -> Nat]]
         /\ seen' \in [Publisher -> Read]
         /\ pc' \in [Publisher -> {"idle", "publish", "mark", "write"}]
         /\ age' \in [Publisher -> Nat]
         /\ outcome' \in [Publisher -> Verdict \cup {"none", "queued", "acked", "refused"}]
         /\ queue' \in [Publisher -> [Record -> Nat]]
         /\ \A v \in Publisher \ {w} :
              /\ batch'[v] = batch[v] /\ pc'[v] = pc[v] /\ outcome'[v] = outcome[v]
              /\ seen'[v] = seen[v] /\ snapshot'[v] = snapshot[v]
         /\ batch'[w] = {} /\ pc'[w] = "idle" /\ outcome'[w] = "none"
<1>1. /\ batch' \in [Publisher -> SUBSET Record]
      /\ seen' \in [Publisher -> Read]
      /\ pc' \in [Publisher -> {"idle", "publish", "mark", "write"}]
      /\ age' \in [Publisher -> Nat]
      /\ outcome' \in [Publisher -> Verdict \cup {"none", "queued", "acked", "refused"}]
  BY EmptyTypes DEF Stop, TypeOK
<1>2. /\ snapshot' \in [Publisher -> [Record -> Nat]]
      /\ queue' \in [Publisher -> [Record -> Nat]]
  BY EmptyTypes DEF Stop, TypeOK
<1>3. /\ \A v \in Publisher \ {w} :
           /\ batch'[v] = batch[v] /\ pc'[v] = pc[v] /\ outcome'[v] = outcome[v]
           /\ seen'[v] = seen[v] /\ snapshot'[v] = snapshot[v]
      /\ batch'[w] = {} /\ pc'[w] = "idle" /\ outcome'[w] = "none"
  BY DEF Stop, TypeOK
<1> QED BY <1>1, <1>2, <1>3

-----------------------------------------------------------------------------
(* Types and shapes, action by action.                                     *)

(* Publishers and operators keep their shape if the table does its part. *)
LEMMA TableStep ==
  ASSUME Shape, UNCHANGED <<pc, batch, outcome, operator, operated>>,
         \A i \in Record : rows[i].status # "absent" => rows'[i].status # "absent"
  PROVE  OperatorShape' /\ \A w \in Publisher : BatchShape(w)'
<1>1. \A w \in Publisher : batch[w] \subseteq Record
  BY DEF Shape, TypeOK
<1>2. operator.record \in Record
  BY DEF Shape, TypeOK
<1>3. OperatorShape'
  BY <1>2 DEF Shape, OperatorShape
<1>4. ASSUME NEW w \in Publisher PROVE BatchShape(w)'
  BY <1>1 DEF Shape, BatchShape
<1> QED BY <1>3, <1>4

(* A revision's records are inserted. *)
LEMMA StoreRenderedShape ==
  ASSUME Shape, StoreRendered PROVE Shape'
<1>1. PICK revision \in Revision :
        /\ \A i \in RecordsOf(revision) : rows[i].status = "absent"
        /\ rows' = [i \in Record |->
              IF i \in RecordsOf(revision) THEN Blank("pending") ELSE rows[i]]
        /\ UNCHANGED <<publishers, queue, log, operator, failures, operated, resent,
                       crashes, stale>>
  BY DEF StoreRendered
<1>2. TypeOK'
  BY <1>1, BlankIsRow DEF Shape, TypeOK, publishers, Status
<1>3. \A i \in Record : rows[i].status # "absent" => rows'[i] = rows[i]
  BY <1>1
<1> QED BY <1>1, <1>2, <1>3, TableStep DEF Shape, publishers, Stored

(* An agent's records are deleted. *)
LEMMA DeleteForAgentShape ==
  ASSUME Shape, NEW agent \in Agent, DeleteForAgent(agent) PROVE Shape'
<1>1. PICK gone \in SUBSET Stored :
      /\ rows' = [i \in Record |-> IF i \in gone THEN Blank("deleted") ELSE rows[i]]
      /\ UNCHANGED <<publishers, queue, log, operator, failures, operated, resent,
                     crashes, stale>>
  BY DEF DeleteForAgent
<1>2. TypeOK'
  BY <1>1, BlankIsRow DEF Shape, TypeOK, publishers, Status
<1>3. \A i \in Record : rows[i].status # "absent" => rows'[i].status # "absent"
  BY <1>1, BlankIsRow DEF Status
<1> QED BY <1>1, <1>2, <1>3, TableStep DEF Shape, publishers

(* Time passes. *)
LEMMA TickShape ==
  ASSUME Shape, Tick PROVE Shape'
<1> DEFINE Later(row) ==
      [row EXCEPT !.nextAttemptAt = Sooner(@),
                  !.leaseExpiresAt = IF @ = NoLease THEN @ ELSE Sooner(@)]
<1>0. rows' = [i \in Record |-> Later(rows[i])]
  BY DEF Tick
<1>a. \A t \in Nat : Sooner(t) \in Nat
  BY DEF Sooner
<1>b. \A row \in Row : Later(row) \in Row /\ Later(row).status = row.status
  BY <1>a DEF Row
<1> HIDE DEF Later
<1>1. \A i \in Record : rows'[i].status = rows[i].status
  BY <1>0, <1>b DEF Shape, TypeOK
<1>2. rows' \in [Record -> Row]
  BY <1>0, <1>b DEF Shape, TypeOK
<1>3. age' \in [Publisher -> Nat]
  <2>1. \A w \in Publisher : age[w] \in Nat /\ age[w] + 1 \in Nat
    BY DEF Shape, TypeOK
  <2>2. age' = [w \in Publisher |->
            IF pc[w] # "idle" /\ age[w] < RetryDelay THEN age[w] + 1 ELSE age[w]]
    BY DEF Tick
  <2> QED BY <2>1, <2>2
<1>4. TypeOK'
  BY <1>2, <1>3 DEF Tick, Shape, TypeOK
<1> QED BY <1>1, <1>4, TableStep DEF Tick, Shape, Stored

(* A batch is reserved. *)
LEMMA ReserveShape ==
  ASSUME Shape, NEW w \in Publisher, ReserveAvailable(w) PROVE Shape'
<1>1. PICK skipped \in SUBSET Locked, taken \in SUBSET {i \in Record : Due(i)} :
        /\ pc[w] = "idle" /\ taken # {}
        /\ IsFirstOf(taken, {i \in Record : Due(i)} \ skipped)
        /\ rows' = [i \in Record |->
              IF i \in taken
              THEN [rows[i] EXCEPT !.status = "inflight", !.leaseExpiresAt = LeaseSeconds]
              ELSE rows[i]]
        /\ pc' = [pc EXCEPT ![w] = "publish"]
        /\ batch' = [batch EXCEPT ![w] = taken]
        /\ snapshot' = [snapshot EXCEPT ![w] =
              [i \in Record |-> IF i \in taken THEN rows[i].attemptCount ELSE 0]]
        /\ age' = [age EXCEPT ![w] = 0]
        /\ outcome' = [outcome EXCEPT ![w] = "queued"]
        /\ UNCHANGED <<seen, queue, log, operator, failures, operated, resent, crashes,
                       stale>>
  BY DEF ReserveAvailable
<1>2. rows' \in [Record -> Row]
  <2> DEFINE Reserved(row) ==
        [row EXCEPT !.status = "inflight", !.leaseExpiresAt = LeaseSeconds]
  <2>1. \A row \in Row : Reserved(row) \in Row
    BY SettingsAssumption DEF Row, Status
  <2>2. rows' = [i \in Record |-> IF i \in taken THEN Reserved(rows[i]) ELSE rows[i]]
    BY <1>1
  <2> HIDE DEF Reserved
  <2> QED BY <2>1, <2>2 DEF Shape, TypeOK
<1>3. snapshot' \in [Publisher -> [Record -> Nat]]
  <2>1. [i \in Record |-> IF i \in taken THEN rows[i].attemptCount ELSE 0]
            \in [Record -> Nat]
    BY DEF Shape, TypeOK, Row
  <2> QED BY <1>1, <2>1 DEF Shape, TypeOK
<1>4. TypeOK'
  BY <1>1, <1>2, <1>3 DEF Shape, TypeOK
<1>5. /\ \A i \in Record : rows'[i].status = IF i \in taken THEN "inflight" ELSE rows[i].status
      /\ \A i \in taken : i \in Stored
  BY <1>1 DEF Shape, TypeOK, Row, Due, Stored
<1>6. \A i \in Record : (i \in Stored' <=> i \in Stored)
                        /\ (rows[i].status # "absent" => rows'[i].status # "absent")
  BY <1>5 DEF Stored
<1>7. OperatorShape'
  BY <1>1, <1>6 DEF Shape, OperatorShape, TypeOK
<1>8. Cardinality(taken) <= BatchLimit
  <2> DEFINE due == {i \in Record : Due(i)} \ skipped
  <2>1. IsFiniteSet(due)
    BY RecordFacts, FS_Subset
  <2>2. Cardinality(due) \in Nat
    BY <2>1, FS_CardinalityType
  <2>3. Cardinality(taken) = IF Cardinality(due) < BatchLimit
                             THEN Cardinality(due) ELSE BatchLimit
    BY <1>1 DEF IsFirstOf
  <2> QED BY <2>2, <2>3, SettingsAssumption
<1>9. ASSUME NEW v \in Publisher PROVE BatchShape(v)'
  <2>1. CASE v = w
    <3>1. pc'[v] = "publish" /\ batch'[v] = taken /\ outcome'[v] = "queued"
      BY <1>1, <2>1 DEF Shape, TypeOK
    <3>2. \A i \in taken : i \in Stored' /\ rows'[i].status # "absent"
      BY <1>5, <1>6 DEF Stored
    <3> QED BY <1>1, <1>8, <3>1, <3>2 DEF BatchShape
  <2>2. CASE v # w
    <3>1. pc'[v] = pc[v] /\ batch'[v] = batch[v] /\ outcome'[v] = outcome[v]
      BY <1>1, <2>2 DEF Shape, TypeOK
    <3>2. batch[v] \subseteq Record
      BY DEF Shape, TypeOK
    <3> QED BY <1>6, <3>1, <3>2 DEF Shape, BatchShape
  <2> QED BY <2>1, <2>2
<1> QED BY <1>4, <1>7, <1>9 DEF Shape

(* A publisher that keeps its batch keeps its shape, in another state of it. *)
LEMMA PublisherStep ==
  ASSUME Shape, UNCHANGED <<rows, batch, operator, operated>>, NEW w \in Publisher,
         \A v \in Publisher \ {w} : pc'[v] = pc[v] /\ outcome'[v] = outcome[v],
         pc[w] # "idle",
         \/ pc'[w] = "publish" /\ outcome'[w] \in {"queued", "acked", "refused"}
         \/ pc'[w] \in {"mark", "write"} /\ outcome'[w] \in Verdict
  PROVE  OperatorShape' /\ \A v \in Publisher : BatchShape(v)'
<1>1. OperatorShape'
  BY DEF Shape, OperatorShape
<1>2. ASSUME NEW v \in Publisher, v # w PROVE BatchShape(v)'
  BY <1>2 DEF Shape, BatchShape, Stored
<1>3. BatchShape(w)'
  BY DEF Shape, BatchShape, Stored
<1> QED BY <1>1, <1>2, <1>3

(* The topic grows by records. *)
LEMMA LogStep ==
  ASSUME TypeOK, NEW i \in Record, log' = log \/ log' = Append(log, i)
  PROVE  log' \in Seq(Record)
<1>1. log \in Seq(Record)
  BY DEF TypeOK
<1>2. Append(log, i) \in Seq(Record)
  BY <1>1, AppendProperties
<1> QED BY <1>1, <1>2

(* The broker answers. *)
LEMMA MessageAckedShape ==
  ASSUME Shape, NEW w \in Publisher, MessageAcked(w) PROVE Shape'
<1>1. PICK i \in Record :
        /\ pc[w] = "publish" /\ outcome[w] = "queued" /\ IsNext(w, i)
        /\ log' = Append(log, i)
        /\ outcome' = [outcome EXCEPT ![w] = "acked"]
        /\ UNCHANGED <<rows, pc, batch, snapshot, age, seen, queue, operator, failures,
                       operated, resent, crashes, stale>>
  BY DEF MessageAcked
<1>2. \A v \in Publisher : outcome'[v] = IF v = w THEN "acked" ELSE outcome[v]
  BY <1>1 DEF Shape, TypeOK
<1>3. log' \in Seq(Record)
  BY <1>1, LogStep DEF Shape
<1>4. TypeOK'
  BY <1>1, <1>3 DEF Shape, TypeOK
<1> QED BY <1>1, <1>2, <1>4, PublisherStep DEF Shape

(* The broker refuses. *)
LEMMA MessageRefusedShape ==
  ASSUME Shape, NEW w \in Publisher, MessageRefused(w) PROVE Shape'
<1>1. \A v \in Publisher : outcome'[v] = IF v = w THEN "refused" ELSE outcome[v]
  BY DEF MessageRefused, Shape, TypeOK
<1>2. TypeOK'
  BY DEF MessageRefused, Shape, TypeOK
<1> QED BY <1>1, <1>2, PublisherStep DEF Shape, MessageRefused

(* An acknowledgement is lost. *)
LEMMA MessageResentShape ==
  ASSUME Shape, NEW w \in Publisher, MessageResent(w) PROVE Shape'
<1>1. PICK i \in Record :
        /\ log' = Append(log, i)
        /\ resent' = [resent EXCEPT ![i] = @ + 1]
        /\ UNCHANGED <<rows, publishers, queue, operator, failures, operated, crashes,
                       stale>>
  BY DEF MessageResent
<1>2. resent' \in [Record -> Nat]
  BY <1>1 DEF Shape, TypeOK
<1>3. log' \in Seq(Record)
  BY <1>1, LogStep DEF Shape
<1>4. TypeOK'
  BY <1>1, <1>2, <1>3 DEF Shape, TypeOK, publishers
<1> QED BY <1>1, <1>4, TableStep DEF Shape, publishers

(* Leftovers of a timeout arrive or expire. *)
LEMMA LateDeliveryShape ==
  ASSUME Shape, NEW w \in Publisher, LateDelivery(w) PROVE Shape'
<1>1. PICK i \in Record :
        /\ queue[w][i] > 0
        /\ queue' = [queue EXCEPT ![w][i] = @ - 1]
        /\ log' \in {log, Append(log, i)}
        /\ UNCHANGED <<rows, publishers, operator, failures, operated, resent, crashes,
                       stale>>
  BY DEF LateDelivery
<1>2. queue' \in [Publisher -> [Record -> Nat]]
  BY <1>1 DEF Shape, TypeOK
<1>3. log' \in Seq(Record)
  BY <1>1, LogStep DEF Shape
<1>4. TypeOK'
  BY <1>1, <1>2, <1>3 DEF Shape, TypeOK, publishers
<1> QED BY <1>1, <1>4, TableStep DEF Shape, publishers, Stored

(* The publication succeeds. *)
LEMMA PublishReturnsShape ==
  ASSUME Shape, NEW w \in Publisher, PublishReturns(w) PROVE Shape'
<1>1. \A v \in Publisher : /\ outcome'[v] = IF v = w THEN "published" ELSE outcome[v]
                           /\ pc'[v] = IF v = w THEN "mark" ELSE pc[v]
  BY DEF PublishReturns, Shape, TypeOK
<1>2. TypeOK'
  BY DEF PublishReturns, Shape, TypeOK, Verdict
<1> QED BY <1>1, <1>2, PublisherStep DEF Shape, PublishReturns, Verdict

(* The publication fails. *)
LEMMA PublishRaisesShape ==
  ASSUME Shape, NEW w \in Publisher, PublishRaises(w) PROVE Shape'
<1>1. PICK i \in Record :
        /\ pc[w] = "publish" /\ IsNext(w, i)
        /\ queue' = [queue EXCEPT ![w][i] = IF outcome[w] = "queued" THEN @ + 1 ELSE @]
        /\ failures' = [failures EXCEPT ![i] = @ + 1]
        /\ outcome' = [outcome EXCEPT ![w] =
              IF Exhausted(snapshot[w][i]) THEN "dead_letter" ELSE "retry"]
        /\ pc' = [pc EXCEPT ![w] = "mark"]
        /\ UNCHANGED <<rows, batch, snapshot, age, seen, log, operator, operated,
                       resent, crashes, stale>>
  BY DEF PublishRaises
<1> DEFINE verdict == IF Exhausted(snapshot[w][i]) THEN "dead_letter" ELSE "retry"
<1>2. verdict \in Verdict
  BY DEF Verdict
<1>3. outcome' = [outcome EXCEPT ![w] = verdict]
  BY <1>1
<1> HIDE DEF verdict
<1>4. \A v \in Publisher : /\ outcome'[v] = IF v = w THEN verdict ELSE outcome[v]
                           /\ pc'[v] = IF v = w THEN "mark" ELSE pc[v]
  BY <1>1, <1>3 DEF Shape, TypeOK
<1>5. queue' \in [Publisher -> [Record -> Nat]]
  BY <1>1 DEF Shape, TypeOK
<1>6. failures' \in [Record -> Nat]
  BY <1>1 DEF Shape, TypeOK
<1>7. /\ outcome' \in [Publisher -> Verdict \cup {"none", "queued", "acked", "refused"}]
      /\ pc' \in [Publisher -> {"idle", "publish", "mark", "write"}]
  BY <1>1, <1>2, <1>3 DEF Shape, TypeOK
<1>8. TypeOK'
  BY <1>1, <1>5, <1>6, <1>7 DEF Shape, TypeOK
<1> QED BY <1>1, <1>2, <1>4, <1>8, PublisherStep DEF Shape

(* A publisher that is done with a record keeps its shape. *)
LEMMA EndShape ==
  ASSUME Shape, NEW w \in Publisher, NEW i \in Record, IsNext(w, i), After(w, i),
         UNCHANGED <<queue, log, operator, failures, operated, resent, crashes, stale>>,
         rows' \in [Record -> Row],
         \A j \in Record : /\ j \in Stored' <=> j \in Stored
                           /\ rows[j].status # "absent" <=> rows'[j].status # "absent"
  PROVE  Shape'
<1>1. TypeOK'
  BY AfterStep DEF Shape, TypeOK
<1>2. OperatorShape'
  BY DEF Shape, OperatorShape, TypeOK
<1>3. \A v \in Publisher : batch[v] \subseteq Record
  BY DEF Shape, TypeOK
<1>4. ASSUME NEW v \in Publisher, v # w PROVE BatchShape(v)'
  <2>1. pc'[v] = pc[v] /\ batch'[v] = batch[v] /\ outcome'[v] = outcome[v]
    BY <1>4, AfterStep DEF Shape
  <2> QED BY <1>3, <2>1 DEF Shape, BatchShape
<1>5. BatchShape(w)'
  <2>1. /\ batch'[w] = batch[w] \ {i}
        /\ pc'[w] = IF batch[w] = {i} THEN "idle" ELSE "publish"
        /\ outcome'[w] = IF batch[w] = {i} THEN "none" ELSE "queued"
    BY AfterStep DEF Shape
  <2>2. Cardinality(batch[w] \ {i}) <= BatchLimit
    <3>1. Cardinality(batch[w]) \in Nat /\ Cardinality(batch[w]) <= BatchLimit
      BY BatchIsFinite DEF Shape, BatchShape
    <3>2. Cardinality(batch[w] \ {i}) = Cardinality(batch[w]) - 1
      BY BatchIsFinite DEF Shape, IsNext
    <3> QED BY <3>1, <3>2, SettingsAssumption
  <2>3. i \in batch[w]
    BY DEF IsNext
  <2> QED BY <1>3, <2>1, <2>2, <2>3 DEF Shape, BatchShape
<1> QED BY <1>1, <1>2, <1>4, <1>5 DEF Shape

(* A record is passed over. *)
LEMMA AfterShape ==
  ASSUME Shape, NEW w \in Publisher, NEW i \in Record, IsNext(w, i), After(w, i),
         UNCHANGED <<rows, queue, log, operator, failures, operated, resent, crashes,
                     stale>>
  PROVE  Shape'
BY EndShape DEF Shape, TypeOK, Stored

(* A publisher that stops has nothing left. *)
LEMMA StopShape ==
  ASSUME Shape, NEW w \in Publisher, Stop(w), crashes' \in Nat, stale' \in Nat,
         UNCHANGED <<rows, log, operator, failures, operated, resent>>
  PROVE  Shape'
<1>1. TypeOK'
  BY StopStep DEF Shape, TypeOK
<1>2. OperatorShape'
  BY DEF Shape, OperatorShape
<1>3. ASSUME NEW v \in Publisher, v # w PROVE BatchShape(v)'
  <2>1. pc'[v] = pc[v] /\ batch'[v] = batch[v] /\ outcome'[v] = outcome[v]
    BY <1>3, StopStep DEF Shape
  <2> QED BY <2>1 DEF Shape, BatchShape, Stored
<1>4. BatchShape(w)'
  <2>1. batch'[w] = {} /\ pc'[w] = "idle"
    BY StopStep DEF Shape
  <2>2. Cardinality({}) <= BatchLimit
    BY FS_EmptySet, SettingsAssumption
  <2> QED BY <2>1, <2>2 DEF BatchShape
<1> QED BY <1>1, <1>2, <1>3, <1>4 DEF Shape

(* A mark begins: its row is read, or passed over. *)
LEMMA ReadRowShape ==
  ASSUME Shape, NEW w \in Publisher, ReadRow(w) PROVE Shape'
<1>1. PICK i \in Record :
        /\ pc[w] = "mark" /\ IsNext(w, i)
        /\ IF i \in Stored
           THEN /\ seen' = [seen EXCEPT ![w] = Seen(i)]
                /\ pc' = [pc EXCEPT ![w] = "write"]
                /\ UNCHANGED <<batch, snapshot, age, outcome>>
           ELSE After(w, i)
        /\ UNCHANGED <<rows, queue, log, operator, failures, operated, resent, crashes,
                       stale>>
  BY DEF ReadRow
<1>2. CASE i \in Stored
  <2>1. /\ seen' = [seen EXCEPT ![w] = Seen(i)]
        /\ pc' = [pc EXCEPT ![w] = "write"]
        /\ UNCHANGED <<batch, snapshot, age, outcome>>
    BY <1>1, <1>2
  <2>2. \A v \in Publisher : pc'[v] = IF v = w THEN "write" ELSE pc[v]
    BY <2>1 DEF Shape, TypeOK
  <2>3. seen' \in [Publisher -> Read]
    BY <2>1, SeenIsRead DEF Shape, TypeOK
  <2>4. outcome[w] \in Verdict
    BY <1>1 DEF Shape, BatchShape
  <2>5. TypeOK'
    BY <1>1, <2>1, <2>3 DEF Shape, TypeOK
  <2> QED BY <1>1, <2>1, <2>2, <2>4, <2>5, PublisherStep DEF Shape
<1>3. CASE i \notin Stored
  <2>1. After(w, i)
    BY <1>1, <1>3
  <2>2. UNCHANGED <<rows, queue, log, operator, failures, operated, resent, crashes, stale>>
    BY <1>1
  <2> QED BY <1>1, <2>1, <2>2, AfterShape
<1> QED BY <1>2, <1>3

(* The row is written. *)
LEMMA WriteRowShape ==
  ASSUME Shape, NEW w \in Publisher, WriteRow(w) PROVE Shape'
<1>1. PICK i \in Stored :
        /\ pc[w] = "write" /\ IsNext(w, i)
        /\ rows' = [rows EXCEPT ![i] = Marked(rows[i], seen[w], outcome[w], RetryIn(w))]
        /\ After(w, i)
        /\ UNCHANGED <<queue, log, operator, failures, operated, resent, crashes, stale>>
  BY DEF WriteRow
<1>2. i \in Record
  BY DEF Stored
<1>3. RetryIn(w) \in Nat
  BY SettingsAssumption DEF RetryIn, Shape, TypeOK
<1>4. outcome[w] \in Verdict /\ seen[w] \in Read /\ rows[i] \in Row
  BY <1>1, <1>2 DEF Shape, TypeOK, BatchShape
<1>5. /\ rows' \in [Record -> Row]
      /\ \A j \in Record \ {i} : rows'[j] = rows[j]
      /\ rows'[i].status \in {rows[i].status, outcome[w]}
  BY <1>1, <1>2, <1>3, <1>4, MarkedIsRow DEF Shape, TypeOK
<1>6. /\ rows[i].status \notin {"absent", "deleted"}
      /\ rows'[i].status \notin {"absent", "deleted"}
  BY <1>4, <1>5 DEF Stored, Verdict
<1>7. \A j \in Record : /\ j \in Stored' <=> j \in Stored
                        /\ rows[j].status # "absent" <=> rows'[j].status # "absent"
  BY <1>2, <1>5, <1>6 DEF Stored
<1> QED BY <1>1, <1>2, <1>5, <1>7, EndShape

(* The row is gone. *)
LEMMA WriteStaleShape ==
  ASSUME Shape, NEW w \in Publisher, WriteStale(w) PROVE Shape'
<1>1. crashes' \in Nat /\ stale' \in Nat
  BY DEF WriteStale, Shape, TypeOK
<1> QED BY <1>1, StopShape DEF WriteStale

(* The publisher stops in the middle of a batch. *)
LEMMA CrashShape ==
  ASSUME Shape, NEW w \in Publisher, Crash(w) PROVE Shape'
<1>1. crashes' \in Nat /\ stale' \in Nat
  BY DEF Crash, Shape, TypeOK
<1> QED BY <1>1, StopShape DEF Crash

(* The publisher stops between two batches. *)
LEMMA ExitShape ==
  ASSUME Shape, NEW w \in Publisher, Exit(w) PROVE Shape'
<1>1. crashes' \in Nat /\ stale' \in Nat
  BY DEF Exit, Shape, TypeOK
<1> QED BY <1>1, StopShape DEF Exit

(* The operator reads. *)
LEMMA OperatorReadsShape ==
  ASSUME Shape, OperatorReads PROVE Shape'
<1>1. PICK i \in Stored, verdict \in {"retry", "dead_letter"} :
        /\ operator = NoAction
        /\ operator' = [ verdict |-> verdict, record |-> i, seen |-> Seen(i) ]
        /\ operated' = [operated EXCEPT ![i] = @ + 1]
        /\ UNCHANGED <<rows, publishers, queue, log, failures, resent, crashes, stale>>
  BY DEF OperatorReads
<1>2. i \in Record /\ rows[i].status # "absent"
  BY DEF Stored
<1>3. operator' \in [ verdict : Verdict \cup {"none"}, record : Record, seen : Read ]
  BY <1>1, <1>2, SeenIsRead DEF Shape, Verdict
<1>4. /\ operated' \in [Record -> Nat]
      /\ operated'[i] > 0
  BY <1>1, <1>2 DEF Shape, TypeOK
<1>5. TypeOK'
  BY <1>1, <1>3, <1>4 DEF Shape, TypeOK, publishers
<1>6. OperatorShape'
  BY <1>1, <1>2, <1>4 DEF OperatorShape
<1>7. \A w \in Publisher : BatchShape(w)'
  BY <1>1 DEF Shape, BatchShape, publishers, Stored
<1> QED BY <1>5, <1>6, <1>7 DEF Shape

(* The operator writes. *)
LEMMA OperatorWritesShape ==
  ASSUME Shape, OperatorWrites PROVE Shape'
<1> DEFINE i == operator.record
<1>1. PICK at \in {0, RetryDelay} :
        /\ operator # NoAction
        /\ rows' = IF i \in Stored
                   THEN [rows EXCEPT ![i] = Marked(rows[i], operator.seen,
                                                   operator.verdict, at)]
                   ELSE rows
        /\ operator' = NoAction
        /\ UNCHANGED <<publishers, queue, log, failures, operated, resent, crashes, stale>>
  BY DEF OperatorWrites
<1>2. /\ i \in Record /\ rows[i] \in Row /\ operator.seen \in Read /\ at \in Nat
      /\ operator.verdict \in Verdict
  BY <1>1, SettingsAssumption DEF Shape, TypeOK, OperatorShape, Verdict
<1>3. /\ rows' \in [Record -> Row]
      /\ \A j \in Record \ {i} : rows'[j] = rows[j]
      /\ rows'[i].status \in {rows[i].status, operator.verdict}
      /\ i \notin Stored => rows' = rows
  <2>1. CASE i \in Stored
    <3>1. rows' = [rows EXCEPT ![i] = Marked(rows[i], operator.seen, operator.verdict, at)]
      BY <1>1, <2>1
    <3> QED BY <1>2, <2>1, <3>1, MarkedIsRow DEF Shape, TypeOK
  <2>2. CASE i \notin Stored
    BY <1>1, <2>2 DEF Shape, TypeOK
  <2> QED BY <2>1, <2>2
<1>4. \A j \in Record : /\ j \in Stored' <=> j \in Stored
                        /\ rows[j].status # "absent" <=> rows'[j].status # "absent"
  <2>1. i \in Stored => rows'[i].status \notin {"absent", "deleted"}
    BY <1>2, <1>3 DEF Stored, Verdict
  <2> QED BY <1>2, <1>3, <2>1 DEF Stored
<1>5. TypeOK'
  BY <1>1, <1>3, EmptyTypes DEF Shape, TypeOK, publishers
<1>6. OperatorShape'
  BY <1>1, EmptyTypes DEF OperatorShape
<1>7. ASSUME NEW w \in Publisher PROVE BatchShape(w)'
  <2>1. batch[w] \subseteq Record
    BY DEF Shape, TypeOK
  <2> QED BY <1>1, <1>4, <2>1 DEF Shape, BatchShape, publishers
<1> QED BY <1>5, <1>6, <1>7 DEF Shape

(* Types and shapes hold from the start and at each step. *)
LEMMA ShapeInit == Init => Shape
<1> SUFFICES ASSUME Init PROVE Shape
  OBVIOUS
<1>1. TypeOK
  <2>1. rows \in [Record -> Row]
    BY BlankIsRow DEF Init, Status
  <2>2. log \in Seq(Record)
    BY DEF Init
  <2> QED BY <2>1, <2>2, EmptyTypes DEF Init, TypeOK
<1>2. OperatorShape
  BY EmptyTypes DEF Init, OperatorShape
<1>3. ASSUME NEW w \in Publisher PROVE BatchShape(w)
  BY FS_EmptySet, SettingsAssumption DEF Init, BatchShape
<1> QED BY <1>1, <1>2, <1>3 DEF Shape

LEMMA ShapeNext == Shape /\ [Next]_vars => Shape'
<1> SUFFICES ASSUME Shape, [Next]_vars PROVE Shape'
  OBVIOUS
<1>1. CASE Next
  BY <1>1, StoreRenderedShape, DeleteForAgentShape, OperatorReadsShape, OperatorWritesShape,
     TickShape, ReserveShape, MessageAckedShape, MessageRefusedShape, MessageResentShape,
     LateDeliveryShape, PublishReturnsShape, PublishRaisesShape, ReadRowShape, WriteRowShape,
     WriteStaleShape,
     CrashShape, ExitShape DEF Next
<1>2. CASE UNCHANGED vars
  BY <1>2 DEF vars, publishers, Shape, TypeOK, OperatorShape, BatchShape, Stored
<1> QED BY <1>1, <1>2

-----------------------------------------------------------------------------
(* What each action does, publisher by publisher and row by row.           *)

(* All of the publishers but w stay as they are. *)
OthersStay(w) ==
  \A v \in Publisher \ {w} :
    /\ batch'[v] = batch[v] /\ pc'[v] = pc[v] /\ outcome'[v] = outcome[v]
    /\ seen'[v] = seen[v] /\ snapshot'[v] = snapshot[v]

LEMMA ReserveEffect ==
  ASSUME Shape, NEW w \in Publisher, ReserveAvailable(w)
  PROVE  \E taken \in SUBSET Record :
           /\ pc[w] = "idle" /\ OthersStay(w)
           /\ batch'[w] = taken /\ pc'[w] = "publish" /\ outcome'[w] = "queued"
           /\ \A i \in taken : rows[i].status \in {"pending", "retry"}
           /\ \A i \in taken : snapshot'[w][i] = rows[i].attemptCount
           /\ \A i \in Record :
                /\ rows'[i].status = IF i \in taken THEN "inflight" ELSE rows[i].status
                /\ rows'[i].attemptCount = rows[i].attemptCount
                /\ i \notin taken => rows'[i] = rows[i]
           /\ UNCHANGED <<seen, queue, log, operator, failures, operated, resent,
                          crashes, stale>>
<1>1. PICK skipped \in SUBSET Locked, taken \in SUBSET {i \in Record : Due(i)} :
        /\ pc[w] = "idle"
        /\ rows' = [i \in Record |->
              IF i \in taken
              THEN [rows[i] EXCEPT !.status = "inflight", !.leaseExpiresAt = LeaseSeconds]
              ELSE rows[i]]
        /\ pc' = [pc EXCEPT ![w] = "publish"]
        /\ batch' = [batch EXCEPT ![w] = taken]
        /\ snapshot' = [snapshot EXCEPT ![w] =
              [i \in Record |-> IF i \in taken THEN rows[i].attemptCount ELSE 0]]
        /\ outcome' = [outcome EXCEPT ![w] = "queued"]
        /\ UNCHANGED <<seen, queue, log, operator, failures, operated, resent, crashes,
                       stale>>
  BY DEF ReserveAvailable
<1>2. \A i \in taken : i \in Record /\ rows[i].status \in {"pending", "retry"}
  BY DEF Due
<1>3. OthersStay(w)
  BY <1>1 DEF OthersStay, Shape, TypeOK
<1>4. /\ batch'[w] = taken /\ pc'[w] = "publish" /\ outcome'[w] = "queued"
      /\ \A i \in taken : snapshot'[w][i] = rows[i].attemptCount
  BY <1>1, <1>2 DEF Shape, TypeOK
<1>5. \A i \in Record :
        /\ rows'[i].status = IF i \in taken THEN "inflight" ELSE rows[i].status
        /\ rows'[i].attemptCount = rows[i].attemptCount
        /\ i \notin taken => rows'[i] = rows[i]
  BY <1>1 DEF Shape, TypeOK, Row
<1> QED BY <1>1, <1>2, <1>3, <1>4, <1>5

LEMMA WriteEffect ==
  ASSUME Shape, NEW w \in Publisher, WriteRow(w)
  PROVE  \E i \in Stored :
           /\ pc[w] = "write" /\ IsNext(w, i) /\ OthersStay(w)
           /\ batch'[w] = batch[w] \ {i} /\ pc'[w] \in {"idle", "publish"}
           /\ outcome'[w] \in {"none", "queued"}
           /\ \A j \in Record \ {i} : snapshot'[w][j] = snapshot[w][j]
           /\ \A j \in Record \ {i} : rows'[j] = rows[j]
           /\ rows'[i].status = IF seen[w].status = outcome[w] THEN rows[i].status
                                ELSE outcome[w]
           /\ rows'[i].attemptCount = IF outcome[w] = "published" THEN rows[i].attemptCount
                                      ELSE seen[w].attempts + 1
           /\ UNCHANGED <<queue, log, operator, failures, operated, resent, crashes, stale>>
<1>1. PICK i \in Stored :
        /\ pc[w] = "write" /\ IsNext(w, i)
        /\ rows' = [rows EXCEPT ![i] = Marked(rows[i], seen[w], outcome[w], RetryIn(w))]
        /\ After(w, i)
        /\ UNCHANGED <<queue, log, operator, failures, operated, resent, crashes, stale>>
  BY DEF WriteRow
<1>2. i \in Record
  BY DEF Stored
<1>3. /\ OthersStay(w)
      /\ batch'[w] = batch[w] \ {i} /\ pc'[w] \in {"idle", "publish"}
      /\ outcome'[w] \in {"none", "queued"}
      /\ \A j \in Record \ {i} : snapshot'[w][j] = snapshot[w][j]
  BY <1>1, <1>2, AfterStep DEF OthersStay, Shape
<1>4. /\ \A j \in Record \ {i} : rows'[j] = rows[j]
      /\ rows'[i] = Marked(rows[i], seen[w], outcome[w], RetryIn(w))
  BY <1>1, <1>2 DEF Shape, TypeOK
<1>5. /\ rows'[i].status = IF seen[w].status = outcome[w] THEN rows[i].status ELSE outcome[w]
      /\ rows'[i].attemptCount = IF outcome[w] = "published" THEN rows[i].attemptCount
                                 ELSE seen[w].attempts + 1
  BY <1>4 DEF Marked
<1> QED BY <1>1, <1>3, <1>4, <1>5

LEMMA ReadEffect ==
  ASSUME Shape, NEW w \in Publisher, ReadRow(w)
  PROVE  \E i \in Record :
           /\ pc[w] = "mark" /\ IsNext(w, i) /\ OthersStay(w)
           /\ \/ /\ i \in Stored /\ batch'[w] = batch[w] /\ pc'[w] = "write"
                 /\ outcome'[w] = outcome[w] /\ seen'[w] = Seen(i)
                 /\ snapshot'[w] = snapshot[w]
              \/ /\ i \notin Stored /\ batch'[w] = batch[w] \ {i}
                 /\ pc'[w] \in {"idle", "publish"} /\ outcome'[w] \in {"none", "queued"}
                 /\ \A j \in Record \ {i} : snapshot'[w][j] = snapshot[w][j]
           /\ UNCHANGED <<rows, queue, log, operator, failures, operated, resent,
                          crashes, stale>>
<1>1. PICK i \in Record :
        /\ pc[w] = "mark" /\ IsNext(w, i)
        /\ IF i \in Stored
           THEN /\ seen' = [seen EXCEPT ![w] = Seen(i)]
                /\ pc' = [pc EXCEPT ![w] = "write"]
                /\ UNCHANGED <<batch, snapshot, age, outcome>>
           ELSE After(w, i)
        /\ UNCHANGED <<rows, queue, log, operator, failures, operated, resent, crashes,
                       stale>>
  BY DEF ReadRow
<1>2. CASE i \in Stored
  <2>1. /\ seen' = [seen EXCEPT ![w] = Seen(i)]
        /\ pc' = [pc EXCEPT ![w] = "write"]
        /\ UNCHANGED <<batch, snapshot, age, outcome>>
    BY <1>1, <1>2
  <2>2. OthersStay(w) /\ pc'[w] = "write" /\ seen'[w] = Seen(i)
    BY <2>1 DEF OthersStay, Shape, TypeOK
  <2> QED BY <1>1, <1>2, <2>1, <2>2
<1>3. CASE i \notin Stored
  <2>1. After(w, i)
    BY <1>1, <1>3
  <2>2. /\ OthersStay(w)
        /\ batch'[w] = batch[w] \ {i} /\ pc'[w] \in {"idle", "publish"}
        /\ outcome'[w] \in {"none", "queued"}
        /\ \A j \in Record \ {i} : snapshot'[w][j] = snapshot[w][j]
    BY <2>1, AfterStep DEF OthersStay, Shape
  <2> QED BY <1>1, <1>3, <2>2
<1> QED BY <1>2, <1>3

(* A publication's steps change nothing in the table and in the batches. *)
LEMMA PublishEffect ==
  ASSUME Shape, NEW w \in Publisher,
         MessageAcked(w) \/ MessageRefused(w) \/ PublishReturns(w) \/ PublishRaises(w)
  PROVE  \E i \in Record :
           /\ pc[w] = "publish"
           /\ OthersStay(w)
           /\ UNCHANGED <<rows, batch, snapshot, seen, operator, operated, resent,
                          crashes, stale>>
           /\ \/ /\ IsNext(w, i) /\ pc'[w] = "publish" /\ outcome'[w] = "acked"
                 /\ log' = Append(log, i) /\ failures' = failures
              \/ /\ pc'[w] = "publish" /\ outcome'[w] = "refused"
                 /\ log' = log /\ failures' = failures
              \/ /\ pc'[w] = "mark" /\ outcome[w] = "acked" /\ outcome'[w] = "published"
                 /\ log' = log /\ failures' = failures
              \/ /\ IsNext(w, i) /\ pc'[w] = "mark"
                 /\ outcome'[w] = IF Exhausted(snapshot[w][i]) THEN "dead_letter" ELSE "retry"
                 /\ log' = log /\ failures' = [failures EXCEPT ![i] = @ + 1]
<1>1. CASE MessageAcked(w)
  <2>1. PICK i \in Record :
          /\ pc[w] = "publish" /\ outcome[w] = "queued" /\ IsNext(w, i)
          /\ log' = Append(log, i)
          /\ outcome' = [outcome EXCEPT ![w] = "acked"]
          /\ UNCHANGED <<rows, pc, batch, snapshot, age, seen, queue, operator, failures,
                         operated, resent, crashes, stale>>
    BY <1>1 DEF MessageAcked
  <2>2. OthersStay(w) /\ outcome'[w] = "acked"
    BY <2>1 DEF OthersStay, Shape, TypeOK
  <2> QED BY <2>1, <2>2
<1>2. CASE MessageRefused(w)
  <2>1. OthersStay(w) /\ outcome'[w] = "refused"
    BY <1>2 DEF MessageRefused, OthersStay, Shape, TypeOK
  <2> QED BY <1>2, <2>1, RecordFacts DEF MessageRefused
<1>3. CASE PublishReturns(w)
  <2>1. OthersStay(w) /\ outcome'[w] = "published" /\ pc'[w] = "mark"
    BY <1>3 DEF PublishReturns, OthersStay, Shape, TypeOK
  <2> QED BY <1>3, <2>1, RecordFacts DEF PublishReturns, Published
<1>4. CASE PublishRaises(w)
  <2>1. PICK i \in Record :
          /\ pc[w] = "publish" /\ IsNext(w, i)
          /\ failures' = [failures EXCEPT ![i] = @ + 1]
          /\ outcome' = [outcome EXCEPT ![w] =
                IF Exhausted(snapshot[w][i]) THEN "dead_letter" ELSE "retry"]
          /\ pc' = [pc EXCEPT ![w] = "mark"]
          /\ UNCHANGED <<rows, batch, snapshot, age, seen, log, operator, operated,
                         resent, crashes, stale>>
    BY <1>4 DEF PublishRaises
  <2>2. /\ OthersStay(w) /\ pc'[w] = "mark"
        /\ outcome'[w] = IF Exhausted(snapshot[w][i]) THEN "dead_letter" ELSE "retry"
    BY <2>1 DEF OthersStay, Shape, TypeOK
  <2> QED BY <2>1, <2>2
<1> QED BY <1>1, <1>2, <1>3, <1>4

(* A publisher that ends leaves the table alone; if it was in the middle of  *)
(* a batch, it crashed, or the record it was at was deleted.                 *)
LEMMA EndEffect ==
  ASSUME Shape, NEW w \in Publisher, WriteStale(w) \/ Crash(w) \/ Exit(w)
  PROVE  /\ OthersStay(w) /\ batch'[w] = {} /\ pc'[w] = "idle" /\ outcome'[w] = "none"
         /\ UNCHANGED <<rows, log, operator, failures, operated, resent>>
         /\ \/ crashes' = crashes + 1 /\ stale' = stale
            \/ /\ crashes' = crashes /\ stale' = stale + 1
               /\ \E k \in batch[w] : k \notin Stored
            \/ crashes' = crashes /\ stale' = stale /\ batch[w] = {}
<1>1. Stop(w) /\ UNCHANGED <<rows, log, operator, failures, operated, resent>>
  BY DEF WriteStale, Crash, Exit
<1>2. /\ OthersStay(w) /\ batch'[w] = {} /\ pc'[w] = "idle" /\ outcome'[w] = "none"
  BY <1>1, StopStep DEF OthersStay, Shape
<1>3. CASE WriteStale(w)
  <2>1. PICK i \in Record \ Stored : IsNext(w, i)
    BY <1>3 DEF WriteStale
  <2>2. i \in batch[w]
    BY <2>1 DEF IsNext
  <2> QED BY <1>1, <1>2, <1>3, <2>2 DEF WriteStale
<1>4. CASE Exit(w)
  BY <1>1, <1>2, <1>4 DEF Exit, Shape, BatchShape
<1>5. CASE Crash(w)
  BY <1>1, <1>2, <1>5 DEF Crash
<1> QED BY <1>3, <1>4, <1>5

(* What the operator and the clock do to the table. *)
LEMMA OperatorWriteEffect ==
  ASSUME Shape, OperatorWrites
  PROVE  LET i == operator.record IN
         /\ i \in Record /\ operator.verdict \in {"retry", "dead_letter"}
         /\ \A j \in Record \ {i} : rows'[j] = rows[j]
         /\ rows'[i].status \in {rows[i].status, operator.verdict}
         /\ operator' = NoAction
         /\ UNCHANGED <<publishers, queue, log, failures, operated, resent, crashes, stale>>
<1> DEFINE i == operator.record
<1>1. PICK at \in {0, RetryDelay} :
        /\ operator # NoAction
        /\ rows' = IF i \in Stored
                   THEN [rows EXCEPT ![i] = Marked(rows[i], operator.seen,
                                                   operator.verdict, at)]
                   ELSE rows
        /\ operator' = NoAction
        /\ UNCHANGED <<publishers, queue, log, failures, operated, resent, crashes, stale>>
  BY DEF OperatorWrites
<1>2. i \in Record /\ operator.verdict \in {"retry", "dead_letter"}
  BY <1>1 DEF Shape, TypeOK, OperatorShape
<1>3. /\ \A j \in Record \ {i} : rows'[j] = rows[j]
      /\ rows'[i] \in {rows[i], Marked(rows[i], operator.seen, operator.verdict, at)}
  <2>1. CASE i \in Stored
    BY <1>1, <1>2, <2>1 DEF Shape, TypeOK
  <2>2. CASE i \notin Stored
    BY <1>1, <2>2
  <2> QED BY <2>1, <2>2
<1>4. rows'[i].status \in {rows[i].status, operator.verdict}
  BY <1>3 DEF Marked
<1> QED BY <1>1, <1>2, <1>3, <1>4

LEMMA OperatorReadEffect ==
  ASSUME Shape, OperatorReads
  PROVE  \E i \in Record :
           /\ rows[i].status \notin {"absent", "deleted"}
           /\ operator.verdict = "none"
           /\ operator'.verdict # "none" /\ operator'.record = i
           /\ operated'[i] = operated[i] + 1
           /\ \A j \in Record \ {i} : operated'[j] = operated[j]
           /\ UNCHANGED <<rows, publishers, queue, log, failures, resent, crashes, stale>>
<1>1. PICK i \in Stored, verdict \in {"retry", "dead_letter"} :
        /\ operator = NoAction
        /\ operator' = [ verdict |-> verdict, record |-> i, seen |-> Seen(i) ]
        /\ operated' = [operated EXCEPT ![i] = @ + 1]
        /\ UNCHANGED <<rows, publishers, queue, log, failures, resent, crashes, stale>>
  BY DEF OperatorReads
<1>2. i \in Record /\ rows[i].status \notin {"absent", "deleted"}
  BY DEF Stored
<1>3. /\ operator.verdict = "none"
      /\ operator'.verdict # "none" /\ operator'.record = i
  BY <1>1, EmptyTypes
<1>4. /\ operated'[i] = operated[i] + 1
      /\ \A j \in Record \ {i} : operated'[j] = operated[j]
  BY <1>1, <1>2 DEF Shape, TypeOK
<1> QED BY <1>1, <1>2, <1>3, <1>4

(* Rows appear, disappear or grow older. *)
LEMMA TableEffect ==
  ASSUME Shape, StoreRendered \/ SomeDeleted \/ Tick
  PROVE  /\ UNCHANGED <<pc, batch, snapshot, outcome, seen, log, operator, failures,
                        operated, resent, crashes, stale>>
         /\ \A i \in Record :
              \/ rows[i].status = "absent" /\ rows'[i].status = "pending"
                 /\ rows'[i].attemptCount = 0
              \/ rows'[i].status = "deleted"
              \/ /\ rows'[i].status = rows[i].status
                 /\ rows'[i].attemptCount = rows[i].attemptCount
                 /\ Seen(i)' = Seen(i)
<1>1. CASE StoreRendered
  <2>1. PICK revision \in Revision :
          /\ \A i \in RecordsOf(revision) : rows[i].status = "absent"
          /\ rows' = [i \in Record |->
                IF i \in RecordsOf(revision) THEN Blank("pending") ELSE rows[i]]
          /\ UNCHANGED <<publishers, queue, log, operator, failures, operated, resent,
                         crashes, stale>>
    BY <1>1 DEF StoreRendered
  <2>2. \A i \in Record : \/ rows[i].status = "absent" /\ rows'[i] = Blank("pending")
                          \/ rows'[i] = rows[i]
    BY <2>1
  <2> QED BY <2>1, <2>2 DEF publishers, Blank, Seen
<1>2. CASE SomeDeleted
  <2>1. \A i \in Record : rows'[i] = Blank("deleted") \/ rows'[i] = rows[i]
    BY <1>2 DEF SomeDeleted, DeleteForAgent
  <2> QED BY <1>2, <2>1 DEF SomeDeleted, DeleteForAgent, publishers, Blank, Seen
<1>3. CASE Tick
  <2> DEFINE lease(row) == IF row.leaseExpiresAt = NoLease THEN row.leaseExpiresAt
                           ELSE Sooner(row.leaseExpiresAt)
  <2> DEFINE Later(row) == [row EXCEPT !.nextAttemptAt = Sooner(@),
                                       !.leaseExpiresAt = lease(row)]
  <2>1. \A i \in Record : rows'[i] = Later(rows[i])
    BY <1>3 DEF Tick
  <2>2. \A row \in Row : /\ Later(row).status = row.status
                         /\ Later(row).attemptCount = row.attemptCount
                         /\ Later(row).leaseExpiresAt = lease(row)
    BY DEF Row
  <2>3. \A row \in Row : lease(row) = NoLease <=> row.leaseExpiresAt = NoLease
    BY NoLeaseAssumption DEF Row, Sooner
  <2> HIDE DEF lease, Later
  <2>4. \A i \in Record :
          /\ rows'[i].status = rows[i].status
          /\ rows'[i].attemptCount = rows[i].attemptCount
          /\ rows'[i].leaseExpiresAt = NoLease <=> rows[i].leaseExpiresAt = NoLease
    BY <2>1, <2>2, <2>3 DEF Shape, TypeOK
  <2> QED BY <1>3, <2>4 DEF Tick, Seen
<1> QED BY <1>1, <1>2, <1>3

-----------------------------------------------------------------------------
(* "published" is earned.                                                  *)

AckedWasLogged ==
  \A w \in Publisher, i \in Record :
    IsNext(w, i) /\ outcome[w] \in {"acked", "published"} => Logged(i)

Earned == PublishedWasLogged /\ AckedWasLogged

(* What is in the topic stays there. *)
LEMMA LogGrows ==
  ASSUME TypeOK, NEW i \in Record, log' = log \/ \E k \in Record : log' = Append(log, k)
  PROVE  Logged(i) => Logged(i)'
<1>1. CASE log' = log
  BY <1>1 DEF Logged
<1>2. ASSUME NEW k \in Record, log' = Append(log, k), NEW n \in DOMAIN log, log[n] = i
      PROVE  Logged(i)'
  <2>0. log \in Seq(Record)
    BY DEF TypeOK
  <2>1. log \in Seq(Record) /\ n \in 1..Len(log)
    BY <1>2, <2>0
  <2> DEFINE longer == Append(log, k)
  <2>2. /\ longer \in Seq(Record)
        /\ Len(longer) = Len(log) + 1
        /\ \A m \in 1..Len(log) : longer[m] = log[m]
    BY <2>1, AppendProperties, Zenon
  <2>3. log' = longer
    BY <1>2
  <2> HIDE DEF longer
  <2>4. n \in DOMAIN longer /\ longer[n] = i
    BY <1>2, <2>1, <2>2
  <2> QED BY <2>3, <2>4 DEF Logged
<1> QED BY <1>1, <1>2 DEF Logged

LEMMA LogHasLast ==
  ASSUME TypeOK, NEW i \in Record, log' = Append(log, i)
  PROVE  Logged(i)'
<1>1. log \in Seq(Record)
  BY DEF TypeOK
<1>2. Len(log') = Len(log) + 1 /\ log'[Len(log) + 1] = i /\ log' \in Seq(Record)
  BY <1>1, AppendProperties
<1>3. Len(log) + 1 \in DOMAIN log'
  BY <1>1, <1>2
<1> QED BY <1>2, <1>3 DEF Logged

(* A publisher that has not moved is acknowledged for the same record. *)
LEMMA EarnedStep ==
  ASSUME Shape, Earned,
         log' = log \/ \E k \in Record : log' = Append(log, k),
         \A i \in Record : rows'[i].status = "published" =>
            rows[i].status = "published" \/ Logged(i),
         \A w \in Publisher :
            \/ batch'[w] = batch[w] /\ outcome'[w] = outcome[w]
            \/ outcome'[w] \notin {"acked", "published"}
            \/ batch'[w] = batch[w] /\ outcome[w] = "acked"
            \/ \E i \in Record : batch'[w] = batch[w] /\ IsNext(w, i) /\ Logged(i)'
  PROVE  Earned'
<1>1. \A i \in Record : Logged(i) => Logged(i)'
  BY LogGrows DEF Shape
<1>2. PublishedWasLogged'
  BY <1>1 DEF Earned, PublishedWasLogged
<1>3. ASSUME NEW w \in Publisher, NEW i \in Record, IsNext(w, i)',
             outcome'[w] \in {"acked", "published"}
      PROVE  Logged(i)'
  <2>1. batch'[w] = batch[w]
    BY <1>3
  <2>2. IsNext(w, i)
    BY <1>3, <2>1 DEF IsNext
  <2>3. CASE outcome[w] \in {"acked", "published"}
    BY <1>1, <2>2, <2>3 DEF Earned, AckedWasLogged
  <2>4. ASSUME NEW k \in Record, IsNext(w, k), Logged(k)' PROVE Logged(i)'
    BY <2>2, <2>4, NextIsOne DEF Shape
  <2> QED BY <1>3, <2>3, <2>4
<1> QED BY <1>2, <1>3 DEF Earned, AckedWasLogged

LEMMA EarnedNext ==
  ASSUME Shape, Earned, [Next]_vars
  PROVE  Earned'
<1>1. ASSUME StoreRendered \/ SomeDeleted \/ Tick PROVE Earned'
  <2>1. /\ UNCHANGED <<batch, outcome, log>>
        /\ \A i \in Record : rows'[i].status = "published" => rows[i].status = "published"
    BY <1>1, TableEffect
  <2> QED BY <2>1, EarnedStep
<1>2. ASSUME NEW w \in Publisher, ReserveAvailable(w) PROVE Earned'
  <2>1. /\ OthersStay(w) /\ outcome'[w] = "queued" /\ log' = log
        /\ \A i \in Record : rows'[i].status = "published" => rows[i].status = "published"
    BY <1>2, ReserveEffect
  <2> QED BY <2>1, EarnedStep DEF OthersStay
<1>3. ASSUME NEW w \in Publisher,
             MessageAcked(w) \/ MessageRefused(w) \/ PublishReturns(w) \/ PublishRaises(w)
      PROVE  Earned'
  <2>1. PICK i \in Record :
           /\ OthersStay(w) /\ UNCHANGED <<rows, batch>>
           /\ \/ IsNext(w, i) /\ log' = Append(log, i)
              \/ outcome'[w] = "refused" /\ log' = log
              \/ outcome[w] = "acked" /\ log' = log
              \/ outcome'[w] \in {"dead_letter", "retry"} /\ log' = log
    BY <1>3, PublishEffect
  <2>2. log' = Append(log, i) => Logged(i)'
    BY LogHasLast DEF Shape
  <2>3. \A v \in Publisher :
            \/ batch'[v] = batch[v] /\ outcome'[v] = outcome[v]
            \/ outcome'[v] \notin {"acked", "published"}
            \/ batch'[v] = batch[v] /\ outcome[v] = "acked"
            \/ \E k \in Record : batch'[v] = batch[v] /\ IsNext(v, k) /\ Logged(k)'
    BY <2>1, <2>2 DEF OthersStay
  <2> QED BY <2>1, <2>3, EarnedStep
<1>4. ASSUME NEW w \in Publisher, LateDelivery(w) \/ MessageResent(w) PROVE Earned'
  <2>1. /\ UNCHANGED <<rows, batch, outcome>>
        /\ log' = log \/ \E k \in Record : log' = Append(log, k)
    BY <1>4 DEF LateDelivery, MessageResent, publishers
  <2> QED BY <2>1, EarnedStep
<1>5. ASSUME NEW w \in Publisher, ReadRow(w) PROVE Earned'
  <2>1. /\ OthersStay(w) /\ UNCHANGED <<rows, log>>
        /\ \/ batch'[w] = batch[w] /\ outcome'[w] = outcome[w]
           \/ outcome'[w] \in {"none", "queued"}
    BY <1>5, ReadEffect
  <2> QED BY <2>1, EarnedStep DEF OthersStay
<1>6. ASSUME NEW w \in Publisher, WriteRow(w) PROVE Earned'
  <2>1. PICK i \in Stored :
           /\ IsNext(w, i) /\ OthersStay(w) /\ outcome'[w] \in {"none", "queued"}
           /\ \A j \in Record \ {i} : rows'[j] = rows[j]
           /\ rows'[i].status = IF seen[w].status = outcome[w] THEN rows[i].status
                                ELSE outcome[w]
           /\ log' = log
    BY <1>6, WriteEffect
  <2>2. rows'[i].status = "published" => rows[i].status = "published" \/ Logged(i)
    BY <2>1 DEF Earned, AckedWasLogged, Stored
  <2>3. \A j \in Record : rows'[j].status = "published" =>
            rows[j].status = "published" \/ Logged(j)
    BY <2>1, <2>2
  <2> QED BY <2>1, <2>3, EarnedStep DEF OthersStay
<1>7. ASSUME NEW w \in Publisher, WriteStale(w) \/ Crash(w) \/ Exit(w) PROVE Earned'
  <2>1. OthersStay(w) /\ outcome'[w] = "none" /\ UNCHANGED <<rows, log>>
    BY <1>7, EndEffect
  <2> QED BY <2>1, EarnedStep DEF OthersStay
<1>8. ASSUME OperatorReads PROVE Earned'
  <2>1. UNCHANGED <<rows, batch, outcome, log>>
    BY <1>8, OperatorReadEffect DEF publishers
  <2> QED BY <2>1, EarnedStep
<1>9. ASSUME OperatorWrites PROVE Earned'
  <2>1. /\ UNCHANGED <<batch, outcome, log>>
        /\ \A i \in Record : rows'[i].status = "published" => rows[i].status = "published"
    BY <1>9, OperatorWriteEffect DEF publishers
  <2> QED BY <2>1, EarnedStep
<1>10. CASE UNCHANGED vars
  BY <1>10, EarnedStep DEF vars, publishers
<1> QED BY <1>1, <1>2, <1>3, <1>4, <1>5, <1>6, <1>7, <1>8, <1>9, <1>10
          DEF Next, SomeDeleted

-----------------------------------------------------------------------------
(* How many hands a record can be in.                                      *)

Open(i) == rows[i].status \in {"pending", "retry"}

Meddled(i) == operator.verdict # "none" /\ operator.record = i

One(holds) == IF holds THEN 1 ELSE 0

(* A record is taken up once; each operator's action, from its start on, may *)
(* be the cause of one more reservation, and a mark of its own.            *)
HandsCounted(i) ==
  Cardinality(Holders(i)) + One(Open(i)) + One(Meddled(i)) <= 1 + operated[i]

Hands == \A i \in Record : HandsCounted(i)

LEMMA HoldersFacts ==
  ASSUME NEW i
  PROVE  /\ Holders(i) \subseteq Publisher
         /\ IsFiniteSet(Holders(i)) /\ Cardinality(Holders(i)) \in Nat
         /\ \A w : Cardinality(Holders(i) \cup {w}) <= Cardinality(Holders(i)) + 1
         /\ \A w \in Holders(i) : Cardinality(Holders(i) \ {w}) = Cardinality(Holders(i)) - 1
<1>1. Holders(i) \subseteq Publisher
  BY DEF Holders
<1>2. IsFiniteSet(Holders(i))
  BY <1>1, PublisherAssumption, FS_Subset
<1>3. Cardinality(Holders(i)) \in Nat
  BY <1>2, FS_CardinalityType
<1>4. \A w : Cardinality(Holders(i) \cup {w}) <= Cardinality(Holders(i)) + 1
  BY <1>2, <1>3, FS_AddElement
<1>5. \A w \in Holders(i) : Cardinality(Holders(i) \ {w}) = Cardinality(Holders(i)) - 1
  BY <1>2, FS_RemoveElement
<1> QED BY <1>1, <1>2, <1>3, <1>4, <1>5

(* The four ways of a record's account to change. *)
LEMMA HandsStep ==
  ASSUME Shape, NEW i \in Record, HandsCounted(i),
         \/ /\ Holders(i)' \subseteq Holders(i)
            /\ \/ Open(i)' => Open(i)
               \/ Holders(i) = {} /\ ~Meddled(i)
               \/ Meddled(i) /\ ~Meddled(i)'
               \/ \E w \in Holders(i) : w \notin Holders(i)'
            /\ Meddled(i)' => Meddled(i)
            /\ operated'[i] = operated[i]
         \/ \E w : /\ Holders(i)' \subseteq Holders(i) \cup {w}
                   /\ Open(i) /\ ~Open(i)'
                   /\ Meddled(i)' => Meddled(i)
                   /\ operated'[i] = operated[i]
         \/ /\ Holders(i)' = Holders(i) /\ (Open(i)' => Open(i))
            /\ operated'[i] = operated[i] + 1
  PROVE  HandsCounted(i)'
<1> DEFINE c == Cardinality(Holders(i))
<1> DEFINE d == Cardinality(Holders(i)')
<1>1. c \in Nat /\ operated[i] \in Nat
  BY HoldersFacts DEF Shape, TypeOK
<1>2. ASSUME Holders(i)' \subseteq Holders(i) PROVE d \in Nat /\ d <= c
  BY <1>2, HoldersFacts, FS_Subset, FS_CardinalityType
<1>3. c + One(Open(i)) + One(Meddled(i)) <= 1 + operated[i]
  BY DEF HandsCounted
<1>4. Holders(i) = {} => c = 0
  BY FS_EmptySet
<1>5. ASSUME NEW w \in Holders(i), w \notin Holders(i)', Holders(i)' \subseteq Holders(i)
      PROVE  d \in Nat /\ d <= c - 1
  <2>1. Holders(i)' \subseteq Holders(i) \ {w} /\ IsFiniteSet(Holders(i) \ {w})
    BY <1>5, HoldersFacts, FS_RemoveElement
  <2>2. Cardinality(Holders(i) \ {w}) = c - 1
    BY HoldersFacts
  <2>3. d \in Nat /\ d <= Cardinality(Holders(i) \ {w})
    BY <2>1, FS_Subset, FS_CardinalityType
  <2> QED BY <2>2, <2>3
<1>6. ASSUME NEW w, Holders(i)' \subseteq Holders(i) \cup {w} PROVE d \in Nat /\ d <= c + 1
  <2>1. IsFiniteSet(Holders(i) \cup {w}) /\ Cardinality(Holders(i) \cup {w}) <= c + 1
    BY HoldersFacts, FS_AddElement
  <2>2. d \in Nat /\ d <= Cardinality(Holders(i) \cup {w})
    BY <1>6, <2>1, FS_Subset, FS_CardinalityType
  <2>3. Cardinality(Holders(i) \cup {w}) \in Nat
    BY <2>1, FS_CardinalityType
  <2> QED BY <1>1, <2>1, <2>2, <2>3
<1>7. Holders(i)' = Holders(i) => d = c
  OBVIOUS
<1> HIDE DEF c, d
<1>8. d + One(Open(i)') + One(Meddled(i)') <= 1 + operated'[i]
  <2>1. CASE /\ Holders(i)' \subseteq Holders(i)
             /\ \/ Open(i)' => Open(i)
                \/ Holders(i) = {} /\ ~Meddled(i)
                \/ Meddled(i) /\ ~Meddled(i)'
                \/ \E w \in Holders(i) : w \notin Holders(i)'
             /\ Meddled(i)' => Meddled(i)
             /\ operated'[i] = operated[i]
    <3>1. d \in Nat /\ d <= c
      BY <1>2, <2>1
    <3>2. CASE \E w \in Holders(i) : w \notin Holders(i)'
      BY <1>1, <1>3, <1>5, <2>1, <3>1, <3>2 DEF One
    <3>3. CASE Holders(i) = {} /\ ~Meddled(i)
      BY <1>1, <1>3, <1>4, <2>1, <3>1, <3>3 DEF One
    <3> QED BY <1>1, <1>3, <2>1, <3>1, <3>2, <3>3 DEF One
  <2>2. ASSUME NEW w, Holders(i)' \subseteq Holders(i) \cup {w}, Open(i), ~Open(i)',
               Meddled(i)' => Meddled(i), operated'[i] = operated[i]
        PROVE  d + One(Open(i)') + One(Meddled(i)') <= 1 + operated'[i]
    BY <1>1, <1>3, <1>6, <2>2 DEF One
  <2>3. CASE /\ Holders(i)' = Holders(i) /\ (Open(i)' => Open(i))
             /\ operated'[i] = operated[i] + 1
    BY <1>1, <1>3, <1>7, <2>3 DEF One
  <2> QED BY <2>1, <2>2, <2>3
<1> QED BY <1>8 DEF HandsCounted, c, d, One

(* A row that does not exist is in nobody's hands. *)
LEMMA AbsentIsFree ==
  ASSUME Shape, NEW i \in Record, rows[i].status = "absent"
  PROVE  Holders(i) = {} /\ ~Meddled(i)
BY DEF Shape, BatchShape, OperatorShape, Holders, Meddled

(* Publishers but w keep what they hold. *)
LEMMA HoldersOthers ==
  ASSUME NEW w \in Publisher, OthersStay(w), NEW i
  PROVE  /\ batch'[w] \subseteq batch[w] => Holders(i)' \subseteq Holders(i)
         /\ i \notin batch'[w] => Holders(i)' = Holders(i) \ {w}
         /\ (i \in batch'[w] <=> i \in batch[w]) => Holders(i)' = Holders(i)
         /\ Holders(i)' \subseteq Holders(i) \cup {w}
BY DEF OthersStay, Holders

LEMMA HandsNext ==
  ASSUME Shape, Hands, [Next]_vars
  PROVE  Hands'
<1> SUFFICES ASSUME NEW i \in Record PROVE HandsCounted(i)'
  BY DEF Hands
<1>0. HandsCounted(i)
  BY DEF Hands
<1>1. ASSUME StoreRendered \/ SomeDeleted \/ Tick PROVE HandsCounted(i)'
  <2>1. /\ UNCHANGED <<batch, operator, operated>>
        /\ \/ rows[i].status = "absent" /\ rows'[i].status = "pending"
           \/ rows'[i].status = "deleted"
           \/ rows'[i].status = rows[i].status
    BY <1>1, TableEffect
  <2>2. Holders(i)' = Holders(i) /\ Meddled(i)' = Meddled(i)
    BY <2>1 DEF Holders, Meddled
  <2>3. (Open(i)' => Open(i)) \/ (Holders(i) = {} /\ ~Meddled(i))
    BY <2>1, AbsentIsFree DEF Open
  <2> QED BY <1>0, <2>1, <2>2, <2>3, HandsStep
<1>2. ASSUME NEW w \in Publisher, ReserveAvailable(w) PROVE HandsCounted(i)'
  <2>1. PICK taken \in SUBSET Record :
           /\ pc[w] = "idle" /\ OthersStay(w) /\ batch'[w] = taken
           /\ \A j \in taken : rows[j].status \in {"pending", "retry"}
           /\ rows'[i].status = IF i \in taken THEN "inflight" ELSE rows[i].status
           /\ UNCHANGED <<operator, operated>>
    BY <1>2, ReserveEffect
  <2>2. batch[w] = {}
    BY <2>1 DEF Shape, BatchShape
  <2>3. Meddled(i)' = Meddled(i)
    BY <2>1 DEF Meddled
  <2>4. CASE i \in taken
    <3>1. Holders(i)' \subseteq Holders(i) \cup {w} /\ Open(i) /\ ~Open(i)'
      BY <2>1, <2>4, HoldersOthers DEF Open
    <3> QED BY <1>0, <2>1, <2>3, <3>1, HandsStep
  <2>5. CASE i \notin taken
    <3>1. Holders(i)' = Holders(i) /\ Open(i)' = Open(i)
      BY <2>1, <2>2, <2>5, HoldersOthers DEF Open
    <3> QED BY <1>0, <2>1, <2>3, <3>1, HandsStep
  <2> QED BY <2>4, <2>5
<1>3. ASSUME UNCHANGED <<rows, batch, operator, operated>> PROVE HandsCounted(i)'
  BY <1>0, <1>3, HandsStep DEF Holders, Open, Meddled
<1>4. ASSUME NEW w \in Publisher,
             MessageAcked(w) \/ MessageRefused(w) \/ PublishReturns(w) \/ PublishRaises(w)
      PROVE  HandsCounted(i)'
  BY <1>3, <1>4, PublishEffect
<1>5. ASSUME NEW w \in Publisher, LateDelivery(w) \/ MessageResent(w)
      PROVE  HandsCounted(i)'
  BY <1>3, <1>5 DEF LateDelivery, MessageResent, publishers
<1>6. ASSUME NEW w \in Publisher, OthersStay(w), batch'[w] \subseteq batch[w],
             UNCHANGED <<rows, operator, operated>>
      PROVE  HandsCounted(i)'
  <2>1. Holders(i)' \subseteq Holders(i)
    BY <1>6, HoldersOthers
  <2>2. Open(i)' = Open(i) /\ Meddled(i)' = Meddled(i)
    BY <1>6 DEF Open, Meddled
  <2> QED BY <1>0, <1>6, <2>1, <2>2, HandsStep
<1>7. ASSUME NEW w \in Publisher, ReadRow(w) PROVE HandsCounted(i)'
  <2>1. /\ OthersStay(w) /\ batch'[w] \subseteq batch[w]
        /\ UNCHANGED <<rows, operator, operated>>
    BY <1>7, ReadEffect
  <2> QED BY <1>6, <2>1
<1>8. ASSUME NEW w \in Publisher, WriteRow(w) PROVE HandsCounted(i)'
  <2>1. PICK k \in Stored :
           /\ IsNext(w, k) /\ OthersStay(w) /\ batch'[w] = batch[w] \ {k}
           /\ \A j \in Record \ {k} : rows'[j] = rows[j]
           /\ UNCHANGED <<operator, operated>>
    BY <1>8, WriteEffect
  <2>2. Holders(i)' \subseteq Holders(i) /\ Meddled(i)' = Meddled(i)
    BY <2>1, HoldersOthers DEF Meddled
  <2>3. CASE i = k
    <3>1. w \in Holders(i) /\ w \notin Holders(i)'
      BY <2>1, <2>3, HoldersOthers DEF IsNext, Holders
    <3> QED BY <1>0, <2>1, <2>2, <3>1, HandsStep
  <2>4. CASE i # k
    <3>1. Open(i)' = Open(i)
      BY <2>1, <2>4 DEF Open
    <3> QED BY <1>0, <2>1, <2>2, <3>1, HandsStep
  <2> QED BY <2>3, <2>4
<1>9. ASSUME NEW w \in Publisher, WriteStale(w) \/ Crash(w) \/ Exit(w) PROVE HandsCounted(i)'
  <2>1. /\ OthersStay(w) /\ batch'[w] \subseteq batch[w]
        /\ UNCHANGED <<rows, operator, operated>>
    BY <1>9, EndEffect
  <2> QED BY <1>6, <2>1
<1>10. ASSUME OperatorReads PROVE HandsCounted(i)'
  <2>1. PICK k \in Record :
           /\ operator.verdict = "none"
           /\ operator'.verdict # "none" /\ operator'.record = k
           /\ operated'[k] = operated[k] + 1
           /\ \A j \in Record \ {k} : operated'[j] = operated[j]
           /\ UNCHANGED <<rows, batch>>
    BY <1>10, OperatorReadEffect DEF publishers
  <2>2. Holders(i)' = Holders(i) /\ Open(i)' = Open(i)
    BY <2>1 DEF Holders, Open
  <2>3. CASE i = k
    BY <1>0, <2>1, <2>2, <2>3, HandsStep
  <2>4. CASE i # k
    <3>1. ~Meddled(i)' /\ operated'[i] = operated[i]
      BY <2>1, <2>4 DEF Meddled
    <3> QED BY <1>0, <2>2, <3>1, HandsStep
  <2> QED BY <2>3, <2>4
<1>11. ASSUME OperatorWrites PROVE HandsCounted(i)'
  <2> DEFINE k == operator.record
  <2>1. /\ k \in Record /\ operator.verdict \in {"retry", "dead_letter"}
        /\ \A j \in Record \ {k} : rows'[j] = rows[j]
        /\ operator' = NoAction
        /\ UNCHANGED <<batch, operated>>
    BY <1>11, OperatorWriteEffect DEF publishers
  <2>2. Holders(i)' = Holders(i) /\ ~Meddled(i)' /\ operated'[i] = operated[i]
    BY <2>1, EmptyTypes DEF Holders, Meddled
  <2>3. CASE i = k
    <3>1. Meddled(i)
      BY <2>1, <2>3 DEF Meddled
    <3> QED BY <1>0, <2>2, <3>1, HandsStep
  <2>4. CASE i # k
    <3>1. Open(i)' = Open(i)
      BY <2>1, <2>4 DEF Open
    <3> QED BY <1>0, <2>2, <3>1, HandsStep
  <2> QED BY <2>3, <2>4
<1>12. CASE UNCHANGED vars
  BY <1>3, <1>12 DEF vars, publishers
<1> QED BY <1>1, <1>2, <1>4, <1>5, <1>7, <1>8, <1>9, <1>10, <1>11, <1>12
          DEF Next, SomeDeleted

-----------------------------------------------------------------------------
(* Who leaves a record inflight.                                           *)

(* Of a record's holders, those who are yet to write its status: a mark     *)
(* leaves alone a status it has read to be its own.                        *)
Agreed(w, i) == pc[w] = "write" /\ IsNext(w, i) /\ seen[w].status = outcome[w]

Sure(i) == {w \in Holders(i) : ~Agreed(w, i)}

IsOrphan(i) == rows[i].status = "inflight" /\ Sure(i) = {}

Orphans == {i \in Record : IsOrphan(i)}

Ended == crashes * BatchLimit + stale * (BatchLimit - 1)

Strand == Cardinality(Orphans) <= Ended

(* What ended publishers account for is a number of records. *)
LEMMA EndedIsNat ==
  ASSUME TypeOK PROVE Ended \in Nat
<1>1. crashes \in Nat /\ stale \in Nat /\ BatchLimit \in Nat /\ BatchLimit - 1 \in Nat
  BY SettingsAssumption DEF TypeOK
<1>2. \A m, n \in Nat : m * n \in Nat
  OBVIOUS
<1>3. crashes * BatchLimit \in Nat /\ stale * (BatchLimit - 1) \in Nat
  BY <1>1, <1>2
<1> QED BY <1>3 DEF Ended

(* Publishers but w are as sure as they were. *)
LEMMA SureOthers ==
  ASSUME NEW w \in Publisher, OthersStay(w), NEW i
  PROVE  /\ Sure(i) \ {w} \subseteq Sure(i)'
         /\ w \in Sure(i)' \/ w \notin Sure(i) => Sure(i) \subseteq Sure(i)'
BY DEF Sure, Agreed, Holders, OthersStay, IsNext

(* Where the status is written it is not inflight. *)
LEMMA OrphanSame ==
  ASSUME Shape, NEW i \in Record,
         rows'[i].status # "inflight" \/ rows'[i].status = rows[i].status,
         Sure(i) \subseteq Sure(i)'
  PROVE  IsOrphan(i)' => IsOrphan(i)
BY DEF IsOrphan

(* A publisher that ends makes orphans, of records that were in its batch,   *)
(* the deleted one it ended at left out.                                     *)
LEMMA OrphansNext ==
  ASSUME Shape, [Next]_vars
  PROVE  \/ Orphans' \subseteq Orphans /\ crashes' = crashes /\ stale' = stale
         \/ \E w \in Publisher :
              /\ Orphans' \subseteq Orphans \cup batch[w]
              /\ crashes' = crashes + 1 /\ stale' = stale
         \/ \E w \in Publisher : \E k \in batch[w] :
              /\ Orphans' \subseteq Orphans \cup (batch[w] \ {k})
              /\ crashes' = crashes /\ stale' = stale + 1
<1>1. ASSUME StoreRendered \/ SomeDeleted \/ Tick
      PROVE  Orphans' \subseteq Orphans /\ crashes' = crashes /\ stale' = stale
  <2>1. /\ UNCHANGED <<pc, batch, outcome, seen, crashes, stale>>
        /\ \A i \in Record : \/ rows'[i].status \in {"pending", "deleted"}
                             \/ rows'[i].status = rows[i].status
    BY <1>1, TableEffect
  <2>2. \A i : Sure(i)' = Sure(i)
    BY <2>1 DEF Sure, Agreed, Holders, IsNext
  <2> QED BY <2>1, <2>2, OrphanSame DEF Orphans
<1>2. ASSUME NEW w \in Publisher, ReserveAvailable(w)
      PROVE  Orphans' \subseteq Orphans /\ crashes' = crashes /\ stale' = stale
  <2>1. PICK taken \in SUBSET Record :
           /\ pc[w] = "idle" /\ OthersStay(w)
           /\ batch'[w] = taken /\ pc'[w] = "publish"
           /\ \A i \in Record :
                rows'[i].status = IF i \in taken THEN "inflight" ELSE rows[i].status
           /\ crashes' = crashes /\ stale' = stale
    BY <1>2, ReserveEffect
  <2>2. batch[w] = {}
    BY <2>1 DEF Shape, BatchShape
  <2>3. ASSUME NEW i \in Record PROVE IsOrphan(i)' => IsOrphan(i)
    <3>1. CASE i \in taken
      <4>1. w \in Sure(i)'
        BY <2>1, <3>1 DEF Sure, Agreed, Holders
      <4> QED BY <4>1 DEF IsOrphan
    <3>2. CASE i \notin taken
      <4>1. Sure(i) \subseteq Sure(i)'
        BY <2>1, <2>2, SureOthers DEF Sure, Holders
      <4> QED BY <2>1, <3>2, <4>1, OrphanSame
    <3> QED BY <3>1, <3>2
  <2> QED BY <2>1, <2>3 DEF Orphans
<1>3. ASSUME NEW w \in Publisher,
             MessageAcked(w) \/ MessageRefused(w) \/ PublishReturns(w) \/ PublishRaises(w)
      PROVE  Orphans' \subseteq Orphans /\ crashes' = crashes /\ stale' = stale
  <2>1. /\ OthersStay(w) /\ UNCHANGED <<rows, batch, crashes, stale>> /\ pc'[w] # "write"
    BY <1>3, PublishEffect
  <2>2. \A i : Sure(i) \subseteq Sure(i)'
    BY <2>1, SureOthers DEF Sure, Agreed, Holders
  <2> QED BY <2>1, <2>2, OrphanSame DEF Orphans
<1>4. ASSUME UNCHANGED <<rows, pc, batch, outcome, seen, crashes, stale>>
      PROVE  Orphans' \subseteq Orphans /\ crashes' = crashes /\ stale' = stale
  BY <1>4 DEF Orphans, IsOrphan, Sure, Agreed, Holders, IsNext
<1>5. ASSUME NEW w \in Publisher, LateDelivery(w) \/ MessageResent(w)
      PROVE  Orphans' \subseteq Orphans /\ crashes' = crashes /\ stale' = stale
  BY <1>4, <1>5 DEF LateDelivery, MessageResent, publishers
<1>6. ASSUME NEW w \in Publisher, ReadRow(w)
      PROVE  Orphans' \subseteq Orphans /\ crashes' = crashes /\ stale' = stale
  <2>1. PICK k \in Record :
           /\ pc[w] = "mark" /\ IsNext(w, k) /\ OthersStay(w)
           /\ \/ /\ k \in Stored /\ batch'[w] = batch[w] /\ pc'[w] = "write"
                 /\ outcome'[w] = outcome[w] /\ seen'[w] = Seen(k)
              \/ /\ k \notin Stored /\ batch'[w] = batch[w] \ {k}
                 /\ pc'[w] \in {"idle", "publish"}
           /\ UNCHANGED <<rows, resent, crashes, stale>>
    BY <1>6, ReadEffect
  <2>2. outcome[w] \in Verdict
    BY <2>1 DEF Shape, BatchShape
  <2>3. ASSUME NEW i \in Record PROVE IsOrphan(i)' => IsOrphan(i)
    <3>1. CASE i = k
      <4>1. CASE rows[k].status # "inflight"
        BY <2>1, <3>1, <4>1 DEF IsOrphan
      <4>2. CASE rows[k].status = "inflight"
        <5>1. k \in Stored
          BY <4>2 DEF Stored
        <5>2. seen'[w].status = "inflight" /\ outcome'[w] # "inflight"
          BY <2>1, <2>2, <4>2, <5>1 DEF Seen, Verdict
        <5>3. w \in Sure(i)'
          BY <2>1, <3>1, <5>1, <5>2 DEF Sure, Agreed, Holders, IsNext
        <5> QED BY <5>3 DEF IsOrphan
      <4> QED BY <4>1, <4>2
    <3>2. CASE i # k
      <4>1. w \in Sure(i) => w \in Sure(i)'
        <5>1. ~IsNext(w, i)
          BY <2>1, <3>2, NextIsOne DEF Shape
        <5>2. ASSUME w \in Sure(i), pc'[w] = "write" PROVE w \in Sure(i)'
          BY <2>1, <5>1, <5>2 DEF Sure, Agreed, Holders, IsNext
        <5>3. ASSUME w \in Sure(i), pc'[w] # "write" PROVE w \in Sure(i)'
          BY <2>1, <3>2, <5>3 DEF Sure, Agreed, Holders
        <5> QED BY <5>2, <5>3
      <4>2. Sure(i) \subseteq Sure(i)'
        BY <2>1, <4>1, SureOthers
      <4> QED BY <2>1, <4>2, OrphanSame
    <3> QED BY <3>1, <3>2
  <2> QED BY <2>1, <2>3 DEF Orphans
<1>7. ASSUME NEW w \in Publisher, WriteRow(w)
      PROVE  Orphans' \subseteq Orphans /\ crashes' = crashes /\ stale' = stale
  <2>1. PICK k \in Stored :
           /\ pc[w] = "write" /\ IsNext(w, k) /\ OthersStay(w)
           /\ batch'[w] = batch[w] \ {k} /\ pc'[w] \in {"idle", "publish"}
           /\ \A j \in Record \ {k} : rows'[j] = rows[j]
           /\ rows'[k].status = IF seen[w].status = outcome[w] THEN rows[k].status
                                ELSE outcome[w]
           /\ crashes' = crashes /\ stale' = stale
    BY <1>7, WriteEffect
  <2>2. outcome[w] # "inflight"
    BY <2>1 DEF Shape, BatchShape, Verdict
  <2>3. ASSUME NEW i \in Record PROVE IsOrphan(i)' => IsOrphan(i)
    <3>1. CASE i = k /\ seen[w].status # outcome[w]
      BY <2>1, <2>2, <3>1 DEF IsOrphan
    <3>2. CASE i = k /\ seen[w].status = outcome[w]
      <4>1. w \notin Sure(i)
        BY <2>1, <3>2 DEF Sure, Agreed
      <4>2. Sure(i) \subseteq Sure(i)'
        BY <2>1, <4>1, SureOthers
      <4> QED BY <2>1, <3>2, <4>2, OrphanSame
    <3>3. CASE i # k
      <4>1. w \in Sure(i) => w \in Sure(i)'
        BY <2>1, <3>3 DEF Sure, Agreed, Holders
      <4>2. Sure(i) \subseteq Sure(i)'
        BY <2>1, <4>1, SureOthers
      <4> QED BY <2>1, <3>3, <4>2, OrphanSame
    <3> QED BY <3>1, <3>2, <3>3
  <2> QED BY <2>1, <2>3 DEF Orphans
<1>8. ASSUME NEW w \in Publisher, WriteStale(w) \/ Crash(w) \/ Exit(w)
      PROVE  \/ Orphans' \subseteq Orphans /\ crashes' = crashes /\ stale' = stale
             \/ /\ Orphans' \subseteq Orphans \cup batch[w]
                /\ crashes' = crashes + 1 /\ stale' = stale
             \/ \E k \in batch[w] : /\ Orphans' \subseteq Orphans \cup (batch[w] \ {k})
                                    /\ crashes' = crashes /\ stale' = stale + 1
  <2>1. /\ OthersStay(w) /\ UNCHANGED rows
        /\ \/ crashes' = crashes + 1 /\ stale' = stale
           \/ /\ crashes' = crashes /\ stale' = stale + 1
              /\ \E k \in batch[w] : k \notin Stored
           \/ crashes' = crashes /\ stale' = stale /\ batch[w] = {}
    BY <1>8, EndEffect
  <2>2. ASSUME NEW i \in Record, i \notin batch[w] PROVE IsOrphan(i)' => IsOrphan(i)
    <3>1. Sure(i) \subseteq Sure(i)'
      BY <2>1, <2>2, SureOthers DEF Sure, Holders
    <3> QED BY <2>1, <3>1, OrphanSame
  <2>3. ASSUME NEW i \in Record, i \notin Stored PROVE ~IsOrphan(i)'
    BY <2>1, <2>3 DEF IsOrphan, Stored
  <2> QED BY <2>1, <2>2, <2>3 DEF Orphans
<1>9. ASSUME OperatorReads
      PROVE  Orphans' \subseteq Orphans /\ crashes' = crashes /\ stale' = stale
  BY <1>4, <1>9, OperatorReadEffect DEF publishers
<1>10. ASSUME OperatorWrites
       PROVE  Orphans' \subseteq Orphans /\ crashes' = crashes /\ stale' = stale
  <2>1. /\ UNCHANGED <<pc, batch, outcome, seen, crashes, stale>>
        /\ \A i \in Record : \/ rows'[i].status \in {"retry", "dead_letter"}
                             \/ rows'[i].status = rows[i].status
    BY <1>10, OperatorWriteEffect DEF publishers
  <2>2. \A i : Sure(i)' = Sure(i)
    BY <2>1 DEF Sure, Agreed, Holders, IsNext
  <2> QED BY <2>1, <2>2, OrphanSame DEF Orphans
<1>11. CASE UNCHANGED vars
  BY <1>4, <1>11 DEF vars, publishers
<1> QED BY <1>1, <1>2, <1>3, <1>5, <1>6, <1>7, <1>8, <1>9, <1>10, <1>11
          DEF Next, SomeDeleted

(* Each crash leaves a batch's worth of orphans at most, and each publisher  *)
(* that ended at a deleted record that worth without the record.             *)
LEMMA StrandStep ==
  ASSUME Shape, Strand, NEW left \in SUBSET Record, NEW n \in Nat,
         Cardinality(left) <= n, Orphans' \subseteq Orphans \cup left,
         Ended' = Ended + n
  PROVE  Strand'
<1> DEFINE c == Cardinality(Orphans)
<1> DEFINE d == Cardinality(Orphans')
<1> DEFINE b == Cardinality(left)
<1>1. IsFiniteSet(Orphans) /\ c \in Nat
  BY RecordFacts, FS_Subset, FS_CardinalityType DEF Orphans
<1>2. IsFiniteSet(left) /\ b \in Nat
  BY RecordFacts, FS_Subset, FS_CardinalityType
<1>3. /\ IsFiniteSet(Orphans \cup left)
      /\ Cardinality(Orphans \cup left) = c + b - Cardinality(Orphans \cap left)
  BY <1>1, <1>2, FS_Union
<1>4. Cardinality(Orphans \cap left) \in Nat
  BY <1>1, FS_Subset, FS_CardinalityType
<1>5. d \in Nat /\ d <= Cardinality(Orphans \cup left)
  BY <1>3, FS_Subset, FS_CardinalityType
<1>6. Ended \in Nat
  BY EndedIsNat DEF Shape
<1>7. c <= Ended /\ b <= n
  BY DEF Strand
<1> HIDE DEF b, c, d
<1>8. d <= Ended + n
  BY <1>1, <1>2, <1>3, <1>4, <1>5, <1>6, <1>7
<1> QED BY <1>8 DEF Strand, d

LEMMA StrandNext ==
  ASSUME Shape, Strand, [Next]_vars
  PROVE  Strand'
<1>1. crashes \in Nat /\ stale \in Nat /\ BatchLimit \in Nat /\ BatchLimit - 1 \in Nat
  BY SettingsAssumption DEF Shape, TypeOK
<1>2. CASE Orphans' \subseteq Orphans /\ crashes' = crashes /\ stale' = stale
  <2>1. Ended' = Ended + 0
    BY <1>1, <1>2 DEF Ended
  <2>2. {} \in SUBSET Record /\ Cardinality({}) <= 0 /\ 0 \in Nat
    BY FS_EmptySet
  <2> QED BY <1>2, <2>1, <2>2, StrandStep
<1>3. ASSUME NEW w \in Publisher, Orphans' \subseteq Orphans \cup batch[w],
             crashes' = crashes + 1, stale' = stale
      PROVE  Strand'
  <2>1. batch[w] \in SUBSET Record /\ Cardinality(batch[w]) <= BatchLimit
    BY DEF Shape, TypeOK, BatchShape
  <2>2. (crashes + 1) * BatchLimit = crashes * BatchLimit + BatchLimit
    BY <1>1
  <2>3. Ended' = (crashes + 1) * BatchLimit + stale * (BatchLimit - 1)
    BY <1>3 DEF Ended
  <2>4. crashes * BatchLimit \in Nat /\ stale * (BatchLimit - 1) \in Nat
    BY <1>1
  <2>5. Ended' = Ended + BatchLimit
    BY <1>1, <2>2, <2>3, <2>4 DEF Ended
  <2> QED BY <1>1, <1>3, <2>1, <2>5, StrandStep
<1>4. ASSUME NEW w \in Publisher, NEW k \in batch[w],
             Orphans' \subseteq Orphans \cup (batch[w] \ {k}),
             crashes' = crashes, stale' = stale + 1
      PROVE  Strand'
  <2>1. batch[w] \ {k} \in SUBSET Record /\ Cardinality(batch[w] \ {k}) <= BatchLimit - 1
    <3>1. Cardinality(batch[w]) \in Nat /\ Cardinality(batch[w]) <= BatchLimit
      BY BatchIsFinite DEF Shape, BatchShape
    <3>2. Cardinality(batch[w] \ {k}) = Cardinality(batch[w]) - 1
      BY BatchIsFinite DEF Shape
    <3> QED BY <1>1, <3>1, <3>2 DEF Shape, TypeOK
  <2>2. (stale + 1) * (BatchLimit - 1) = stale * (BatchLimit - 1) + (BatchLimit - 1)
    <3> DEFINE n == BatchLimit - 1
    <3> HIDE DEF n
    <3>1. (stale + 1) * n = stale * n + n
      BY <1>1 DEF n
    <3> QED BY <3>1 DEF n
  <2>3. Ended' = crashes * BatchLimit + (stale + 1) * (BatchLimit - 1)
    BY <1>4 DEF Ended
  <2>4. crashes * BatchLimit \in Nat /\ stale * (BatchLimit - 1) \in Nat
    BY <1>1
  <2>5. Ended' = Ended + (BatchLimit - 1)
    BY <1>1, <2>2, <2>3, <2>4 DEF Ended
  <2> QED BY <1>1, <1>4, <2>1, <2>5, StrandStep
<1> QED BY <1>2, <1>3, <1>4, OrphansNext

-----------------------------------------------------------------------------
(* Failures and attempts, where no operator has meddled.                   *)

(* Publisher w, which has record i in its batch, knows how often it failed.  *)
Knows(w, i) ==
  IF IsNext(w, i) /\ pc[w] \in {"mark", "write"}
  THEN /\ pc[w] = "write" => seen[w] = Seen(i)
       /\ outcome[w] = "retry" =>
            failures[i] = rows[i].attemptCount + 1 /\ failures[i] < MaxAttempts
       /\ outcome[w] = "dead_letter" =>
            failures[i] = rows[i].attemptCount + 1 /\ failures[i] = MaxAttempts
  ELSE /\ snapshot[w][i] = rows[i].attemptCount
       /\ failures[i] = rows[i].attemptCount /\ failures[i] < MaxAttempts

Counted(i) ==
  /\ rows[i].status = "absent" => failures[i] = 0
  /\ Open(i) => failures[i] = rows[i].attemptCount /\ failures[i] < MaxAttempts
  /\ rows[i].status = "dead_letter" => failures[i] = MaxAttempts
  /\ i \in Stored => \A w \in Holders(i) : rows[i].status = "inflight" /\ Knows(w, i)

Count == \A i \in Record : operated[i] = 0 => Counted(i)

(* Nothing happens to a record. *)
RowKept(i) ==
  /\ rows'[i].status = rows[i].status
  /\ rows'[i].attemptCount = rows[i].attemptCount
  /\ Seen(i)' = Seen(i)
  /\ failures'[i] = failures[i]

LEMMA RowIsKept ==
  ASSUME NEW i \in Record, rows'[i] = rows[i], failures'[i] = failures[i]
  PROVE  RowKept(i)
BY DEF RowKept, Seen

LEMMA KnowsKept ==
  ASSUME NEW w \in Publisher, NEW i \in Record, RowKept(i), Knows(w, i),
         batch'[w] = batch[w], pc'[w] = pc[w], outcome'[w] = outcome[w],
         seen'[w] = seen[w], snapshot'[w] = snapshot[w]
  PROVE  Knows(w, i)'
BY DEF Knows, RowKept, IsNext

LEMMA CountedKept ==
  ASSUME NEW i \in Record, RowKept(i), Counted(i),
         i \in Stored => \A w \in Holders(i)' : w \in Holders(i) /\ (Knows(w, i) => Knows(w, i)')
  PROVE  Counted(i)'
<1>1. Open(i)' = Open(i) /\ (i \in Stored' <=> i \in Stored)
  BY DEF RowKept, Open, Stored
<1> QED BY <1>1 DEF Counted, RowKept

(* Where only w moves, it alone has to be looked at. *)
LEMMA CountedOthers ==
  ASSUME NEW w \in Publisher, OthersStay(w), NEW i \in Record, RowKept(i), Counted(i),
         i \in Stored /\ w \in Holders(i)' => w \in Holders(i) /\ (Knows(w, i) => Knows(w, i)')
  PROVE  Counted(i)'
<1>1. ASSUME NEW v \in Holders(i)', v # w PROVE v \in Holders(i) /\ (Knows(v, i) => Knows(v, i)')
  <2>1. /\ batch'[v] = batch[v] /\ pc'[v] = pc[v] /\ outcome'[v] = outcome[v]
        /\ seen'[v] = seen[v] /\ snapshot'[v] = snapshot[v] /\ v \in Publisher
    BY <1>1 DEF OthersStay, Holders
  <2> QED BY <1>1, <2>1, KnowsKept DEF Holders
<1> QED BY <1>1, CountedKept

(* Without an operator a record is in one publisher's hands, or can be taken. *)
LEMMA HandIsOnly ==
  ASSUME Shape, Hands, NEW i \in Record, operated[i] = 0
  PROVE  /\ ~Meddled(i)
         /\ Open(i) => Holders(i) = {}
         /\ \A v, w \in Holders(i) : v = w
<1>1. /\ ~Meddled(i)
      /\ Cardinality(Holders(i)) + One(Open(i)) <= 1
  <2>1. ~Meddled(i)
    BY DEF Shape, OperatorShape, Meddled
  <2>2. Cardinality(Holders(i)) \in Nat
    BY HoldersFacts
  <2> QED BY <2>1, <2>2 DEF Hands, HandsCounted, One
<1>2. IsFiniteSet(Holders(i)) /\ Cardinality(Holders(i)) \in Nat
  BY HoldersFacts
<1>3. Open(i) => Holders(i) = {}
  BY <1>1, <1>2, FS_EmptySet DEF One
<1>4. ASSUME NEW v \in Holders(i), NEW w \in Holders(i), v # w PROVE FALSE
  <2>1. Cardinality(Holders(i) \ {v}) = Cardinality(Holders(i)) - 1
    BY HoldersFacts
  <2>2. IsFiniteSet(Holders(i) \ {v}) /\ Holders(i) \ {v} # {}
    BY <1>2, <1>4, FS_RemoveElement
  <2>3. Cardinality(Holders(i) \ {v}) # 0 /\ Cardinality(Holders(i) \ {v}) \in Nat
    BY <2>2, FS_EmptySet, FS_CardinalityType
  <2> QED BY <1>1, <1>2, <2>1, <2>3 DEF One
<1> QED BY <1>1, <1>3, <1>4

LEMMA CountNext ==
  ASSUME Shape, Hands, Count, [Next]_vars
  PROVE  Count'
<1>a. \A i \in Record : failures[i] \in Nat /\ rows[i].attemptCount \in Nat /\ operated[i] \in Nat
  BY DEF Shape, TypeOK, Row
<1>1. ASSUME StoreRendered \/ SomeDeleted \/ Tick PROVE Count'
  <2>1. /\ UNCHANGED <<pc, batch, snapshot, outcome, seen, failures, operated>>
        /\ \A i \in Record :
             \/ rows[i].status = "absent" /\ rows'[i].status = "pending"
                /\ rows'[i].attemptCount = 0
             \/ rows'[i].status = "deleted"
             \/ RowKept(i)
    BY <1>1, TableEffect DEF RowKept
  <2>2. ASSUME NEW i \in Record, operated[i] = 0, Counted(i) PROVE Counted(i)'
    <3>1. Holders(i)' = Holders(i)
      BY <2>1 DEF Holders
    <3>2. CASE rows[i].status = "absent" /\ rows'[i].status = "pending"
               /\ rows'[i].attemptCount = 0
      BY <2>1, <2>2, <3>1, <3>2, AbsentIsFree, SettingsAssumption DEF Counted, Open
    <3>3. CASE rows'[i].status = "deleted"
      BY <3>3 DEF Counted, Open, Stored
    <3>4. CASE RowKept(i)
      <4>1. \A w \in Publisher : Knows(w, i) => Knows(w, i)'
        BY <2>1, <3>4, KnowsKept
      <4> QED BY <2>2, <3>1, <3>4, <4>1, CountedKept DEF Holders
    <3> QED BY <2>1, <3>2, <3>3, <3>4
  <2> QED BY <2>1, <2>2 DEF Count
<1>2. ASSUME NEW w \in Publisher, ReserveAvailable(w) PROVE Count'
  <2>1. PICK taken \in SUBSET Record :
           /\ pc[w] = "idle" /\ OthersStay(w)
           /\ batch'[w] = taken /\ pc'[w] = "publish"
           /\ \A i \in taken : rows[i].status \in {"pending", "retry"}
           /\ \A i \in taken : snapshot'[w][i] = rows[i].attemptCount
           /\ \A i \in Record :
                /\ rows'[i].status = IF i \in taken THEN "inflight" ELSE rows[i].status
                /\ rows'[i].attemptCount = rows[i].attemptCount
                /\ i \notin taken => rows'[i] = rows[i]
           /\ UNCHANGED <<failures, operated>>
    BY <1>2, ReserveEffect
  <2>2. ASSUME NEW i \in Record, operated[i] = 0, Counted(i) PROVE Counted(i)'
    <3>1. CASE i \in taken
      <4>1. Open(i) /\ Holders(i)' \subseteq {w}
        BY <2>1, <2>2, <3>1, HandIsOnly, HoldersOthers DEF Open
      <4>2. Knows(w, i)'
        BY <2>1, <2>2, <3>1, <4>1 DEF Knows, Counted
      <4> QED BY <2>1, <3>1, <4>1, <4>2 DEF Counted, Open
    <3>2. CASE i \notin taken
      <4>1. RowKept(i)
        BY <2>1, <3>2, RowIsKept
      <4>2. w \notin Holders(i)'
        BY <2>1, <3>2 DEF Holders
      <4> QED BY <2>1, <2>2, <4>1, <4>2, CountedOthers
    <3> QED BY <3>1, <3>2
  <2> QED BY <2>1, <2>2 DEF Count
<1>3. ASSUME NEW w \in Publisher,
             MessageAcked(w) \/ MessageRefused(w) \/ PublishReturns(w) \/ PublishRaises(w)
      PROVE  Count'
  <2>1. PICK k \in Record :
           /\ pc[w] = "publish" /\ OthersStay(w)
           /\ UNCHANGED <<rows, batch, snapshot, seen, operated>>
           /\ \/ pc'[w] = "publish" /\ failures' = failures
              \/ pc'[w] = "mark" /\ outcome'[w] = "published" /\ failures' = failures
              \/ /\ IsNext(w, k) /\ pc'[w] = "mark"
                 /\ outcome'[w] = IF Exhausted(snapshot[w][k]) THEN "dead_letter" ELSE "retry"
                 /\ failures' = [failures EXCEPT ![k] = @ + 1]
    BY <1>3, PublishEffect
  <2>2. ASSUME NEW i \in Record, operated[i] = 0, Counted(i) PROVE Counted(i)'
    <3>1. Holders(i)' = Holders(i) /\ \A v \in Publisher : IsNext(v, i)' = IsNext(v, i)
      BY <2>1 DEF Holders, IsNext
    <3>2. CASE failures'[i] = failures[i] /\ (pc'[w] = "publish" \/ ~IsNext(w, i)
                                              \/ outcome'[w] = "published")
      <4>1. RowKept(i)
        BY <2>1, <3>2, RowIsKept
      <4>2. Knows(w, i) => Knows(w, i)'
        BY <2>1, <3>1, <3>2 DEF Knows
      <4> QED BY <2>1, <2>2, <3>1, <4>1, <4>2, CountedOthers
    <3>3. CASE /\ IsNext(w, i) /\ pc'[w] = "mark"
               /\ outcome'[w] = IF Exhausted(snapshot[w][i]) THEN "dead_letter" ELSE "retry"
               /\ failures'[i] = failures[i] + 1
      <4>1. w \in Holders(i) /\ \A v \in Holders(i) : v = w
        BY <2>2, <3>3, HandIsOnly DEF IsNext, Holders
      <4>2. CASE i \in Stored
        <5>1. /\ rows[i].status = "inflight"
              /\ snapshot[w][i] = rows[i].attemptCount
              /\ failures[i] = rows[i].attemptCount /\ failures[i] < MaxAttempts
          BY <2>1, <2>2, <4>1, <4>2 DEF Counted, Knows
        <5>2. Knows(w, i)'
          BY <1>a, <2>1, <3>1, <3>3, <5>1, SettingsAssumption DEF Knows, Exhausted
        <5> QED BY <2>1, <3>1, <4>1, <5>1, <5>2 DEF Counted, Open
      <4>3. CASE i \notin Stored
        <5>1. rows[i].status = "deleted"
          BY <4>1, <4>3, AbsentIsFree DEF Stored
        <5> QED BY <2>1, <5>1 DEF Counted, Open, Stored
      <4> QED BY <4>2, <4>3
    <3>4. failures' = [failures EXCEPT ![k] = @ + 1] =>
            failures'[i] = IF i = k THEN failures[i] + 1 ELSE failures[i]
      BY DEF Shape, TypeOK
    <3>5. IsNext(w, k) /\ IsNext(w, i) => i = k
      BY NextIsOne DEF Shape
    <3> QED BY <2>1, <3>2, <3>3, <3>4, <3>5
  <2> QED BY <2>1, <2>2 DEF Count
<1>4. ASSUME UNCHANGED <<rows, pc, batch, snapshot, outcome, seen, failures>>,
             \A i \in Record : operated'[i] = 0 => operated[i] = 0
      PROVE  Count'
  <2>1. ASSUME NEW i \in Record, operated'[i] = 0 PROVE Counted(i)'
    <3>1. Counted(i) /\ RowKept(i) /\ Holders(i)' = Holders(i)
      BY <1>4, <2>1, RowIsKept DEF Count, Holders
    <3>2. \A w \in Publisher : Knows(w, i) => Knows(w, i)'
      BY <1>4, <3>1, KnowsKept
    <3> QED BY <3>1, <3>2, CountedKept DEF Holders
  <2> QED BY <2>1 DEF Count
<1>5. ASSUME NEW w \in Publisher, LateDelivery(w) \/ MessageResent(w) PROVE Count'
  BY <1>4, <1>5 DEF LateDelivery, MessageResent, publishers
<1>6. ASSUME NEW w \in Publisher, ReadRow(w) PROVE Count'
  <2>1. PICK k \in Record :
           /\ pc[w] = "mark" /\ IsNext(w, k) /\ OthersStay(w)
           /\ \/ /\ k \in Stored /\ batch'[w] = batch[w] /\ pc'[w] = "write"
                 /\ outcome'[w] = outcome[w] /\ seen'[w] = Seen(k)
                 /\ snapshot'[w] = snapshot[w]
              \/ /\ k \notin Stored /\ batch'[w] = batch[w] \ {k}
                 /\ pc'[w] \in {"idle", "publish"}
                 /\ \A j \in Record \ {k} : snapshot'[w][j] = snapshot[w][j]
           /\ UNCHANGED <<rows, failures, operated>>
    BY <1>6, ReadEffect
  <2>2. ASSUME NEW i \in Record, operated[i] = 0, Counted(i) PROVE Counted(i)'
    <3>1. RowKept(i)
      BY <2>1, RowIsKept
    <3>2. CASE k \in Stored
      <4>1. IsNext(w, i)' = IsNext(w, i) /\ (w \in Holders(i)' <=> w \in Holders(i))
        BY <2>1, <3>2 DEF IsNext, Holders
      <4>2. IsNext(w, i) => i = k
        BY <2>1, NextIsOne DEF Shape
      <4>3. Knows(w, i) => Knows(w, i)'
        BY <2>1, <3>1, <3>2, <4>1, <4>2 DEF Knows, RowKept
      <4> QED BY <2>1, <2>2, <3>1, <4>1, <4>3, CountedOthers
    <3>3. CASE k \notin Stored
      <4>1. w \in Holders(i)' => w \in Holders(i) /\ i # k
        BY <2>1, <3>3 DEF Holders
      <4>2. i # k => ~IsNext(w, i)
        BY <2>1, NextIsOne DEF Shape
      <4>3. i # k => (Knows(w, i) => Knows(w, i)')
        BY <2>1, <3>1, <3>3, <4>2 DEF Knows, RowKept
      <4> QED BY <2>1, <2>2, <3>1, <4>1, <4>3, CountedOthers
    <3> QED BY <3>2, <3>3
  <2> QED BY <2>1, <2>2 DEF Count
<1>7. ASSUME NEW w \in Publisher, WriteRow(w) PROVE Count'
  <2>1. PICK k \in Stored :
           /\ pc[w] = "write" /\ IsNext(w, k) /\ OthersStay(w)
           /\ batch'[w] = batch[w] \ {k} /\ pc'[w] \in {"idle", "publish"}
           /\ \A j \in Record \ {k} : snapshot'[w][j] = snapshot[w][j]
           /\ \A j \in Record \ {k} : rows'[j] = rows[j]
           /\ rows'[k].status = IF seen[w].status = outcome[w] THEN rows[k].status
                                ELSE outcome[w]
           /\ rows'[k].attemptCount = IF outcome[w] = "published" THEN rows[k].attemptCount
                                      ELSE seen[w].attempts + 1
           /\ UNCHANGED <<failures, operated>>
    BY <1>7, WriteEffect
  <2>2. k \in Record /\ w \in Holders(k)
    BY <2>1 DEF Stored, IsNext, Holders
  <2>3. outcome[w] \in Verdict
    BY <2>1 DEF Shape, BatchShape
  <2>4. ASSUME operated[k] = 0, Counted(k) PROVE Counted(k)'
    <3>1. Holders(k)' = {}
      BY <2>1, <2>2, <2>4, HandIsOnly, HoldersOthers
    <3>2. rows[k].status = "inflight" /\ Knows(w, k)
      BY <2>2, <2>4 DEF Counted
    <3>3. /\ seen[w].status = "inflight" /\ seen[w].attempts = rows[k].attemptCount
          /\ outcome[w] = "retry" =>
               failures[k] = rows[k].attemptCount + 1 /\ failures[k] < MaxAttempts
          /\ outcome[w] = "dead_letter" => failures[k] = MaxAttempts
      BY <2>1, <3>2 DEF Knows, Seen
    <3> QED BY <2>1, <2>3, <3>1, <3>3 DEF Counted, Open, Verdict
  <2>5. ASSUME NEW i \in Record \ {k}, operated[i] = 0, Counted(i) PROVE Counted(i)'
    <3>1. RowKept(i)
      BY <2>1, RowIsKept
    <3>2. ~IsNext(w, i)
      BY <2>1, <2>2, NextIsOne DEF Shape
    <3>3. w \in Holders(i)' => w \in Holders(i)
      BY <2>1 DEF Holders
    <3>4. Knows(w, i) => Knows(w, i)'
      BY <2>1, <3>1, <3>2 DEF Knows, RowKept
    <3> QED BY <2>1, <2>5, <3>1, <3>3, <3>4, CountedOthers
  <2> QED BY <2>1, <2>4, <2>5 DEF Count
<1>8. ASSUME NEW w \in Publisher, WriteStale(w) \/ Crash(w) \/ Exit(w) PROVE Count'
  <2>1. OthersStay(w) /\ batch'[w] = {} /\ UNCHANGED <<rows, failures, operated>>
    BY <1>8, EndEffect
  <2>2. ASSUME NEW i \in Record, operated[i] = 0, Counted(i) PROVE Counted(i)'
    <3>1. RowKept(i) /\ w \notin Holders(i)'
      BY <2>1, RowIsKept DEF Holders
    <3> QED BY <2>1, <2>2, <3>1, CountedOthers
  <2> QED BY <2>1, <2>2 DEF Count
<1>9. ASSUME OperatorReads PROVE Count'
  <2>1. PICK k \in Record :
           /\ operated'[k] = operated[k] + 1
           /\ \A j \in Record \ {k} : operated'[j] = operated[j]
           /\ UNCHANGED <<rows, publishers, failures>>
    BY <1>9, OperatorReadEffect
  <2>2. \A i \in Record : operated'[i] = 0 => operated[i] = 0
    BY <1>a, <2>1
  <2> QED BY <1>4, <2>1, <2>2 DEF publishers
<1>10. ASSUME OperatorWrites PROVE Count'
  <2> DEFINE k == operator.record
  <2>1. /\ k \in Record /\ operator.verdict \in {"retry", "dead_letter"}
        /\ \A j \in Record \ {k} : rows'[j] = rows[j]
        /\ UNCHANGED <<publishers, failures, operated>>
    BY <1>10, OperatorWriteEffect
  <2>2. ASSUME NEW i \in Record, operated[i] = 0, Counted(i) PROVE Counted(i)'
    <3>1. i # k
      BY <2>1, <2>2 DEF Shape, OperatorShape
    <3>2. RowKept(i) /\ Holders(i)' = Holders(i)
      BY <2>1, <3>1, RowIsKept DEF Holders, publishers
    <3>3. \A w \in Publisher : Knows(w, i) => Knows(w, i)'
      BY <2>1, <3>2, KnowsKept DEF publishers
    <3> QED BY <2>2, <3>2, <3>3, CountedKept DEF Holders
  <2> QED BY <2>1, <2>2 DEF Count
<1>11. CASE UNCHANGED vars
  BY <1>4, <1>11 DEF vars, publishers
<1> QED BY <1>1, <1>2, <1>3, <1>5, <1>6, <1>7, <1>8, <1>9, <1>10, <1>11
          DEF Next, SomeDeleted

(* A published row is nobody's, and is not due. *)
LEMMA PublishedStays ==
  ASSUME Shape, Hands, Count, [Next]_vars,
         NEW i \in Record, rows[i].status = "published", operated'[i] = 0
  PROVE  rows'[i].status \in {"published", "deleted"}
<1>a. operated[i] \in Nat /\ i \in Stored
  BY DEF Shape, TypeOK, Stored
<1>1. ASSUME StoreRendered \/ SomeDeleted \/ Tick
      PROVE  rows'[i].status \in {"published", "deleted"}
  <2>1. \/ rows[i].status = "absent"
        \/ rows'[i].status = "deleted"
        \/ rows'[i].status = rows[i].status
    BY <1>1, TableEffect
  <2> QED BY <2>1
<1>2. ASSUME NEW w \in Publisher, ReserveAvailable(w)
      PROVE  rows'[i].status \in {"published", "deleted"}
  <2>1. PICK taken \in SUBSET Record :
           /\ \A j \in taken : rows[j].status \in {"pending", "retry"}
           /\ rows'[i].status = IF i \in taken THEN "inflight" ELSE rows[i].status
    BY <1>2, ReserveEffect
  <2> QED BY <2>1
<1>3. ASSUME NEW w \in Publisher, WriteRow(w)
      PROVE  rows'[i].status \in {"published", "deleted"}
  <2>1. PICK k \in Stored :
           /\ IsNext(w, k) /\ UNCHANGED operated
           /\ \A j \in Record \ {k} : rows'[j] = rows[j]
    BY <1>3, WriteEffect
  <2>2. Counted(i) /\ i \in Stored
    BY <1>a, <2>1 DEF Count
  <2>3. i # k
    BY <2>1, <2>2 DEF Counted, Holders, IsNext
  <2> QED BY <2>1, <2>3
<1>4. ASSUME OperatorWrites
      PROVE  rows'[i].status \in {"published", "deleted"}
  <2>1. /\ \A j \in Record \ {operator.record} : rows'[j] = rows[j]
        /\ operator.verdict \in {"retry", "dead_letter"} /\ UNCHANGED operated
    BY <1>4, OperatorWriteEffect
  <2>2. i # operator.record
    BY <2>1 DEF Shape, OperatorShape
  <2> QED BY <2>1, <2>2
<1>5. ASSUME OperatorReads PROVE rows' = rows
  BY <1>5, OperatorReadEffect
<1>6. ASSUME NEW w \in Publisher,
             \/ MessageAcked(w) \/ MessageRefused(w) \/ PublishReturns(w) \/ PublishRaises(w)
             \/ MessageResent(w) \/ LateDelivery(w) \/ ReadRow(w)
             \/ WriteStale(w) \/ Crash(w) \/ Exit(w)
      PROVE  rows' = rows
  BY <1>6, PublishEffect, ReadEffect, EndEffect DEF LateDelivery, MessageResent
<1>7. UNCHANGED vars => rows' = rows
  BY DEF vars
<1> QED BY <1>1, <1>2, <1>3, <1>4, <1>5, <1>6, <1>7
          DEF Next, SomeDeleted

-----------------------------------------------------------------------------
(* How many copies of a record there are, in the topic or on their way,    *)
(* those sent again for want of an answer left out.                        *)

CopiesOf(i) == {n \in DOMAIN log : log[n] = i}

(* What timeouts have left of record i with the producers, message by message *)
OnTheWay(i) == {m \in Publisher \X Nat : m[2] \in 1..queue[m[1]][i]}

Spent(i) == Cardinality(CopiesOf(i)) + Cardinality(OnTheWay(i)) - resent[i]

Finite == \A i \in Record : IsFiniteSet(OnTheWay(i))

LEMMA CopiesEffect ==
  ASSUME TypeOK, NEW i \in Record
  PROVE  /\ IsFiniteSet(CopiesOf(i)) /\ Cardinality(CopiesOf(i)) \in Nat
         /\ log' = log => CopiesOf(i)' = CopiesOf(i)
         /\ log' = Append(log, i) =>
              Cardinality(CopiesOf(i)') = Cardinality(CopiesOf(i)) + 1
         /\ \A k \in Record \ {i} : log' = Append(log, k) => CopiesOf(i)' = CopiesOf(i)
<1>1. log \in Seq(Record) /\ Len(log) \in Nat /\ DOMAIN log = 1..Len(log)
  BY DEF TypeOK
<1>2. IsFiniteSet(CopiesOf(i)) /\ Cardinality(CopiesOf(i)) \in Nat
  <2>1. IsFiniteSet(1..Len(log))
    BY <1>1, FS_Interval
  <2> QED BY <1>1, <2>1, FS_Subset, FS_CardinalityType DEF CopiesOf
<1>3. log' = log => CopiesOf(i)' = CopiesOf(i)
  BY DEF CopiesOf
<1>4. ASSUME NEW k \in Record, log' = Append(log, k)
      PROVE  CopiesOf(i)' = IF k = i THEN CopiesOf(i) \cup {Len(log) + 1} ELSE CopiesOf(i)
  <2>1. /\ log' \in Seq(Record) /\ Len(log') = Len(log) + 1 /\ log'[Len(log) + 1] = k
        /\ \A n \in 1..Len(log) : log'[n] = log[n]
    BY <1>1, <1>4, AppendProperties
  <2>2. DOMAIN log' = 1..Len(log) \cup {Len(log) + 1}
    BY <1>1, <2>1
  <2> QED BY <1>1, <2>1, <2>2 DEF CopiesOf
<1>5. Len(log) + 1 \notin CopiesOf(i)
  BY <1>1 DEF CopiesOf
<1>6. Cardinality(CopiesOf(i) \cup {Len(log) + 1}) = Cardinality(CopiesOf(i)) + 1
  BY <1>2, <1>5, FS_AddElement
<1> QED BY <1>2, <1>3, <1>4, <1>6

LEMMA OnTheWayEffect ==
  ASSUME TypeOK, NEW i \in Record, NEW w \in Publisher, NEW k \in Record
  PROVE  /\ queue' = queue => OnTheWay(i)' = OnTheWay(i)
         /\ queue' = [queue EXCEPT ![w] = Empty] => OnTheWay(i)' \subseteq OnTheWay(i)
         /\ queue' = [queue EXCEPT ![w][k] = @ + 1] =>
              OnTheWay(i)' \subseteq
                OnTheWay(i) \cup (IF i = k THEN {<<w, queue[w][k] + 1>>} ELSE {})
         /\ queue[w][k] > 0 /\ queue' = [queue EXCEPT ![w][k] = @ - 1] =>
              /\ OnTheWay(i)' \subseteq OnTheWay(i)
              /\ i = k => \E m \in OnTheWay(i) : m \notin OnTheWay(i)'
<1>1. \A v \in Publisher, j \in Record : queue[v][j] \in Nat
  BY DEF TypeOK
<1>2. queue' = queue => OnTheWay(i)' = OnTheWay(i)
  BY DEF OnTheWay
<1>3. ASSUME queue' = [queue EXCEPT ![w] = Empty] PROVE OnTheWay(i)' \subseteq OnTheWay(i)
  <2>1. \A v \in Publisher : queue'[v][i] = IF v = w THEN 0 ELSE queue[v][i]
    BY <1>3 DEF TypeOK, Empty
  <2> QED BY <1>1, <2>1 DEF OnTheWay
<1>4. ASSUME queue' = [queue EXCEPT ![w][k] = @ + 1]
      PROVE  OnTheWay(i)' \subseteq
               OnTheWay(i) \cup (IF i = k THEN {<<w, queue[w][k] + 1>>} ELSE {})
  <2>1. \A v \in Publisher :
          queue'[v][i] = IF v = w /\ i = k THEN queue[v][i] + 1 ELSE queue[v][i]
    BY <1>4 DEF TypeOK
  <2>2. ASSUME NEW v \in Publisher, NEW n \in Nat, n \in 1..queue'[v][i]
        PROVE  n \in 1..queue[v][i] \/ (v = w /\ i = k /\ n = queue[w][k] + 1)
    BY <1>1, <2>1, <2>2
  <2> QED BY <2>2 DEF OnTheWay
<1>5. ASSUME queue[w][k] > 0, queue' = [queue EXCEPT ![w][k] = @ - 1]
      PROVE  /\ OnTheWay(i)' \subseteq OnTheWay(i)
             /\ i = k => \E m \in OnTheWay(i) : m \notin OnTheWay(i)'
  <2>1. \A v \in Publisher :
          queue'[v][i] = IF v = w /\ i = k THEN queue[v][i] - 1 ELSE queue[v][i]
    BY <1>5 DEF TypeOK
  <2>2. OnTheWay(i)' \subseteq OnTheWay(i)
    BY <1>1, <2>1 DEF OnTheWay
  <2>3. ASSUME i = k PROVE \E m \in OnTheWay(i) : m \notin OnTheWay(i)'
    <3> DEFINE m == <<w, queue[w][k]>>
    <3>1. m \in Publisher \X Nat /\ m[1] = w /\ m[2] = queue[w][k]
      BY <1>1
    <3>2. m \in OnTheWay(i) /\ m \notin OnTheWay(i)'
      BY <1>1, <1>5, <2>1, <2>3, <3>1 DEF OnTheWay
    <3> QED BY <3>2
  <2> QED BY <2>2, <2>3
<1> QED BY <1>2, <1>3, <1>4, <1>5

(* Messages that are gone are not counted, and one more is one more. *)
LEMMA SpentStep ==
  ASSUME TypeOK, Finite, NEW i \in Record
  PROVE  /\ Spent(i) \in Int
         /\ OnTheWay(i)' \subseteq OnTheWay(i) =>
              /\ IsFiniteSet(OnTheWay(i)')
              /\ Cardinality(OnTheWay(i)') \in Nat
              /\ Cardinality(OnTheWay(i)') <= Cardinality(OnTheWay(i))
              /\ (\E m \in OnTheWay(i) : m \notin OnTheWay(i)') =>
                   Cardinality(OnTheWay(i)') <= Cardinality(OnTheWay(i)) - 1
         /\ \A m : OnTheWay(i)' \subseteq OnTheWay(i) \cup {m} =>
              /\ IsFiniteSet(OnTheWay(i)')
              /\ Cardinality(OnTheWay(i)') \in Nat
              /\ Cardinality(OnTheWay(i)') <= Cardinality(OnTheWay(i)) + 1
<1> DEFINE S == OnTheWay(i)
           T == OnTheWay(i)'
<1>1. IsFiniteSet(S) /\ Cardinality(S) \in Nat
  BY FS_CardinalityType DEF Finite
<1>2. Spent(i) \in Int
  BY <1>1, CopiesEffect DEF Spent, TypeOK
<1> HIDE DEF S, T
<1>3. ASSUME T \subseteq S
      PROVE  /\ IsFiniteSet(T) /\ Cardinality(T) \in Nat /\ Cardinality(T) <= Cardinality(S)
             /\ (\E m \in S : m \notin T) => Cardinality(T) <= Cardinality(S) - 1
  <2>1. IsFiniteSet(T) /\ Cardinality(T) \in Nat /\ Cardinality(T) <= Cardinality(S)
    BY <1>1, <1>3, FS_Subset, FS_CardinalityType
  <2>2. (\E m \in S : m \notin T) => Cardinality(S) # Cardinality(T)
    BY <1>1, <1>3, FS_Subset
  <2> QED BY <1>1, <2>1, <2>2
<1>4. ASSUME NEW m, T \subseteq S \cup {m}
      PROVE  /\ IsFiniteSet(T) /\ Cardinality(T) \in Nat
             /\ Cardinality(T) <= Cardinality(S) + 1
  <2>1. IsFiniteSet(S \cup {m}) /\ Cardinality(S \cup {m}) <= Cardinality(S) + 1
    <3>1. /\ IsFiniteSet(S \cup {m})
          /\ Cardinality(S \cup {m}) = IF m \in S THEN Cardinality(S) ELSE Cardinality(S) + 1
      BY <1>1, FS_AddElement
    <3> QED BY <1>1, <3>1
  <2>2. /\ IsFiniteSet(T) /\ Cardinality(T) \in Nat
        /\ Cardinality(T) <= Cardinality(S \cup {m})
    BY <1>4, <2>1, FS_Subset, FS_CardinalityType
  <2>3. Cardinality(S \cup {m}) \in Nat
    BY <2>1, FS_CardinalityType
  <2> QED BY <1>1, <2>1, <2>2, <2>3
<1> QED BY <1>2, <1>3, <1>4 DEF S, T

(* The broker acknowledges what is queued, timeouts leave what is queued     *)
(* behind, and nothing else makes a copy.                                  *)
LEMMA SpentEffect ==
  ASSUME Shape, Finite, [Next]_vars, NEW i \in Record
  PROVE  /\ Spent(i) \in Int /\ Spent(i)' \in Int /\ IsFiniteSet(OnTheWay(i)')
         /\ \A w \in Publisher : MessageAcked(w) \/ PublishRaises(w) =>
              \/ Spent(i)' <= Spent(i)
              \/ Spent(i)' <= Spent(i) + 1 /\ IsNext(w, i) /\ outcome[w] = "queued"
         /\ \A w \in Publisher :
              \/ ReserveAvailable(w) \/ MessageRefused(w) \/ LateDelivery(w)
              \/ MessageResent(w) \/ PublishReturns(w) \/ ReadRow(w) \/ WriteRow(w) \/ WriteStale(w)
              \/ Crash(w) \/ Exit(w)
              => Spent(i)' <= Spent(i)
         /\ \/ StoreRendered \/ SomeDeleted \/ OperatorReads \/ OperatorWrites \/ Tick
            \/ UNCHANGED vars
            => Spent(i)' <= Spent(i)
<1> DEFINE c == Cardinality(CopiesOf(i))
           d == Cardinality(CopiesOf(i)')
           s == Cardinality(OnTheWay(i))
           t == Cardinality(OnTheWay(i)')
           r == resent[i]
           q == resent'[i]
<1>a. TypeOK
  BY DEF Shape
<1>b. c \in Nat /\ s \in Nat /\ r \in Nat
  BY <1>a, CopiesEffect, FS_CardinalityType DEF Finite, TypeOK
<1>c. Spent(i) = c + s - r /\ Spent(i)' = d + t - q
  BY DEF Spent
<1>d. (log' = log => d = c) /\ (log' = Append(log, i) => d = c + 1)
      /\ \A k \in Record \ {i} : log' = Append(log, k) => d = c
  BY <1>a, CopiesEffect
<1>e. /\ OnTheWay(i)' \subseteq OnTheWay(i) =>
           /\ IsFiniteSet(OnTheWay(i)') /\ t \in Nat /\ t <= s
           /\ (\E m \in OnTheWay(i) : m \notin OnTheWay(i)') => t <= s - 1
      /\ \A m : OnTheWay(i)' \subseteq OnTheWay(i) \cup {m} =>
           IsFiniteSet(OnTheWay(i)') /\ t \in Nat /\ t <= s + 1
  BY <1>a, SpentStep
<1>f. resent' = resent => q = r
  OBVIOUS
<1> HIDE DEF c, d, s, t, r, q
<1>1. ASSUME log' = log, queue' = queue, resent' = resent
      PROVE  IsFiniteSet(OnTheWay(i)') /\ t \in Nat /\ t <= s /\ d = c /\ q = r
  <2>1. OnTheWay(i)' = OnTheWay(i)
    BY <1>1 DEF OnTheWay
  <2> QED BY <1>1, <1>d, <1>e, <1>f, <2>1
<1>2. ASSUME NEW w \in Publisher, Stop(w), log' = log, resent' = resent
      PROVE  IsFiniteSet(OnTheWay(i)') /\ t \in Nat /\ t <= s /\ d = c /\ q = r
  <2>1. queue' = [queue EXCEPT ![w] = Empty]
    BY <1>2 DEF Stop
  <2>2. OnTheWay(i)' \subseteq OnTheWay(i)
    BY <1>a, <2>1, RecordFacts, OnTheWayEffect
  <2> QED BY <1>2, <1>d, <1>e, <1>f, <2>2
<1>3. ASSUME NEW w \in Publisher, LateDelivery(w)
      PROVE  /\ IsFiniteSet(OnTheWay(i)') /\ t \in Nat /\ d \in Nat /\ d + t <= c + s
             /\ q = r
  <2>1. PICK k \in Record : /\ queue[w][k] > 0 /\ queue' = [queue EXCEPT ![w][k] = @ - 1]
                            /\ log' \in {log, Append(log, k)} /\ resent' = resent
    BY <1>3 DEF LateDelivery
  <2>2. /\ OnTheWay(i)' \subseteq OnTheWay(i)
        /\ i = k => \E m \in OnTheWay(i) : m \notin OnTheWay(i)'
    BY <1>a, <2>1, OnTheWayEffect
  <2>3. CASE i = k
    BY <1>b, <1>d, <1>e, <1>f, <2>1, <2>2, <2>3
  <2>4. CASE i # k
    BY <1>b, <1>d, <1>e, <1>f, <2>1, <2>2, <2>4
  <2> QED BY <2>3, <2>4
<1>4. ASSUME NEW w \in Publisher, MessageAcked(w)
      PROVE  /\ IsFiniteSet(OnTheWay(i)') /\ t \in Nat /\ t <= s /\ q = r
             /\ d = c \/ (d = c + 1 /\ IsNext(w, i) /\ outcome[w] = "queued")
  <2>1. PICK k \in Record : /\ outcome[w] = "queued" /\ IsNext(w, k)
                            /\ log' = Append(log, k)
                            /\ queue' = queue /\ resent' = resent
    BY <1>4 DEF MessageAcked
  <2>2. OnTheWay(i)' = OnTheWay(i)
    BY <2>1 DEF OnTheWay
  <2> QED BY <1>d, <1>e, <1>f, <2>1, <2>2
<1>5. ASSUME NEW w \in Publisher, PublishRaises(w)
      PROVE  /\ IsFiniteSet(OnTheWay(i)') /\ t \in Nat /\ d = c /\ q = r
             /\ t <= s \/ (t <= s + 1 /\ IsNext(w, i) /\ outcome[w] = "queued")
  <2>1. PICK k \in Record :
          /\ IsNext(w, k) /\ log' = log /\ resent' = resent
          /\ queue' = [queue EXCEPT ![w][k] = IF outcome[w] = "queued" THEN @ + 1 ELSE @]
    BY <1>5 DEF PublishRaises
  <2>2. CASE outcome[w] = "queued"
    <3>1. queue' = [queue EXCEPT ![w][k] = @ + 1]
      BY <2>1, <2>2
    <3>2. OnTheWay(i)' \subseteq
            OnTheWay(i) \cup (IF i = k THEN {<<w, queue[w][k] + 1>>} ELSE {})
      BY <1>a, <3>1, OnTheWayEffect
    <3> QED BY <1>d, <1>e, <1>f, <2>1, <2>2, <3>2
  <2>3. CASE outcome[w] # "queued"
    <3>1. queue' = queue
      BY <1>a, <2>1, <2>3 DEF TypeOK
    <3> QED BY <1>1, <2>1, <3>1
  <2> QED BY <2>2, <2>3
<1>6. ASSUME NEW w \in Publisher, WriteStale(w) \/ Crash(w) \/ Exit(w)
      PROVE  IsFiniteSet(OnTheWay(i)') /\ t \in Nat /\ t <= s /\ d = c /\ q = r
  BY <1>2, <1>6 DEF WriteStale, Crash, Exit
<1>7. ASSUME \/ StoreRendered \/ SomeDeleted \/ OperatorReads \/ OperatorWrites \/ Tick
             \/ UNCHANGED vars
             \/ \E w \in Publisher : \/ ReserveAvailable(w) \/ MessageRefused(w)
                                     \/ PublishReturns(w) \/ ReadRow(w) \/ WriteRow(w)
      PROVE  IsFiniteSet(OnTheWay(i)') /\ t \in Nat /\ t <= s /\ d = c /\ q = r
  <2>1. log' = log /\ queue' = queue /\ resent' = resent
    BY <1>7 DEF StoreRendered, SomeDeleted, DeleteForAgent, OperatorReads, OperatorWrites, Tick, vars,
       ReserveAvailable, MessageRefused, PublishReturns, ReadRow, WriteRow
  <2> QED BY <1>1, <2>1
<1>8. ASSUME NEW w \in Publisher, MessageResent(w)
      PROVE  /\ IsFiniteSet(OnTheWay(i)') /\ t \in Nat /\ t <= s
             /\ d \in Nat /\ q \in Nat /\ d - q = c - r
  <2>1. PICK k \in Record : /\ log' = Append(log, k) /\ queue' = queue
                            /\ resent' = [resent EXCEPT ![k] = @ + 1]
    BY <1>8 DEF MessageResent
  <2>2. OnTheWay(i)' = OnTheWay(i)
    BY <2>1 DEF OnTheWay
  <2>3. q = IF k = i THEN r + 1 ELSE r
    BY <1>a, <2>1 DEF q, r, TypeOK
  <2> QED BY <1>b, <1>d, <1>e, <2>1, <2>2, <2>3
<1>9. ASSUME NEW w \in Publisher, MessageResent(w)
      PROVE  Spent(i)' <= Spent(i) /\ Spent(i)' \in Int /\ IsFiniteSet(OnTheWay(i)')
  BY <1>b, <1>c, <1>8, <1>9
<1> QED BY <1>b, <1>c, <1>3, <1>4, <1>5, <1>6, <1>7, <1>9 DEF Next, SomeDeleted

(* Publisher w, which has record i in its batch, has an attempt for a copy.  *)
Affords(w, i) ==
  IF IsNext(w, i) /\ pc[w] \in {"mark", "write"}
  THEN outcome[w] \in {"retry", "dead_letter"} => Spent(i) <= failures[i]
  ELSE /\ failures[i] < MaxAttempts
       /\ Spent(i) <= failures[i] + One(IsNext(w, i) /\ outcome[w] = "acked")

Afforded(i) ==
  /\ Spent(i) <= MaxAttempts
  /\ rows[i].status \in {"absent", "pending", "retry"} => Spent(i) <= failures[i]
  /\ \A w \in Holders(i) : Affords(w, i)

Afford == Finite /\ \A i \in Record : operated[i] = 0 => Afforded(i)

LEMMA AffordsKept ==
  ASSUME TypeOK, NEW w \in Publisher, NEW i \in Record, failures'[i] = failures[i],
         Spent(i) \in Int, Spent(i)' \in Int, Spent(i)' <= Spent(i), Affords(w, i),
         batch'[w] = batch[w], pc'[w] = pc[w], outcome'[w] = outcome[w]
  PROVE  Affords(w, i)'
<1>1. failures[i] \in Nat
  BY DEF TypeOK
<1>2. IsNext(w, i)' = IsNext(w, i)
  BY DEF IsNext
<1> DEFINE s == Spent(i)
           t == Spent(i)'
<1>3. s \in Int /\ t \in Int /\ t <= s
  OBVIOUS
<1> HIDE DEF s, t
<1>4. Affords(w, i) <=>
        IF IsNext(w, i) /\ pc[w] \in {"mark", "write"}
        THEN outcome[w] \in {"retry", "dead_letter"} => s <= failures[i]
        ELSE /\ failures[i] < MaxAttempts
             /\ s <= failures[i] + One(IsNext(w, i) /\ outcome[w] = "acked")
  BY DEF Affords, s
<1>5. Affords(w, i)' <=>
        IF IsNext(w, i)' /\ pc'[w] \in {"mark", "write"}
        THEN outcome'[w] \in {"retry", "dead_letter"} => t <= failures'[i]
        ELSE /\ failures'[i] < MaxAttempts
             /\ t <= failures'[i] + One(IsNext(w, i)' /\ outcome'[w] = "acked")
  BY DEF Affords, t, One
<1> QED BY <1>1, <1>2, <1>3, <1>4, <1>5, SettingsAssumption DEF One

(* The attempts of a record, where w alone has moved. *)
LEMMA AffordStep ==
  ASSUME Shape, NEW i \in Record, Afforded(i), NEW w \in Publisher, OthersStay(w),
         failures'[i] = failures[i],
         Spent(i) \in Int, Spent(i)' \in Int, Spent(i)' <= Spent(i),
         rows'[i].status \in {"absent", "pending", "retry"} =>
           rows[i].status \in {"absent", "pending", "retry"} \/ Spent(i) <= failures[i],
         w \in Holders(i)' => Affords(w, i)'
  PROVE  Afforded(i)'
<1>1. failures[i] \in Nat /\ MaxAttempts \in Nat
  BY SettingsAssumption DEF Shape, TypeOK
<1>2. \A v \in Holders(i)' : Affords(v, i)'
  <2> SUFFICES ASSUME NEW v \in Holders(i)', v # w PROVE Affords(v, i)'
    OBVIOUS
  <2>1. /\ v \in Publisher /\ v \in Holders(i)
        /\ batch'[v] = batch[v] /\ pc'[v] = pc[v] /\ outcome'[v] = outcome[v]
    BY DEF OthersStay, Holders
  <2>2. Affords(v, i)
    BY <2>1 DEF Afforded
  <2> QED BY <2>1, <2>2, AffordsKept DEF Shape
<1> DEFINE s == Spent(i)
           t == Spent(i)'
<1>3. s \in Int /\ t \in Int /\ t <= s /\ s <= MaxAttempts
  BY DEF Afforded
<1>4. rows'[i].status \in {"absent", "pending", "retry"} => s <= failures[i]
  BY DEF Afforded
<1> HIDE DEF s, t
<1>5. t <= MaxAttempts /\ (rows'[i].status \in {"absent", "pending", "retry"} => t <= failures'[i])
  BY <1>1, <1>3, <1>4
<1> QED BY <1>2, <1>5 DEF Afforded, t

(* The attempts of a record, where no publisher has moved. *)
LEMMA AffordSame ==
  ASSUME Shape, NEW i \in Record, Afforded(i), UNCHANGED <<pc, batch, outcome>>,
         failures'[i] = failures[i],
         Spent(i) \in Int, Spent(i)' \in Int, Spent(i)' <= Spent(i),
         rows'[i].status \in {"absent", "pending", "retry"} =>
           rows[i].status \in {"absent", "pending", "retry"}
  PROVE  Afforded(i)'
<1>1. failures[i] \in Nat /\ MaxAttempts \in Nat
  BY SettingsAssumption DEF Shape, TypeOK
<1>2. \A v \in Holders(i)' : Affords(v, i)'
  <2> SUFFICES ASSUME NEW v \in Holders(i)' PROVE Affords(v, i)'
    OBVIOUS
  <2>1. v \in Publisher /\ v \in Holders(i)
    BY DEF Holders
  <2>2. Affords(v, i)
    BY <2>1 DEF Afforded
  <2> QED BY <2>1, <2>2, AffordsKept DEF Shape
<1> DEFINE s == Spent(i)
           t == Spent(i)'
<1>3. /\ s \in Int /\ t \in Int /\ t <= s /\ s <= MaxAttempts
      /\ rows'[i].status \in {"absent", "pending", "retry"} => s <= failures[i]
  BY DEF Afforded
<1> HIDE DEF s, t
<1>4. t <= MaxAttempts /\ (rows'[i].status \in {"absent", "pending", "retry"} => t <= failures'[i])
  BY <1>1, <1>3
<1> QED BY <1>2, <1>4 DEF Afforded, t

(* A publisher is done with record k, and keeps the rest of its batch. *)
LEMMA AffordAfter ==
  ASSUME Shape, NEW w \in Publisher, NEW k \in Record, IsNext(w, k), NEW i \in Record, i # k,
         batch'[w] = batch[w] \ {k}, pc'[w] \in {"idle", "publish"},
         failures'[i] = failures[i],
         Spent(i) \in Int, Spent(i)' \in Int, Spent(i)' <= Spent(i), Afforded(i)
  PROVE  w \in Holders(i)' => Affords(w, i)'
<1> SUFFICES ASSUME w \in Holders(i)' PROVE Affords(w, i)'
  OBVIOUS
<1>1. w \in Holders(i) /\ ~IsNext(w, i)
  BY NextIsOne DEF Holders, Shape
<1> DEFINE s == Spent(i)
           t == Spent(i)'
<1>2. failures[i] < MaxAttempts /\ s <= failures[i]
  BY <1>1, SettingsAssumption DEF Afforded, Affords, One, Shape, TypeOK
<1>3. s \in Int /\ t \in Int /\ t <= s /\ failures[i] \in Nat
  BY DEF Shape, TypeOK
<1> HIDE DEF s, t
<1>4. t <= failures'[i] + One(IsNext(w, i)' /\ outcome'[w] = "acked")
  BY <1>2, <1>3 DEF One
<1> QED BY <1>2, <1>4 DEF Affords, t, One

(* The broker and the timeout take their turn on publisher w's record. *)
LEMMA AffordPublish ==
  ASSUME Shape, Hands, Finite, [Next]_vars, NEW w \in Publisher,
         MessageAcked(w) \/ MessageRefused(w) \/ PublishReturns(w) \/ PublishRaises(w),
         NEW i \in Record, operated[i] = 0, Afforded(i)
  PROVE  Afforded(i)'
<1>1. PICK k \in Record :
        /\ pc[w] = "publish" /\ OthersStay(w) /\ UNCHANGED <<rows, batch>>
        /\ \/ pc'[w] = "publish" /\ outcome'[w] = "acked" /\ failures' = failures
           \/ MessageRefused(w) /\ pc'[w] = "publish" /\ outcome'[w] = "refused"
              /\ failures' = failures
           \/ pc'[w] = "mark" /\ outcome'[w] = "published" /\ failures' = failures
           \/ IsNext(w, k) /\ pc'[w] = "mark" /\ failures' = [failures EXCEPT ![k] = @ + 1]
  <2>1. CASE MessageRefused(w)
    <3>1. /\ pc[w] = "publish" /\ OthersStay(w) /\ UNCHANGED <<rows, batch, failures>>
          /\ pc'[w] = "publish" /\ outcome'[w] = "refused"
      BY <2>1 DEF MessageRefused, OthersStay, Shape, TypeOK
    <3> QED BY <2>1, <3>1, RecordFacts
  <2>2. CASE ~MessageRefused(w)
    <3>1. MessageAcked(w) \/ PublishReturns(w) \/ PublishRaises(w)
      BY <2>2
    <3>2. PICK j \in Record :
           /\ pc[w] = "publish" /\ OthersStay(w) /\ UNCHANGED <<rows, batch>>
           /\ \/ pc'[w] = "publish" /\ outcome'[w] = "acked" /\ failures' = failures
              \/ pc'[w] = "publish" /\ outcome'[w] = "refused"
              \/ pc'[w] = "mark" /\ outcome'[w] = "published" /\ failures' = failures
              \/ IsNext(w, j) /\ pc'[w] = "mark" /\ failures' = [failures EXCEPT ![j] = @ + 1]
      BY PublishEffect
    <3>3. ~(pc'[w] = "publish" /\ outcome'[w] = "refused")
      BY <3>1 DEF MessageAcked, PublishReturns, PublishRaises, Shape, TypeOK
    <3> QED BY <3>2, <3>3
  <2> QED BY <2>1, <2>2
<1> DEFINE s == Spent(i)
           t == Spent(i)'
<1>2. /\ s \in Int /\ t \in Int
      /\ t <= s \/ (t <= s + 1 /\ IsNext(w, i) /\ outcome[w] = "queued")
  BY SpentEffect
<1>3. failures[i] \in Nat /\ MaxAttempts \in Nat
  BY SettingsAssumption DEF Shape, TypeOK
<1>4. CASE w \in Holders(i) /\ IsNext(w, i)
  <2>1. /\ rows'[i].status \notin {"absent", "pending", "retry"}
        /\ Holders(i)' \subseteq {w}
    <3>1. rows[i].status # "absent" /\ ~Open(i) /\ Holders(i) \subseteq {w}
      BY <1>4, AbsentIsFree, HandIsOnly
    <3> QED BY <1>1, <3>1 DEF Open, Holders
  <2>2. failures[i] < MaxAttempts /\ s <= failures[i] + One(outcome[w] = "acked")
    BY <1>1, <1>4 DEF Afforded, Affords, One
  <2>3. failures'[i] = failures[i] \/ (pc'[w] = "mark" /\ failures'[i] = failures[i] + 1)
    <3>1. \A k_1 \in Record : failures' = [failures EXCEPT ![k_1] = @ + 1] =>
            failures'[i] = IF i = k_1 THEN failures[i] + 1 ELSE failures[i]
      BY DEF Shape, TypeOK
    <3> QED BY <1>1, <3>1
  <2>4. IsNext(w, i)' = IsNext(w, i)
    BY <1>1 DEF IsNext
  <2>5. MessageRefused(w) => outcome[w] = "queued" /\ t <= s
    <3>1. MessageRefused(w) => t <= s
      BY SpentEffect
    <3> QED BY <3>1 DEF MessageRefused
  <2>6. pc'[w] = "mark" /\ failures'[i] = failures[i] => outcome'[w] = "published"
    <3>1. IsNext(w, k) => i = k
      BY <1>1, <1>4, NextIsOne DEF Shape
    <3>2. failures' = [failures EXCEPT ![i] = @ + 1] => failures'[i] = failures[i] + 1
      BY DEF Shape, TypeOK
    <3> QED BY <1>1, <1>3, <3>1, <3>2
  <2> HIDE DEF s, t
  <2>7. t <= MaxAttempts
    BY <1>2, <1>3, <2>2 DEF One
  <2>8. CASE pc'[w] = "mark"
    <3>1. failures'[i] = failures[i] + 1 => t <= failures'[i]
      BY <1>2, <1>3, <2>2 DEF One
    <3>2. Affords(w, i)'
      BY <1>4, <2>3, <2>4, <2>6, <2>8, <3>1 DEF Affords, t
    <3> QED BY <2>1, <2>7, <3>2 DEF Afforded, t
  <2>9. CASE pc'[w] # "mark"
    <3>1. failures'[i] = failures[i]
      BY <2>3, <2>9
    <3>2. t <= failures[i] + One(outcome'[w] = "acked")
      BY <1>1, <1>2, <1>3, <2>2, <2>5, <2>9 DEF One
    <3>3. pc'[w] = "publish"
      BY <1>1, <2>9
    <3>4. Affords(w, i)'
      BY <1>4, <2>2, <2>4, <3>1, <3>2, <3>3 DEF Affords, t, One
    <3> QED BY <2>1, <2>7, <3>4 DEF Afforded, t
  <2> QED BY <2>8, <2>9
<1>5. CASE ~(w \in Holders(i) /\ IsNext(w, i))
  <2>1. ~IsNext(w, i)
    BY <1>5 DEF IsNext, Holders
  <2>2. failures'[i] = failures[i]
    <3>1. (k # i /\ IsNext(w, k)) \/ failures' = failures
      BY <1>1, <2>1
    <3>2. k # i /\ failures' = [failures EXCEPT ![k] = @ + 1] => failures'[i] = failures[i]
      BY DEF Shape, TypeOK
    <3> QED BY <1>1, <3>1, <3>2
  <2>3. t <= s
    BY <1>2, <2>1
  <2>4. ~IsNext(w, i)' /\ (w \in Holders(i)' => w \in Holders(i))
    BY <1>1, <2>1 DEF IsNext, Holders
  <2>5. w \in Holders(i)' => Affords(w, i)'
    <3> SUFFICES ASSUME w \in Holders(i)' PROVE Affords(w, i)'
      OBVIOUS
    <3>1. failures[i] < MaxAttempts /\ s <= failures[i] + 0
      BY <2>1, <2>4 DEF Afforded, Affords, One
    <3> HIDE DEF s, t
    <3>2. failures'[i] < MaxAttempts /\ t <= failures'[i] + 0
      BY <1>2, <1>3, <2>2, <2>3, <3>1
    <3> QED BY <2>4, <3>2 DEF Affords, t, One
  <2> QED BY <1>1, <1>2, <2>2, <2>3, <2>5, AffordStep
<1> QED BY <1>4, <1>5

LEMMA AffordNext ==
  ASSUME Shape, Hands, Count, Afford, [Next]_vars
  PROVE  Afford'
<1>a. Finite
  BY DEF Afford
<1>b. Finite'
  BY <1>a, SpentEffect DEF Finite
<1>c. \A i \in Record : operated'[i] = 0 => operated[i] = 0
  <2>1. ASSUME OperatorReads PROVE \A i \in Record : operated'[i] = 0 => operated[i] = 0
    <3>1. \A i \in Record : operated[i] \in Nat
      BY DEF Shape, TypeOK
    <3> QED BY <2>1, <3>1, OperatorReadEffect
  <2>2. ASSUME ~OperatorReads PROVE operated' = operated
    BY <2>2 DEF Next, StoreRendered, DeleteForAgent, OperatorWrites, Tick, ReserveAvailable,
       MessageAcked, MessageRefused, MessageResent, LateDelivery, PublishReturns, PublishRaises, ReadRow,
       WriteRow, WriteStale, Crash, Exit, vars
  <2> QED BY <2>1, <2>2
<1> SUFFICES ASSUME NEW i \in Record, operated'[i] = 0 PROVE Afforded(i)'
  BY <1>b DEF Afford
<1>d. operated[i] = 0 /\ Afforded(i)
  BY <1>c DEF Afford
<1>e. Spent(i) \in Int /\ Spent(i)' \in Int
  BY <1>a, SpentEffect
<1>1. ASSUME StoreRendered \/ SomeDeleted \/ Tick PROVE Afforded(i)'
  <2>1. /\ UNCHANGED <<pc, batch, outcome, failures>>
        /\ \/ rows[i].status = "absent" /\ rows'[i].status = "pending"
           \/ rows'[i].status = "deleted"
           \/ rows'[i].status = rows[i].status
    BY <1>1, TableEffect
  <2>2. Spent(i)' <= Spent(i)
    BY <1>1, <1>a, SpentEffect
  <2> QED BY <1>d, <1>e, <2>1, <2>2, AffordSame
<1>2. ASSUME NEW w \in Publisher, ReserveAvailable(w) PROVE Afforded(i)'
  <2>1. PICK taken \in SUBSET Record :
           /\ OthersStay(w)
           /\ batch'[w] = taken /\ pc'[w] = "publish"
           /\ \A j \in taken : rows[j].status \in {"pending", "retry"}
           /\ rows'[i].status = IF i \in taken THEN "inflight" ELSE rows[i].status
           /\ UNCHANGED failures
    BY <1>2, ReserveEffect
  <2>2. Spent(i)' <= Spent(i)
    BY <1>2, <1>a, SpentEffect
  <2>3. w \in Holders(i)' => Affords(w, i)'
    <3> SUFFICES ASSUME w \in Holders(i)' PROVE Affords(w, i)'
      OBVIOUS
    <3> DEFINE s == Spent(i)
               t == Spent(i)'
    <3>1. Open(i)
      BY <2>1 DEF Holders, Open
    <3>2. failures[i] < MaxAttempts /\ s <= failures[i] /\ failures[i] \in Nat
      BY <1>d, <3>1 DEF Count, Counted, Afforded, Open, Shape, TypeOK
    <3>3. s \in Int /\ t \in Int /\ t <= s
      BY <1>e, <2>2
    <3> HIDE DEF s, t
    <3>4. failures'[i] < MaxAttempts
          /\ t <= failures'[i] + One(IsNext(w, i)' /\ outcome'[w] = "acked")
      BY <2>1, <3>2, <3>3 DEF One
    <3> QED BY <2>1, <3>4 DEF Affords, t, One
  <2> QED BY <1>d, <1>e, <2>1, <2>2, <2>3, AffordStep
<1>3. ASSUME NEW w \in Publisher,
             MessageAcked(w) \/ MessageRefused(w) \/ PublishReturns(w) \/ PublishRaises(w)
      PROVE  Afforded(i)'
  BY <1>3, <1>a, <1>d, AffordPublish
<1>4. ASSUME NEW w \in Publisher, LateDelivery(w) \/ MessageResent(w) PROVE Afforded(i)'
  <2>1. Spent(i)' <= Spent(i)
    BY <1>4, <1>a, SpentEffect
  <2>2. UNCHANGED <<rows, pc, batch, outcome, failures>>
    BY <1>4 DEF LateDelivery, MessageResent, publishers
  <2> QED BY <1>d, <1>e, <2>1, <2>2, AffordSame
<1>5. ASSUME NEW w \in Publisher, ReadRow(w) PROVE Afforded(i)'
  <2>1. PICK k \in Record :
           /\ pc[w] = "mark" /\ IsNext(w, k) /\ OthersStay(w)
           /\ \/ /\ batch'[w] = batch[w] /\ pc'[w] = "write"
                 /\ outcome'[w] = outcome[w]
              \/ /\ batch'[w] = batch[w] \ {k}
                 /\ pc'[w] \in {"idle", "publish"}
           /\ UNCHANGED <<rows, failures>>
    BY <1>5, ReadEffect
  <2>2. Spent(i)' <= Spent(i)
    BY <1>5, <1>a, SpentEffect
  <2>3. w \in Holders(i)' => Affords(w, i)'
    <3>1. CASE batch'[w] = batch[w] /\ pc'[w] = "write" /\ outcome'[w] = outcome[w]
      <4> SUFFICES ASSUME w \in Holders(i)' PROVE Affords(w, i)'
        OBVIOUS
      <4>1. Affords(w, i) /\ IsNext(w, i)' = IsNext(w, i) /\ failures[i] \in Nat
        BY <1>d, <3>1 DEF Afforded, Holders, IsNext, Shape, TypeOK
      <4> DEFINE s == Spent(i)
                 t == Spent(i)'
      <4>2. s \in Int /\ t \in Int /\ t <= s
        BY <1>e, <2>2
      <4>3. IF IsNext(w, i) THEN outcome[w] \in {"retry", "dead_letter"} => s <= failures[i]
            ELSE failures[i] < MaxAttempts /\ s <= failures[i] + 0
        BY <2>1, <4>1 DEF Affords, One
      <4> HIDE DEF s, t
      <4>4. IF IsNext(w, i) THEN outcome[w] \in {"retry", "dead_letter"} => t <= failures[i]
            ELSE failures[i] < MaxAttempts /\ t <= failures[i] + 0
        BY <4>1, <4>2, <4>3
      <4> QED BY <2>1, <3>1, <4>1, <4>4 DEF Affords, t, One
    <3>2. CASE batch'[w] = batch[w] \ {k} /\ pc'[w] \in {"idle", "publish"}
      <4>1. i = k => w \notin Holders(i)'
        BY <3>2 DEF Holders
      <4> QED BY <1>d, <1>e, <2>1, <2>2, <3>2, <4>1, AffordAfter
    <3> QED BY <2>1, <3>1, <3>2
  <2> QED BY <1>d, <1>e, <2>1, <2>2, <2>3, AffordStep
<1>6. ASSUME NEW w \in Publisher, WriteRow(w) PROVE Afforded(i)'
  <2>1. PICK k \in Stored :
           /\ pc[w] = "write" /\ IsNext(w, k) /\ OthersStay(w)
           /\ batch'[w] = batch[w] \ {k} /\ pc'[w] \in {"idle", "publish"}
           /\ \A j \in Record \ {k} : rows'[j] = rows[j]
           /\ rows'[k].status = IF seen[w].status = outcome[w] THEN rows[k].status
                                ELSE outcome[w]
           /\ UNCHANGED failures
    BY <1>6, WriteEffect
  <2>2. Spent(i)' <= Spent(i)
    BY <1>6, <1>a, SpentEffect
  <2>3. k \in Record /\ outcome[w] \in Verdict
    BY <2>1 DEF Stored, Shape, BatchShape
  <2>4. w \in Holders(i)' => Affords(w, i)'
    <3>1. i = k => w \notin Holders(i)'
      BY <2>1 DEF Holders
    <3> QED BY <1>d, <1>e, <2>1, <2>2, <2>3, <3>1, AffordAfter
  <2>5. i = k => (outcome[w] = "retry" => Spent(i) <= failures[i])
    BY <1>d, <2>1 DEF Afforded, Affords, Holders, IsNext
  <2>6. rows'[i].status \in {"absent", "pending", "retry"} =>
          rows[i].status \in {"absent", "pending", "retry"} \/ Spent(i) <= failures[i]
    BY <2>1, <2>3, <2>5 DEF Verdict
  <2> QED BY <1>d, <1>e, <2>1, <2>2, <2>4, <2>6, AffordStep
<1>7. ASSUME NEW w \in Publisher, WriteStale(w) \/ Crash(w) \/ Exit(w) PROVE Afforded(i)'
  <2>1. OthersStay(w) /\ batch'[w] = {} /\ UNCHANGED <<rows, failures>>
    BY <1>7, EndEffect
  <2>2. Spent(i)' <= Spent(i)
    BY <1>7, <1>a, SpentEffect
  <2>3. w \notin Holders(i)'
    BY <2>1 DEF Holders
  <2> QED BY <1>d, <1>e, <2>1, <2>2, <2>3, AffordStep
<1>8. ASSUME OperatorReads \/ UNCHANGED vars PROVE Afforded(i)'
  <2>1. UNCHANGED <<rows, pc, batch, outcome, failures>>
    BY <1>8, OperatorReadEffect DEF publishers, vars
  <2>2. Spent(i)' <= Spent(i)
    BY <1>8, <1>a, SpentEffect
  <2> QED BY <1>d, <1>e, <2>1, <2>2, AffordSame
<1>9. ASSUME OperatorWrites PROVE Afforded(i)'
  <2>1. /\ operator.verdict \in {"retry", "dead_letter"}
        /\ \A j \in Record \ {operator.record} : rows'[j] = rows[j]
        /\ UNCHANGED <<pc, batch, outcome, failures>>
    BY <1>9, OperatorWriteEffect DEF publishers
  <2>2. i # operator.record
    BY <1>d, <2>1 DEF Shape, OperatorShape
  <2>3. Spent(i)' <= Spent(i)
    BY <1>9, <1>a, SpentEffect
  <2> QED BY <1>d, <1>e, <2>1, <2>2, <2>3, AffordSame
<1> QED BY <1>1, <1>2, <1>3, <1>4, <1>5, <1>6, <1>7, <1>8, <1>9 DEF Next, SomeDeleted

-----------------------------------------------------------------------------
(* Only what was stored goes out.                                          *)

(* A row that was inserted is a row, or was deleted, ever after. *)
LEMMA StoredStays ==
  ASSUME Shape, [Next]_vars, NEW i \in Record, rows[i].status # "absent"
  PROVE  rows'[i].status # "absent"
<1>1. CASE StoreRendered \/ SomeDeleted \/ Tick
  BY <1>1, TableEffect
<1>2. ASSUME NEW w \in Publisher, ReserveAvailable(w) PROVE rows'[i].status # "absent"
  BY <1>2, ReserveEffect
<1>3. ASSUME NEW w \in Publisher, WriteRow(w) PROVE rows'[i].status # "absent"
  <2>1. PICK k \in Stored :
           /\ pc[w] = "write"
           /\ \A j \in Record \ {k} : rows'[j] = rows[j]
           /\ rows'[k].status = IF seen[w].status = outcome[w] THEN rows[k].status
                                ELSE outcome[w]
    BY <1>3, WriteEffect
  <2>2. outcome[w] \in Verdict
    BY <2>1 DEF Shape, BatchShape
  <2> QED BY <2>1, <2>2 DEF Verdict
<1>4. CASE OperatorWrites
  BY <1>4, OperatorWriteEffect
<1>5. ASSUME NEW w \in Publisher,
             \/ MessageAcked(w) \/ MessageRefused(w) \/ MessageResent(w)
             \/ LateDelivery(w) \/ PublishReturns(w) \/ PublishRaises(w) \/ ReadRow(w)
             \/ WriteStale(w) \/ Crash(w) \/ Exit(w)
      PROVE  rows' = rows
  BY <1>5 DEF MessageAcked, MessageRefused, MessageResent, LateDelivery, PublishReturns,
     PublishRaises, ReadRow, WriteStale, Crash, Exit
<1>6. CASE OperatorReads \/ UNCHANGED vars
  BY <1>6 DEF OperatorReads, vars
<1> QED BY <1>1, <1>2, <1>3, <1>4, <1>5, <1>6 DEF Next, SomeDeleted

(* Every message in the topic or in a producer is of a record that was stored. *)
OnlyStoredGoesOut ==
  \A i \in Record : Logged(i) \/ (\E w \in Publisher : queue[w][i] > 0) =>
    rows[i].status # "absent"

LEMMA GoesOutStep ==
  ASSUME Shape, OnlyStoredGoesOut, [Next]_vars,
         \A i \in Record : Logged(i)' \/ (\E w \in Publisher : queue'[w][i] > 0) =>
           Logged(i) \/ (\E w \in Publisher : queue[w][i] > 0) \/ rows[i].status # "absent"
  PROVE  OnlyStoredGoesOut'
BY StoredStays DEF OnlyStoredGoesOut

(* A message that arrives adds one record to the topic. *)
LEMMA LogAdds ==
  ASSUME TypeOK, NEW k \in Record, log' = Append(log, k), NEW i \in Record, Logged(i)'
  PROVE  Logged(i) \/ i = k
<1>1. log \in Seq(Record)
  BY DEF TypeOK
<1>2. PICK n \in DOMAIN log' : log'[n] = i
  BY DEF Logged
<1>3. /\ DOMAIN log' = 1..(Len(log) + 1) /\ DOMAIN log = 1..Len(log)
      /\ Len(log) \in Nat
      /\ log'[Len(log) + 1] = k
      /\ \A m \in 1..Len(log) : log'[m] = log[m]
  BY <1>1, AppendProperties
<1>4. CASE n = Len(log) + 1
  BY <1>2, <1>3, <1>4
<1>5. CASE n \in DOMAIN log
  BY <1>2, <1>3, <1>5 DEF Logged
<1> QED BY <1>2, <1>3, <1>4, <1>5

(* A publisher is at a record that was stored. *)
LEMMA NextWasStored ==
  ASSUME Shape, NEW w \in Publisher, NEW i \in Record, IsNext(w, i)
  PROVE  rows[i].status # "absent"
BY DEF Shape, BatchShape, IsNext

LEMMA GoesOutNext ==
  ASSUME Shape, OnlyStoredGoesOut, [Next]_vars
  PROVE  OnlyStoredGoesOut'
<1>1. CASE UNCHANGED <<log, queue>>
  BY <1>1, GoesOutStep DEF Logged
<1>2. ASSUME NEW w \in Publisher, MessageAcked(w) PROVE OnlyStoredGoesOut'
  <2>1. PICK i \in Record : IsNext(w, i) /\ log' = Append(log, i) /\ queue' = queue
    BY <1>2 DEF MessageAcked
  <2> QED BY <2>1, GoesOutStep, LogAdds, NextWasStored DEF Shape
<1>3. ASSUME NEW w \in Publisher, LateDelivery(w) PROVE OnlyStoredGoesOut'
  <2>1. PICK i \in Record : /\ queue[w][i] > 0
                            /\ queue' = [queue EXCEPT ![w][i] = @ - 1]
                            /\ log' = log \/ log' = Append(log, i)
    BY <1>3 DEF LateDelivery
  <2>2. \A v \in Publisher, j \in Record : queue'[v][j] > 0 => queue[v][j] > 0
    BY <2>1 DEF Shape, TypeOK
  <2>3. \A j \in Record : Logged(j)' => Logged(j) \/ j = i
    BY <2>1, LogAdds DEF Shape, Logged
  <2> QED BY <2>1, <2>2, <2>3, GoesOutStep
<1>4. ASSUME NEW w \in Publisher, PublishRaises(w) PROVE OnlyStoredGoesOut'
  <2>1. PICK i \in Record :
           /\ IsNext(w, i) /\ log' = log
           /\ queue' = [queue EXCEPT ![w][i] = IF outcome[w] = "queued" THEN @ + 1 ELSE @]
    BY <1>4 DEF PublishRaises
  <2>2. \A v \in Publisher, j \in Record : queue'[v][j] > 0 => queue[v][j] > 0 \/ j = i
    BY <2>1 DEF Shape, TypeOK
  <2> QED BY <2>1, <2>2, GoesOutStep, NextWasStored DEF Logged
<1>5. ASSUME NEW w \in Publisher, WriteStale(w) \/ Crash(w) \/ Exit(w)
      PROVE  OnlyStoredGoesOut'
  <2>1. log' = log /\ queue' = [queue EXCEPT ![w] = Empty]
    BY <1>5 DEF WriteStale, Crash, Exit, Stop
  <2>2. \A v \in Publisher, j \in Record : queue'[v][j] > 0 => queue[v][j] > 0
    BY <2>1 DEF Shape, TypeOK, Empty
  <2> QED BY <2>1, <2>2, GoesOutStep DEF Logged
<1>6. ASSUME NEW w \in Publisher,
             \/ ReserveAvailable(w) \/ MessageRefused(w) \/ PublishReturns(w)
             \/ ReadRow(w) \/ WriteRow(w)
      PROVE  UNCHANGED <<log, queue>>
  BY <1>6 DEF ReserveAvailable, MessageRefused, PublishReturns, ReadRow, WriteRow
<1>7. ASSUME \/ StoreRendered \/ SomeDeleted \/ Tick
             \/ OperatorReads \/ OperatorWrites \/ UNCHANGED vars
      PROVE  UNCHANGED <<log, queue>>
  BY <1>7 DEF StoreRendered, SomeDeleted, DeleteForAgent, Tick, OperatorReads, OperatorWrites, vars
<1>8. ASSUME NEW w \in Publisher, MessageResent(w) PROVE OnlyStoredGoesOut'
  <2>1. PICK i \in Record : /\ log' = Append(log, i) /\ queue' = queue
                            /\ IsNext(w, i) \/ queue[w][i] > 0
    BY <1>8 DEF MessageResent
  <2>2. \A j \in Record : Logged(j)' => Logged(j) \/ j = i
    BY <2>1, LogAdds DEF Shape
  <2> QED BY <2>1, <2>2, GoesOutStep, NextWasStored
<1> QED BY <1>1, <1>2, <1>3, <1>4, <1>5, <1>6, <1>7, <1>8 DEF Next, SomeDeleted

-----------------------------------------------------------------------------
(* The theorems.                                                           *)

Invariant == Shape /\ Earned /\ Hands /\ Strand /\ Count /\ Afford

LEMMA InvariantInit == Init => Invariant
<1> SUFFICES ASSUME Init PROVE Invariant
  OBVIOUS
<1>1. Shape
  BY ShapeInit
<1>2. \A i \in Record : rows[i].status = "absent"
  BY DEF Init, Blank
<1>3. Earned
  BY <1>2 DEF Init, Earned, PublishedWasLogged, AckedWasLogged, IsNext
<1>4. \A i \in Record : Cardinality(Holders(i)) = 0 /\ ~Meddled(i) /\ operated[i] = 0
                        /\ failures[i] = 0
  BY <1>1, <1>2, AbsentIsFree, FS_EmptySet DEF Init, Empty
<1>5. Hands
  BY <1>2, <1>4 DEF Hands, HandsCounted, Open, One
<1>6. Strand
  <2>1. Orphans = {}
    BY <1>2 DEF Orphans, IsOrphan
  <2>2. Ended = 0
    BY SettingsAssumption DEF Init, Ended
  <2> QED BY <2>1, <2>2, FS_EmptySet DEF Strand
<1>7. Count
  BY <1>2, <1>4 DEF Count, Counted, Open, Stored
<1>8. Afford
  <2>1. \A i \in Record : OnTheWay(i) = {}
    BY DEF Init, OnTheWay, Empty
  <2>2. \A i \in Record : CopiesOf(i) = {}
    BY DEF Init, CopiesOf
  <2>3. \A i \in Record : IsFiniteSet(OnTheWay(i)) /\ Spent(i) = 0
    <3>1. Cardinality({}) = 0 /\ IsFiniteSet({})
      BY FS_EmptySet
    <3>2. \A i \in Record : resent[i] = 0
      BY DEF Init, Empty
    <3> QED BY <2>1, <2>2, <3>1, <3>2 DEF Spent
  <2> QED BY <1>1, <1>2, <1>4, <2>3, AbsentIsFree, SettingsAssumption
          DEF Afford, Finite, Afforded
<1> QED BY <1>1, <1>3, <1>5, <1>6, <1>7, <1>8 DEF Invariant

LEMMA InvariantNext == Invariant /\ [Next]_vars => Invariant'
BY ShapeNext, EarnedNext, HandsNext, StrandNext, CountNext, AffordNext
DEF Invariant

(* What the table, the publishers and the operator hold has its type, and    *)
(* what the history says of them is so, in every state.                      *)
THEOREM Invariance == Spec => []Invariant
BY InvariantInit, InvariantNext, PTL DEF Spec

(* The state of the outbox and its publishers has its type. *)
THEOREM TypeCorrect == Spec => []TypeOK
<1>1. Invariant => TypeOK
  BY DEF Invariant, Shape
<1> QED BY <1>1, Invariance, PTL

(* No record of any outbox is "published" before it is in the topic,         *)
(* whatever operators, timeouts and half-overwritten rows have done.         *)
THEOREM PublishedIsEarned == Spec => []PublishedWasLogged
<1>1. Invariant => PublishedWasLogged
  BY DEF Invariant, Earned
<1> QED BY <1>1, Invariance, PTL

(* Any number of publishers share a record only if operators have acted on   *)
(* it, one more for each of their actions.                                   *)
THEOREM HandsAreBounded == Spec => []HoldersAreBounded
<1>1. Invariant => HoldersAreBounded
  <2> SUFFICES ASSUME Invariant, NEW i \in Record
               PROVE  Cardinality(Holders(i)) <= 1 + operated[i]
    BY DEF HoldersAreBounded
  <2>1. Cardinality(Holders(i)) \in Nat /\ operated[i] \in Nat
    BY HoldersFacts DEF Invariant, Shape, TypeOK
  <2> QED BY <2>1 DEF Invariant, Hands, HandsCounted, One
<1> QED BY <1>1, Invariance, PTL

(* The records left inflight with nobody to mark them are no more than the   *)
(* batches of publishers that crashed and, without the record a deletion     *)
(* took from under the mark, of those that ended there.                      *)
THEOREM OnlyEndedPublishersStrand == Spec => []InflightIsHeld
<1>1. Invariant => InflightIsHeld
  <2> SUFFICES ASSUME Invariant PROVE InflightIsHeld
    OBVIOUS
  <2> DEFINE left == {i \in Record : Abandoned(i)}
  <2>1. left \subseteq Orphans
    BY DEF Orphans, IsOrphan, Sure, Abandoned
  <2>2. IsFiniteSet(Orphans) /\ Cardinality(Orphans) \in Nat
    BY RecordFacts, FS_Subset, FS_CardinalityType DEF Orphans
  <2>3. Cardinality(left) \in Nat /\ Cardinality(left) <= Cardinality(Orphans)
    BY <2>1, <2>2, FS_Subset, FS_CardinalityType
  <2>4. Ended \in Nat
    BY EndedIsNat DEF Invariant, Shape
  <2>5. Cardinality(Orphans) <= Ended
    BY DEF Invariant, Strand
  <2>6. Cardinality(left) <= Ended
    BY <2>2, <2>3, <2>4, <2>5
  <2> QED BY <2>6 DEF InflightIsHeld, Ended
<1> QED BY <1>1, Invariance, PTL

(* Where no operator has acted, the limit tested on the attempt_count of the *)
(* reservation is met by exactly MaxAttempts failures.                       *)
THEOREM GivingUpIsEarned == Spec => []DeadLetterIsExhausted
<1>1. Invariant => DeadLetterIsExhausted
  BY DEF Invariant, Count, Counted, DeadLetterIsExhausted
<1> QED BY <1>1, Invariance, PTL

(* Where no operator has acted, the copies of a record in the topic and those *)
(* timeouts have left with the producers are no more than its attempts and   *)
(* its lost acknowledgements.                                                *)
THEOREM CopiesStayBounded == Spec => []CopiesAreBounded
<1>1. Invariant => CopiesAreBounded
  <2> SUFFICES ASSUME Invariant, NEW i \in Record, operated[i] = 0
               PROVE  Copies(i) <= MaxAttempts + resent[i]
    BY DEF CopiesAreBounded
  <2>1. /\ Cardinality(CopiesOf(i)) \in Nat /\ Cardinality(OnTheWay(i)) \in Nat
        /\ resent[i] \in Nat
    BY CopiesEffect, FS_CardinalityType DEF Invariant, Shape, TypeOK, Afford, Finite
  <2>2. Cardinality(CopiesOf(i)) + Cardinality(OnTheWay(i)) - resent[i] <= MaxAttempts
    BY DEF Invariant, Afford, Afforded, Spent
  <2>3. Copies(i) = Cardinality(CopiesOf(i))
    BY DEF Copies, CopiesOf
  <2> QED BY <2>1, <2>2, <2>3, SettingsAssumption
<1> QED BY <1>1, Invariance, PTL

(* Where no operator has acted, a published record is never taken up again.  *)
THEOREM PublishedStaysPublished == Spec => PublishedIsFinal
<1>1. Invariant /\ [Next]_vars =>
        [\A i \in Record : rows[i].status = "published" /\ operated'[i] = 0 =>
           rows'[i].status \in {"published", "deleted"}]_vars
  BY PublishedStays DEF Invariant
<1> QED BY <1>1, Invariance, PTL DEF Spec, PublishedIsFinal

(* What reaches the topic, late and repeated copies included, is of a record *)
(* that a render has stored, though it may be deleted by now: all that       *)
(* ConfigDelivery assumes of the outbox.                                     *)
THEOREM OnlyStoredIsLogged == Spec => [](\A i \in Record : Logged(i) => rows[i].status # "absent")
<1>1. Init => Shape /\ OnlyStoredGoesOut
  BY ShapeInit DEF Init, Logged, Empty, OnlyStoredGoesOut
<1>2. Shape /\ OnlyStoredGoesOut /\ [Next]_vars => Shape' /\ OnlyStoredGoesOut'
  BY ShapeNext, GoesOutNext
<1>3. OnlyStoredGoesOut => \A i \in Record : Logged(i) => rows[i].status # "absent"
  BY DEF OnlyStoredGoesOut
<1> QED BY <1>1, <1>2, <1>3, PTL DEF Spec

=============================================================================
