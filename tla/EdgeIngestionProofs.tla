------------------------- MODULE EdgeIngestionProofs -------------------------
(***************************************************************************)
(* Theorems about EdgeIngestion for any points, values and thresholds and  *)
(* any number of restarts, when one process uses the SQLite file: its      *)
(* types, the order of the sequence numbers, which of them may be missing, *)
(* and how far the last event is from what was observed last.              *)
(***************************************************************************)
EXTENDS EdgeIngestion, FiniteSetTheorems, SequenceTheorems, TLAPS

(* A state is not the mark of a missing one *)
LEMMA StateIsKnown ==
  /\ NoState \notin PointState
  /\ InitialState \in PointState
BY DEF NoState, InitialState, PointState, Value

(* Processing keeps a state a state and counts the event it publishes *)
LEMMA ProcessedState ==
  ASSUME NEW p \in Point, NEW v \in Value, NEW state \in PointState
  PROVE  /\ Processed(p, v, state) \in PointState
         /\ Publishes(p, v, state) \in BOOLEAN
         /\ Processed(p, v, state).sequence =
              state.sequence + (IF Publishes(p, v, state) THEN 1 ELSE 0)
<1>1. /\ state.sequence \in Nat /\ state.published \in Value
      /\ [state EXCEPT !.observed = v] \in PointState
      /\ [state EXCEPT !.observed = v].sequence = state.sequence
  BY DEF PointState
<1>2. Publishes(p, v, state) \in BOOLEAN
  BY DEF Publishes, IsSignificant
<1>3. CASE Publishes(p, v, state)
  <2>1. Processed(p, v, state) =
          [observed |-> v, published |-> v, sequence |-> state.sequence + 1]
    BY <1>3 DEF Processed
  <2>2. QED
    BY <1>1, <1>2, <1>3, <2>1 DEF PointState
<1>4. CASE ~Publishes(p, v, state)
  <2>1. Processed(p, v, state) = [state EXCEPT !.observed = v]
    BY <1>4 DEF Processed
  <2>2. QED
    BY <1>1, <1>2, <1>4, <2>1
<1>5. QED
  BY <1>3, <1>4

(* What Update does, from a state that is one *)
LEMMA UpdateState ==
  ASSUME TypeOK, NEW w \in Process, NEW p \in Point, NEW v \in Value, NEW state \in PointState,
         Update(w, p, v, state)
  PROVE  /\ hot' \in [Process -> [Point -> PointState \cup {NoState}]]
         /\ observation' \in [Process -> Observation \cup {Nothing}]
         /\ pc' \in [Process -> {"idle", "load", "save", "append"}]
         /\ pc'[w] = "save"
         /\ observation'[w].point = p /\ observation'[w].value = v
         /\ hot'[w][p] \in PointState
         /\ hot'[w][p].sequence = state.sequence + (IF observation'[w].publish THEN 1 ELSE 0)
         /\ \A q \in Point \ {p} : hot'[w][q] = hot[w][q]
<1> DEFINE new == Processed(p, v, state)
           o == [point |-> p, value |-> v, publish |-> Publishes(p, v, state)]
<1>1. /\ new \in PointState /\ o \in Observation
      /\ new.sequence = state.sequence + (IF o.publish THEN 1 ELSE 0)
  BY ProcessedState DEF Observation
<1>2. /\ hot' = [hot EXCEPT ![w][p] = new]
      /\ observation' = [observation EXCEPT ![w] = o]
      /\ pc' = [pc EXCEPT ![w] = "save"]
  BY DEF Update
<1>3. o.point = p /\ o.value = v
  OBVIOUS
<1> HIDE DEF new, o
<1>4. /\ hot'[w][p] = new /\ observation'[w] = o /\ pc'[w] = "save"
      /\ \A q \in Point \ {p} : hot'[w][q] = hot[w][q]
  BY <1>2 DEF TypeOK
<1>5. hot' \in [Process -> [Point -> PointState \cup {NoState}]]
  BY <1>1, <1>2 DEF TypeOK
<1>6. observation' \in [Process -> Observation \cup {Nothing}]
  BY <1>1, <1>2 DEF TypeOK
<1>7. pc' \in [Process -> {"idle", "load", "save", "append"}]
  BY <1>2 DEF TypeOK
<1>8. QED
  BY <1>1, <1>3, <1>4, <1>5, <1>6, <1>7

(***************************************************************************)
(* One process.                                                            *)
(***************************************************************************)
LEMMA IndInit == Init => IndInv
<1> SUFFICES ASSUME Init PROVE IndInv
  OBVIOUS
<1>1. TypeOK
  <2>1. \A p \in Point : enqueued[p] \in Seq(Event)
    BY DEF Init
  <2>2. QED
    BY <2>1 DEF Init, TypeOK
<1>2. MemoryAgrees /\ SaveCounts /\ AppendIsSaved
  BY DEF Init, MemoryAgrees, SaveCounts, AppendIsSaved
<1>3. \A p \in Point : Len(enqueued[p]) = 0
  BY DEF Init
<1>4. EventsAreCounted /\ SequenceRises
  BY <1>3 DEF EventsAreCounted, SequenceRises
<1>5. QED
  BY <1>1, <1>2, <1>4 DEF IndInv

(* An observation processed on a state that agrees with the row *)
LEMMA IndUpdate ==
  ASSUME IndInv, OneProcess, NEW w \in Process, NEW p \in Point, NEW v \in Value,
         NEW state \in PointState, state.sequence = Counted(p),
         pc[w] \in {"idle", "load"},
         Update(w, p, v, state),
         UNCHANGED <<cache, enqueued, restarts>>, observations' \in Nat
  PROVE  IndInv'
<1>1. TypeOK
  BY DEF IndInv
<1>2. /\ hot' \in [Process -> [Point -> PointState \cup {NoState}]]
      /\ observation' \in [Process -> Observation \cup {Nothing}]
      /\ pc' \in [Process -> {"idle", "load", "save", "append"}]
      /\ pc'[w] = "save"
      /\ observation'[w].point = p /\ observation'[w].value = v
      /\ hot'[w][p] \in PointState
      /\ hot'[w][p].sequence = state.sequence + (IF observation'[w].publish THEN 1 ELSE 0)
      /\ \A q \in Point \ {p} : hot'[w][q] = hot[w][q]
  BY <1>1, UpdateState
<1>3. TypeOK'
  BY <1>1, <1>2 DEF TypeOK
<1>4. \A u \in Process : u = w
  BY DEF OneProcess
<1>5. MemoryAgrees'
  <2> SUFFICES ASSUME NEW q \in Point, q # p
               PROVE  hot'[w][q] = NoState \/ hot'[w][q] = cache[q]
    BY <1>2, <1>4 DEF MemoryAgrees
  <2>1. hot'[w][q] = hot[w][q]
    BY <1>2
  <2>2. QED
    BY <2>1 DEF IndInv, MemoryAgrees
<1>6. \A q \in Point : Counted(q)' = Counted(q)
  BY DEF Counted
<1>7. SaveCounts'
  BY <1>2, <1>4, <1>6 DEF SaveCounts
<1>8. AppendIsSaved'
  BY <1>2, <1>4 DEF AppendIsSaved
<1>9. EventsAreCounted'
  BY <1>2, <1>4, <1>6 DEF IndInv, EventsAreCounted
<1>10. SequenceRises'
  BY DEF IndInv, SequenceRises
<1>11. QED
  BY <1>3, <1>5, <1>7, <1>8, <1>9, <1>10 DEF IndInv

LEMMA IndObserve ==
  ASSUME IndInv, OneProcess, NEW w \in Process, Observe(w) PROVE IndInv'
<1>1. PICK p \in Point, v \in Value :
        /\ pc[w] = "idle"
        /\ observations' = observations + 1
        /\ \/ hot[w][p] # NoState /\ Update(w, p, v, hot[w][p])
           \/ /\ hot[w][p] = NoState
              /\ observation' = [observation EXCEPT ![w] =
                                   [point |-> p, value |-> v, publish |-> FALSE]]
              /\ pc' = [pc EXCEPT ![w] = "load"]
              /\ hot' = hot
        /\ UNCHANGED <<cache, enqueued, restarts>>
  BY DEF Observe
<1>2. observations' \in Nat
  BY <1>1 DEF IndInv, TypeOK
<1>3. CASE hot[w][p] # NoState /\ Update(w, p, v, hot[w][p])
  <2>1. hot[w][p] \in PointState /\ hot[w][p] = cache[p]
    BY <1>1, <1>3 DEF IndInv, TypeOK, MemoryAgrees
  <2>2. hot[w][p].sequence = Counted(p)
    BY <1>3, <2>1 DEF Counted
  <2>3. QED
    BY <1>1, <1>2, <1>3, <2>1, <2>2, IndUpdate
<1>4. CASE /\ observation' = [observation EXCEPT ![w] =
                                [point |-> p, value |-> v, publish |-> FALSE]]
           /\ pc' = [pc EXCEPT ![w] = "load"]
           /\ hot' = hot
  <2> DEFINE o == [point |-> p, value |-> v, publish |-> FALSE]
  <2>1. o \in Observation /\ o.point = p /\ o.value = v
    BY DEF Observation
  <2>2. observation' = [observation EXCEPT ![w] = o]
    BY <1>4
  <2> HIDE DEF o
  <2>3. observation'[w] = o /\ pc'[w] = "load"
    BY <1>4, <2>2 DEF IndInv, TypeOK
  <2>4. TypeOK'
    <3>1. observation' \in [Process -> Observation \cup {Nothing}]
      BY <2>1, <2>2 DEF IndInv, TypeOK
    <3>2. pc' \in [Process -> {"idle", "load", "save", "append"}]
      BY <1>4 DEF IndInv, TypeOK
    <3>3. hot' = hot /\ UNCHANGED <<cache, enqueued, restarts>>
      BY <1>1, <1>4
    <3>4. QED
      BY <1>2, <3>1, <3>2, <3>3 DEF IndInv, TypeOK
  <2>5. \A u \in Process : u = w
    BY DEF OneProcess
  <2>6. MemoryAgrees'
    BY <1>1, <1>4, <2>5 DEF IndInv, MemoryAgrees
  <2>7. SaveCounts' /\ AppendIsSaved'
    <3>1. pc'[w] # "save" /\ pc'[w] # "append"
          /\ observation'[w].point \in Point /\ observation'[w].value \in Value
      BY <2>1, <2>3
    <3>2. QED
      BY <2>5, <3>1 DEF SaveCounts, AppendIsSaved
  <2>8. \A q \in Point : Counted(q)' = Counted(q)
    BY <1>1 DEF Counted
  <2>9. EventsAreCounted'
    BY <1>1, <2>3, <2>5, <2>8 DEF IndInv, EventsAreCounted
  <2>10. SequenceRises'
    BY <1>1 DEF IndInv, SequenceRises
  <2>11. QED
    BY <2>4, <2>6, <2>7, <2>9, <2>10 DEF IndInv
<1>5. QED
  BY <1>1, <1>3, <1>4

LEMMA IndLoad ==
  ASSUME IndInv, OneProcess, NEW w \in Process, Load(w) PROVE IndInv'
<1> DEFINE p == observation[w].point
           state == IF cache[p] = NoState THEN InitialState ELSE cache[p]
<1>1. /\ pc[w] = "load" /\ Update(w, p, observation[w].value, state)
      /\ UNCHANGED <<cache, enqueued, restarts>> /\ observations' = observations
  BY DEF Load
<1>2. p \in Point /\ observation[w].value \in Value
  BY <1>1 DEF IndInv, SaveCounts
<1>3. state \in PointState /\ state.sequence = Counted(p)
  <2>1. cache[p] \in PointState \cup {NoState}
    BY <1>2 DEF IndInv, TypeOK
  <2>2. QED
    BY <2>1, StateIsKnown DEF Counted, InitialState
<1>4. observations' \in Nat
  BY <1>1 DEF IndInv, TypeOK
<1> HIDE DEF p, state
<1>5. QED
  BY <1>1, <1>2, <1>3, <1>4, IndUpdate

LEMMA IndRestart ==
  ASSUME IndInv, OneProcess, NEW w \in Process, Restart(w) PROVE IndInv'
<1>1. /\ hot' = [hot EXCEPT ![w] = [p \in Point |-> NoState]]
      /\ pc' = [pc EXCEPT ![w] = "idle"]
      /\ observation' = [observation EXCEPT ![w] = Nothing]
      /\ restarts' = restarts + 1
      /\ UNCHANGED <<cache, enqueued, observations>>
  BY DEF Restart
<1>2. \A u \in Process : u = w
  BY DEF OneProcess
<1>3. pc'[w] = "idle" /\ \A p \in Point : hot'[w][p] = NoState
  BY <1>1 DEF IndInv, TypeOK
<1>4. TypeOK'
  BY <1>1 DEF IndInv, TypeOK
<1>5. MemoryAgrees' /\ SaveCounts' /\ AppendIsSaved'
  BY <1>2, <1>3 DEF MemoryAgrees, SaveCounts, AppendIsSaved
<1>6. EventsAreCounted'
  BY <1>1, <1>2, <1>3 DEF IndInv, EventsAreCounted, Counted
<1>7. SequenceRises'
  BY <1>1 DEF IndInv, SequenceRises
<1>8. QED
  BY <1>4, <1>5, <1>6, <1>7 DEF IndInv

LEMMA IndSave ==
  ASSUME IndInv, OneProcess, NEW w \in Process, Save(w) PROVE IndInv'
<1>0. PICK p \in Point, o \in Observation \cup {Nothing} : o = observation[w] /\ p = o.point
  BY DEF IndInv, TypeOK, SaveCounts, Save
<1>1. /\ pc[w] = "save"
      /\ cache' = [cache EXCEPT ![p] = hot[w][p]]
      /\ \/ o.publish /\ pc' = [pc EXCEPT ![w] = "append"] /\ observation' = observation
         \/ /\ ~o.publish /\ pc' = [pc EXCEPT ![w] = "idle"]
            /\ observation' = [observation EXCEPT ![w] = Nothing]
      /\ UNCHANGED <<hot, enqueued, observations, restarts>>
  BY <1>0 DEF Save
<1>2. \A u \in Process : u = w
  BY DEF OneProcess
<1>3. /\ p \in Point /\ o.value \in Value
      /\ hot[w][p] \in PointState
      /\ hot[w][p].sequence = Counted(p) + (IF o.publish THEN 1 ELSE 0)
  BY <1>0, <1>1 DEF IndInv, SaveCounts
<1>4. Counted(p) \in Nat
  BY <1>3 DEF IndInv, TypeOK, Counted, PointState
<1>5. /\ cache'[p] = hot[w][p] /\ \A q \in Point \ {p} : cache'[q] = cache[q]
      /\ cache' \in [Point -> PointState \cup {NoState}]
  BY <1>1, <1>3 DEF IndInv, TypeOK
<1>6. /\ Counted(p)' = Counted(p) + (IF o.publish THEN 1 ELSE 0)
      /\ \A q \in Point \ {p} : Counted(q)' = Counted(q)
  BY <1>3, <1>5, StateIsKnown DEF Counted
<1>7. \/ o.publish /\ pc'[w] = "append" /\ observation'[w] = o
      \/ ~o.publish /\ pc'[w] = "idle"
  BY <1>0, <1>1 DEF IndInv, TypeOK
<1>8. /\ pc' \in [Process -> {"idle", "load", "save", "append"}]
      /\ observation' \in [Process -> Observation \cup {Nothing}]
  BY <1>1 DEF IndInv, TypeOK
<1>9. TypeOK'
  BY <1>1, <1>5, <1>8 DEF IndInv, TypeOK
<1>10. MemoryAgrees'
  <2> SUFFICES ASSUME NEW q \in Point PROVE hot[w][q] = NoState \/ hot[w][q] = cache'[q]
    BY <1>1, <1>2 DEF MemoryAgrees
  <2>1. CASE q = p
    BY <1>5, <2>1
  <2>2. CASE q # p
    BY <1>0, <1>5, <2>2 DEF IndInv, MemoryAgrees
  <2>3. QED
    BY <2>1, <2>2
<1>11. SaveCounts'
  BY <1>0, <1>2, <1>3, <1>7 DEF SaveCounts
<1>12. AppendIsSaved'
  <2> SUFFICES ASSUME pc'[w] = "append"
               PROVE  hot[w][p] \in PointState /\ hot[w][p] = cache'[p] /\ hot[w][p].sequence > 0
    BY <1>0, <1>1, <1>2, <1>7 DEF AppendIsSaved
  <2>1. QED
    BY <1>3, <1>4, <1>5, <1>7
<1>13. EventsAreCounted'
  <2> SUFFICES ASSUME NEW q \in Point, NEW n \in 1..Len(enqueued[q])
               PROVE  /\ enqueued[q][n].sequence <= Counted(q)'
                      /\ pc'[w] = "append" /\ p = q =>
                           enqueued[q][n].sequence < Counted(q)'
    BY <1>0, <1>1, <1>2, <1>7 DEF EventsAreCounted
  <2>1. enqueued[q][n].sequence <= Counted(q)
    BY DEF IndInv, EventsAreCounted
  <2>2. enqueued[q][n].sequence \in Nat
    <3>1. enqueued[q] \in Seq(Event)
      BY DEF IndInv, TypeOK
    <3>2. enqueued[q][n] \in Event
      BY <3>1
    <3>3. QED
      BY <3>2 DEF Event
  <2>3. QED
    BY <1>4, <1>6, <1>7, <2>1, <2>2
<1>14. SequenceRises'
  BY <1>1 DEF IndInv, SequenceRises
<1>15. QED
  BY <1>9, <1>10, <1>11, <1>12, <1>13, <1>14 DEF IndInv

LEMMA IndAppend ==
  ASSUME IndInv, OneProcess, NEW w \in Process, AppendEvent(w) PROVE IndInv'
<1> DEFINE p == observation[w].point
           e == [sequence |-> hot[w][p].sequence, value |-> observation[w].value]
<1>1. /\ pc[w] = "append"
      /\ enqueued' = [enqueued EXCEPT ![p] = Append(@, e)]
      /\ pc' = [pc EXCEPT ![w] = "idle"]
      /\ observation' = [observation EXCEPT ![w] = Nothing]
      /\ UNCHANGED <<cache, hot, observations, restarts>>
  BY DEF AppendEvent
<1>2. \A u \in Process : u = w
  BY DEF OneProcess
<1>3. /\ p \in Point /\ observation[w].value \in Value
      /\ hot[w][p] \in PointState /\ hot[w][p] = cache[p] /\ hot[w][p].sequence > 0
  BY <1>1 DEF IndInv, SaveCounts, AppendIsSaved
<1>4. e \in Event /\ e.sequence = Counted(p)
  BY <1>3, StateIsKnown DEF Event, PointState, Counted
<1>5. \A n \in 1..Len(enqueued[p]) : enqueued[p][n].sequence < e.sequence
  BY <1>1, <1>3, <1>4 DEF IndInv, EventsAreCounted
<1>6. \A q \in Point : Counted(q)' = Counted(q)
  BY <1>1 DEF Counted
<1> HIDE DEF p, e
<1>7. /\ enqueued[p] \in Seq(Event)
      /\ enqueued'[p] = Append(enqueued[p], e)
      /\ \A q \in Point \ {p} : enqueued'[q] = enqueued[q]
  BY <1>1, <1>3 DEF IndInv, TypeOK
<1>8. /\ enqueued'[p] \in Seq(Event)
      /\ Len(enqueued'[p]) = Len(enqueued[p]) + 1
      /\ \A n \in 1..Len(enqueued[p]) : enqueued'[p][n] = enqueued[p][n]
      /\ enqueued'[p][Len(enqueued[p]) + 1] = e
  BY <1>4, <1>7, AppendProperties
<1>9. TypeOK'
  <2>1. enqueued' \in [Point -> Seq(Event)]
    BY <1>1, <1>3, <1>7, <1>8 DEF IndInv, TypeOK
  <2>2. QED
    BY <1>1, <2>1 DEF IndInv, TypeOK
<1>10. pc'[w] = "idle"
  BY <1>1 DEF IndInv, TypeOK
<1>11. MemoryAgrees'
  BY <1>1, <1>2 DEF IndInv, MemoryAgrees
<1>12. SaveCounts' /\ AppendIsSaved'
  BY <1>2, <1>10 DEF SaveCounts, AppendIsSaved
<1>13. EventsAreCounted'
  <2> SUFFICES ASSUME NEW q \in Point, NEW n \in 1..Len(enqueued'[q])
               PROVE  enqueued'[q][n].sequence <= Counted(q)
    BY <1>2, <1>6, <1>10 DEF EventsAreCounted
  <2>1. CASE q # p
    BY <1>7, <2>1 DEF IndInv, EventsAreCounted
  <2>2. CASE q = p /\ n \in 1..Len(enqueued[p])
    BY <1>8, <2>2 DEF IndInv, EventsAreCounted
  <2>3. CASE q = p /\ n = Len(enqueued[p]) + 1
    <3>1. enqueued'[q][n] = e /\ Counted(q) \in Nat
      BY <1>3, <1>8, <2>3, StateIsKnown DEF Counted, PointState, p
    <3>2. QED
      BY <1>4, <2>3, <3>1 DEF e, p
  <2>4. Len(enqueued[p]) \in Nat
    BY <1>7
  <2>5. QED
    BY <1>8, <2>1, <2>2, <2>3, <2>4
<1>14. SequenceRises'
  <2> SUFFICES ASSUME NEW q \in Point, NEW m \in 1..Len(enqueued'[q]),
                      NEW n \in 1..Len(enqueued'[q]), m < n
               PROVE  enqueued'[q][m].sequence < enqueued'[q][n].sequence
    BY DEF SequenceRises
  <2>1. CASE q # p
    BY <1>7, <2>1 DEF IndInv, SequenceRises
  <2>2. CASE q = p
    <3>1. Len(enqueued[p]) \in Nat
      BY <1>7
    <3>2. m \in 1..Len(enqueued[p])
      BY <1>8, <2>2, <3>1
    <3>3. CASE n \in 1..Len(enqueued[p])
      BY <1>8, <2>2, <3>2, <3>3 DEF IndInv, SequenceRises
    <3>4. CASE n = Len(enqueued[p]) + 1
      BY <1>5, <1>8, <2>2, <3>2, <3>4
    <3>5. QED
      BY <1>8, <2>2, <3>1, <3>3, <3>4
  <2>3. QED
    BY <2>1, <2>2
<1>15. QED
  BY <1>9, <1>11, <1>12, <1>13, <1>14 DEF IndInv

LEMMA IndNext == IndInv /\ OneProcess /\ [Next]_vars => IndInv'
<1> SUFFICES ASSUME IndInv, OneProcess, [Next]_vars PROVE IndInv'
  OBVIOUS
<1>1. ASSUME NEW w \in Process, Observe(w) PROVE IndInv'
  BY <1>1, IndObserve
<1>2. ASSUME NEW w \in Process, Load(w) PROVE IndInv'
  BY <1>2, IndLoad
<1>3. ASSUME NEW w \in Process, Save(w) PROVE IndInv'
  BY <1>3, IndSave
<1>4. ASSUME NEW w \in Process, AppendEvent(w) PROVE IndInv'
  BY <1>4, IndAppend
<1>5. ASSUME NEW w \in Process, Restart(w) PROVE IndInv'
  BY <1>5, IndRestart
<1>6. CASE UNCHANGED vars
  BY <1>6 DEF vars, IndInv, TypeOK, MemoryAgrees, SaveCounts, AppendIsSaved, EventsAreCounted,
     SequenceRises, Counted
<1>7. QED
  BY <1>1, <1>2, <1>3, <1>4, <1>5, <1>6 DEF Next

(* One process: cache, memory and outbox keep their relation *)
THEOREM Invariance == ASSUME OneProcess PROVE Spec => []IndInv
<1>1. Init => IndInv
  BY IndInit
<1>2. IndInv /\ [Next]_vars => IndInv'
  BY IndNext
<1>3. QED
  BY <1>1, <1>2, PTL DEF Spec

(* One process: the stages, the caches and the outbox have their types *)
THEOREM TypeCorrect == ASSUME OneProcess PROVE Spec => []TypeOK
<1>1. IndInv => TypeOK
  BY DEF IndInv
<1>2. QED
  BY <1>1, Invariance, PTL

(* One process: every point's events go into the outbox with rising         *)
(* sequence numbers, whatever is observed and wherever it is stopped.       *)
THEOREM SequenceOrder == ASSUME OneProcess PROVE Spec => []SequenceRises
<1>1. IndInv => SequenceRises
  BY DEF IndInv
<1>2. QED
  BY <1>1, Invariance, PTL

(* One process: no step lowers what the cache has counted for a point *)
THEOREM CacheOnlyCountsUp == ASSUME OneProcess PROVE Spec => CacheNeverFallsBack
<1>1. ASSUME IndInv, [Next]_vars
      PROVE  [\A p \in Point : cache'[p].sequence >= cache[p].sequence]_vars
  <2>1. \A p \in Point : cache[p].sequence \in Int /\ cache[p].sequence <= Counted(p)
    BY <1>1 DEF IndInv, TypeOK, PointState, NoState, Counted
  <2>2. CASE cache' = cache
    BY <2>1, <2>2
  <2>3. ASSUME NEW w \in Process, Save(w)
        PROVE  \A p \in Point : cache'[p].sequence >= cache[p].sequence
    <3> DEFINE q == observation[w].point
    <3>1. cache' = [cache EXCEPT ![q] = hot[w][q]] /\ pc[w] = "save"
      BY <2>3 DEF Save
    <3>2. /\ q \in Point /\ hot[w][q] \in PointState
          /\ hot[w][q].sequence = Counted(q) + (IF observation[w].publish THEN 1 ELSE 0)
      BY <1>1, <3>1 DEF IndInv, SaveCounts
    <3>3. Counted(q) \in Nat
      BY <1>1, <3>2 DEF IndInv, TypeOK, Counted, PointState
    <3> HIDE DEF q
    <3>4. cache'[q] = hot[w][q] /\ \A p \in Point \ {q} : cache'[p] = cache[p]
      BY <1>1, <3>1, <3>2 DEF IndInv, TypeOK
    <3>5. hot[w][q].sequence >= cache[q].sequence
      BY <2>1, <3>2, <3>3
    <3>6. QED
      BY <2>1, <3>4, <3>5
  <2>4. QED
    BY <1>1, <2>2, <2>3 DEF Next, Observe, Load, AppendEvent, Restart, vars
<1>2. QED
  BY <1>1, Invariance, PTL DEF Spec, CacheNeverFallsBack

(***************************************************************************)
(* One process: what it does, row by row.                                  *)
(***************************************************************************)

(* An observation processed in memory, on what the row has last published *)
Updated(w, p, v) ==
  /\ pc'[w] = "save"
  /\ observation'[w].point = p /\ observation'[w].value = v
  /\ IF observation'[w].publish
     THEN hot'[w][p].observed = v /\ hot'[w][p].published = v
     ELSE /\ hot'[w][p].observed = v
          /\ hot'[w][p].published = cache[p].published
          /\ p \in Published => ~IsSignificant(p, cache[p].published, v)
  /\ UNCHANGED <<cache, enqueued, restarts>>

LEMMA UpdateEffect ==
  ASSUME TypeOK, NEW w \in Process, NEW p \in Point, NEW v \in Value, NEW state \in PointState,
         Update(w, p, v, state), state.published = cache[p].published,
         UNCHANGED <<cache, enqueued, restarts>>
  PROVE  Updated(w, p, v)
<1> DEFINE new == Processed(p, v, state)
           o == [point |-> p, value |-> v, publish |-> Publishes(p, v, state)]
<1>1. CASE Publishes(p, v, state)
  <2>1. new = [observed |-> v, published |-> v, sequence |-> state.sequence + 1]
    BY <1>1 DEF Processed
  <2>2. new.observed = v /\ new.published = v /\ o.publish
    BY <1>1, <2>1
  <2>3. hot'[w][p] = new /\ observation'[w] = o /\ pc'[w] = "save"
    BY DEF Update, TypeOK
  <2> QED BY <2>2, <2>3 DEF Updated
<1>2. CASE ~Publishes(p, v, state)
  <2>1. new = [state EXCEPT !.observed = v]
    BY <1>2 DEF Processed
  <2>2. new.observed = v /\ new.published = state.published /\ ~o.publish
    BY <1>2, <2>1 DEF PointState
  <2>3. hot'[w][p] = new /\ observation'[w] = o /\ pc'[w] = "save"
    BY DEF Update, TypeOK
  <2>4. p \in Published => ~IsSignificant(p, state.published, v)
    BY <1>2 DEF Publishes
  <2> QED BY <2>2, <2>3, <2>4 DEF Updated
<1> QED BY <1>1, <1>2

(* A process at rest or about to load has in memory what is in its row *)
LEMMA ObserveEffect ==
  ASSUME IndInv, OneProcess, NEW w \in Process, Observe(w) \/ Load(w)
  PROVE  /\ pc[w] \in {"idle", "load"}
         /\ \/ \E p \in Point, v \in Value : Updated(w, p, v)
            \/ pc'[w] = "load" /\ UNCHANGED <<cache, enqueued, restarts>>
<1>1. ASSUME Observe(w)
      PROVE  /\ pc[w] = "idle" /\ UNCHANGED <<cache, enqueued, restarts>>
             /\ \/ \E p \in Point, v \in Value : Updated(w, p, v)
                \/ pc'[w] = "load"
  <2>1. PICK p \in Point, v \in Value :
          /\ pc[w] = "idle" /\ UNCHANGED <<cache, enqueued, restarts>>
          /\ \/ hot[w][p] # NoState /\ Update(w, p, v, hot[w][p])
             \/ pc' = [pc EXCEPT ![w] = "load"]
    BY <1>1 DEF Observe
  <2>2. CASE hot[w][p] # NoState /\ Update(w, p, v, hot[w][p])
    <3>1. hot[w][p] \in PointState /\ hot[w][p] = cache[p]
      BY <2>1, <2>2 DEF IndInv, TypeOK, MemoryAgrees
    <3> QED BY <2>1, <2>2, <3>1, UpdateEffect DEF IndInv
  <2>3. CASE pc' = [pc EXCEPT ![w] = "load"]
    BY <2>1, <2>3 DEF IndInv, TypeOK
  <2> QED BY <2>1, <2>2, <2>3
<1>2. ASSUME Load(w)
      PROVE  pc[w] = "load" /\ \E p \in Point, v \in Value : Updated(w, p, v)
  <2> DEFINE p == observation[w].point
             v == observation[w].value
             state == IF cache[p] = NoState THEN InitialState ELSE cache[p]
  <2>1. pc[w] = "load" /\ Update(w, p, v, state) /\ UNCHANGED <<cache, enqueued, restarts>>
    BY <1>2 DEF Load
  <2>2. p \in Point /\ v \in Value
    BY <2>1 DEF IndInv, SaveCounts
  <2>3. state \in PointState /\ state.published = cache[p].published
    BY <2>2, StateIsKnown DEF IndInv, TypeOK, InitialState, NoState
  <2> HIDE DEF p, v, state
  <2> QED BY <2>1, <2>2, <2>3, UpdateEffect DEF IndInv
<1> QED BY <1>1, <1>2

(* The row takes what is in memory *)
LEMMA SaveEffect ==
  ASSUME IndInv, OneProcess, NEW w \in Process, Save(w)
  PROVE  LET o == observation[w] IN
         /\ pc[w] = "save" /\ o.point \in Point
         /\ cache'[o.point] = hot[w][o.point]
         /\ \A q \in Point \ {o.point} : cache'[q] = cache[q]
         /\ \A p \in Point :
              Counted(p)' = Counted(p) + (IF p = o.point /\ o.publish THEN 1 ELSE 0)
         /\ IF o.publish THEN pc'[w] = "append" /\ observation'[w] = o
                         ELSE pc'[w] = "idle"
         /\ UNCHANGED <<hot, enqueued, restarts>>
<1> DEFINE o == observation[w]
           q == o.point
<1>1. /\ pc[w] = "save" /\ cache' = [cache EXCEPT ![q] = hot[w][q]]
      /\ UNCHANGED <<hot, enqueued, restarts>>
  BY DEF Save
<1>2. /\ q \in Point /\ hot[w][q] \in PointState
      /\ hot[w][q].sequence = Counted(q) + (IF o.publish THEN 1 ELSE 0)
  BY <1>1 DEF IndInv, SaveCounts
<1>3. IF o.publish THEN pc'[w] = "append" /\ observation'[w] = o ELSE pc'[w] = "idle"
  <2>1. CASE o.publish
    <3>1. pc' = [pc EXCEPT ![w] = "append"] /\ UNCHANGED observation
      BY <2>1 DEF Save
    <3> QED BY <2>1, <3>1 DEF IndInv, TypeOK
  <2>2. CASE ~o.publish
    <3>1. pc' = [pc EXCEPT ![w] = "idle"]
      BY <2>2 DEF Save
    <3> QED BY <2>2, <3>1 DEF IndInv, TypeOK
  <2> QED BY <2>1, <2>2
<1> HIDE DEF q
<1>4. cache'[q] = hot[w][q] /\ \A p \in Point \ {q} : cache'[p] = cache[p]
  BY <1>1, <1>2 DEF IndInv, TypeOK
<1>5. \A p \in Point : Counted(p) \in Nat
  BY DEF IndInv, TypeOK, Counted, PointState
<1>6. \A p \in Point : Counted(p)' = Counted(p) + (IF p = q /\ o.publish THEN 1 ELSE 0)
  BY <1>2, <1>4, <1>5, StateIsKnown DEF Counted
<1> QED BY <1>1, <1>2, <1>3, <1>4, <1>5, <1>6 DEF q

(* The outbox takes the event that the row has counted *)
LEMMA AppendEffect ==
  ASSUME IndInv, OneProcess, NEW w \in Process, AppendEvent(w)
  PROVE  LET o == observation[w]
             e == [sequence |-> hot[w][o.point].sequence, value |-> o.value] IN
         /\ pc[w] = "append" /\ pc'[w] = "idle" /\ o.point \in Point
         /\ hot[w][o.point] = cache[o.point] /\ cache[o.point] \in PointState
         /\ enqueued'[o.point] \in Seq(Event)
         /\ Len(enqueued'[o.point]) = Len(enqueued[o.point]) + 1
         /\ enqueued'[o.point][Len(enqueued[o.point]) + 1] = e
         /\ \A n \in 1..Len(enqueued[o.point]) : enqueued'[o.point][n] = enqueued[o.point][n]
         /\ \A p \in Point \ {o.point} : enqueued'[p] = enqueued[p]
         /\ UNCHANGED <<cache, hot, restarts>>
<1> DEFINE o == observation[w]
           q == o.point
           e == [sequence |-> hot[w][q].sequence, value |-> o.value]
<1>1. /\ pc[w] = "append" /\ enqueued' = [enqueued EXCEPT ![q] = Append(@, e)]
      /\ pc' = [pc EXCEPT ![w] = "idle"] /\ UNCHANGED <<cache, hot, restarts>>
  BY DEF AppendEvent
<1>2. /\ q \in Point /\ o.value \in Value /\ hot[w][q] = cache[q]
      /\ hot[w][q] \in PointState /\ hot[w][q].sequence > 0
  BY <1>1 DEF IndInv, SaveCounts, AppendIsSaved
<1>3. e \in Event
  BY <1>2 DEF Event, PointState
<1>4. enqueued[q] \in Seq(Event)
  BY <1>2 DEF IndInv, TypeOK
<1> HIDE DEF e, q
<1>5. /\ enqueued'[q] = Append(enqueued[q], e)
      /\ \A p \in Point \ {q} : enqueued'[p] = enqueued[p]
  BY <1>1, <1>2 DEF IndInv, TypeOK
<1>6. /\ enqueued'[q] \in Seq(Event)
      /\ Len(enqueued'[q]) = Len(enqueued[q]) + 1
      /\ enqueued'[q][Len(enqueued[q]) + 1] = e
      /\ \A n \in 1..Len(enqueued[q]) : enqueued'[q][n] = enqueued[q][n]
  BY <1>3, <1>4, <1>5, AppendProperties
<1>7. pc'[w] = "idle"
  BY <1>1 DEF IndInv, TypeOK
<1> QED BY <1>1, <1>2, <1>5, <1>6, <1>7 DEF q, e

(***************************************************************************)
(* One process: what its last event says.                                  *)
(***************************************************************************)

(* The last observed value is what was published, or within the threshold *)
Close(p, state) ==
  \/ state.observed = state.published
  \/ ~IsSignificant(p, state.published, state.observed)

CacheIsClose == \A p \in Published : Close(p, cache[p])

(* What is about to be saved publishes its observation, or keeps what the row *)
(* has published; what is about to be appended is what the row has published. *)
MemoryIsClose ==
  \A w \in Process :
    LET o == observation[w]
        state == hot[w][o.point] IN
    /\ pc[w] = "save" =>
         /\ o.point \in Published => Close(o.point, state)
         /\ state.published = IF o.publish THEN o.value ELSE cache[o.point].published
    /\ pc[w] = "append" => state.published = o.value

(* An event with the row's sequence has the value the row has published *)
EventsAreHeard ==
  \A p \in Point : \A n \in 1..Len(enqueued[p]) :
    enqueued[p][n].sequence = cache[p].sequence => enqueued[p][n].value = cache[p].published

HeardInv == CacheIsClose /\ MemoryIsClose /\ EventsAreHeard

LEMMA HeardInit == Init => HeardInv
<1> SUFFICES ASSUME Init PROVE HeardInv
  OBVIOUS
<1>1. CacheIsClose
  BY PointsAssumption DEF Init, CacheIsClose, Close, NoState
<1>2. MemoryIsClose
  BY DEF Init, MemoryIsClose
<1>3. \A p \in Point : Len(enqueued[p]) = 0
  BY DEF Init
<1> QED BY <1>1, <1>2, <1>3 DEF HeardInv, EventsAreHeard

LEMMA HeardNext ==
  ASSUME IndInv, OneProcess, HeardInv, [Next]_vars
  PROVE  HeardInv'
<1>a. \A v, w \in Process : v = w
  BY DEF OneProcess
<1>1. ASSUME NEW w \in Process, Observe(w) \/ Load(w) PROVE HeardInv'
  <2>1. CASE pc'[w] = "load" /\ UNCHANGED <<cache, enqueued, restarts>>
    BY <1>a, <2>1 DEF HeardInv, CacheIsClose, MemoryIsClose, EventsAreHeard
  <2>2. ASSUME NEW p \in Point, NEW v \in Value, Updated(w, p, v) PROVE HeardInv'
    <3>1. MemoryIsClose'
      BY <1>a, <2>2 DEF Updated, MemoryIsClose, Close
    <3>2. UNCHANGED <<cache, enqueued>>
      BY <2>2 DEF Updated
    <3> QED BY <3>1, <3>2 DEF HeardInv, CacheIsClose, EventsAreHeard
  <2> QED BY <1>1, <2>1, <2>2, ObserveEffect
<1>2. ASSUME NEW w \in Process, Save(w) PROVE HeardInv'
  <2> DEFINE o == observation[w]
             q == o.point
  <2>1. /\ pc[w] = "save" /\ q \in Point
        /\ cache'[q] = hot[w][q]
        /\ \A p \in Point \ {q} : cache'[p] = cache[p]
        /\ IF o.publish THEN pc'[w] = "append" /\ observation'[w] = o ELSE pc'[w] = "idle"
        /\ UNCHANGED <<hot, enqueued>>
    BY <1>2, SaveEffect
  <2>2. /\ q \in Published => Close(q, hot[w][q])
        /\ hot[w][q].published = IF o.publish THEN o.value ELSE cache[q].published
    BY <2>1 DEF HeardInv, MemoryIsClose
  <2>3. CacheIsClose'
    BY <2>1, <2>2, PointsAssumption DEF HeardInv, CacheIsClose, Close
  <2>4. MemoryIsClose'
    BY <1>a, <2>1, <2>2 DEF MemoryIsClose
  <2>5. ASSUME NEW n \in 1..Len(enqueued[q]),
               enqueued[q][n].sequence = cache'[q].sequence
        PROVE  enqueued[q][n].value = cache'[q].published
    <3>1. enqueued[q] \in Seq(Event)
      BY <2>1 DEF IndInv, TypeOK
    <3>2. enqueued[q][n] \in Event
      BY <2>5, <3>1
    <3>3. enqueued[q][n].sequence \in Nat \ {0} /\ enqueued[q][n].sequence <= Counted(q)
      BY <2>1, <2>5, <3>2 DEF IndInv, EventsAreCounted, Event
    <3>4. cache'[q].sequence = Counted(q) + (IF o.publish THEN 1 ELSE 0) /\ Counted(q) \in Nat
      <4>1. hot[w][q].sequence = Counted(q) + (IF o.publish THEN 1 ELSE 0)
        BY <2>1 DEF IndInv, SaveCounts
      <4>2. Counted(q) \in Nat
        BY <2>1 DEF IndInv, TypeOK, Counted, PointState
      <4> QED BY <2>1, <4>1, <4>2
    <3>5. ~o.publish /\ cache[q].sequence = Counted(q)
      BY <2>5, <3>3, <3>4 DEF Counted
    <3> QED BY <2>1, <2>2, <2>5, <3>4, <3>5 DEF HeardInv, EventsAreHeard
  <2>6. EventsAreHeard'
    BY <2>1, <2>5 DEF HeardInv, EventsAreHeard
  <2> QED BY <2>3, <2>4, <2>6 DEF HeardInv
<1>3. ASSUME NEW w \in Process, AppendEvent(w) PROVE HeardInv'
  <2> DEFINE o == observation[w]
             q == o.point
             e == [sequence |-> hot[w][q].sequence, value |-> o.value]
  <2>1. /\ pc[w] = "append" /\ pc'[w] = "idle" /\ q \in Point
        /\ hot[w][q] = cache[q]
        /\ Len(enqueued'[q]) = Len(enqueued[q]) + 1
        /\ enqueued'[q][Len(enqueued[q]) + 1] = e
        /\ \A n \in 1..Len(enqueued[q]) : enqueued'[q][n] = enqueued[q][n]
        /\ \A p \in Point \ {q} : enqueued'[p] = enqueued[p]
        /\ UNCHANGED <<cache, hot>>
    BY <1>3, AppendEffect
  <2>2. e.value = cache[q].published
    BY <2>1 DEF HeardInv, MemoryIsClose
  <2>3. Len(enqueued[q]) \in Nat
    BY <2>1 DEF IndInv, TypeOK
  <2> HIDE DEF e
  <2>4. ASSUME NEW n \in 1..Len(enqueued'[q]),
               enqueued'[q][n].sequence = cache[q].sequence
        PROVE  enqueued'[q][n].value = cache[q].published
    <3>1. CASE n = Len(enqueued[q]) + 1
      BY <2>1, <2>2, <3>1
    <3>2. CASE n # Len(enqueued[q]) + 1
      <4>1. n \in 1..Len(enqueued[q])
        BY <2>1, <2>3, <3>2
      <4> QED BY <2>1, <2>4, <4>1 DEF HeardInv, EventsAreHeard
    <3> QED BY <3>1, <3>2
  <2>5. EventsAreHeard'
    BY <2>1, <2>4 DEF HeardInv, EventsAreHeard
  <2>6. MemoryIsClose' /\ CacheIsClose'
    BY <1>a, <2>1 DEF HeardInv, MemoryIsClose, CacheIsClose
  <2> QED BY <2>5, <2>6 DEF HeardInv
<1>4. ASSUME NEW w \in Process, Restart(w) PROVE HeardInv'
  <2>1. pc'[w] = "idle" /\ UNCHANGED <<cache, enqueued>>
    BY <1>4 DEF Restart, IndInv, TypeOK
  <2> QED BY <1>a, <2>1 DEF HeardInv, CacheIsClose, MemoryIsClose, EventsAreHeard
<1>5. CASE UNCHANGED vars
  BY <1>5 DEF vars, HeardInv, CacheIsClose, MemoryIsClose, EventsAreHeard
<1> QED BY <1>1, <1>2, <1>3, <1>4, <1>5 DEF Next

(* One process: however many small changes were suppressed, what the last    *)
(* event says is within the threshold of what was observed last.             *)
THEOREM DriftIsHeard == ASSUME OneProcess PROVE Spec => []HeardIsClose
<1>1. IndInv /\ HeardInv => HeardIsClose
  <2> SUFFICES ASSUME IndInv, HeardInv, NEW p \in Published, enqueued[p] # <<>>,
                      LastEvent(p).sequence = cache[p].sequence
               PROVE  \/ LastEvent(p).value = cache[p].observed
                      \/ ~IsSignificant(p, LastEvent(p).value, cache[p].observed)
    BY DEF HeardIsClose
  <2>1. p \in Point /\ enqueued[p] \in Seq(Event)
    BY PointsAssumption DEF IndInv, TypeOK
  <2>2. Len(enqueued[p]) \in 1..Len(enqueued[p])
    BY <2>1, EmptySeq
  <2>3. LastEvent(p).value = cache[p].published
    BY <2>1, <2>2 DEF HeardInv, EventsAreHeard, LastEvent
  <2> QED BY <2>3 DEF HeardInv, CacheIsClose, Close
<1>2. IndInv /\ HeardInv /\ [Next]_vars => HeardInv'
  BY HeardNext
<1> QED BY <1>1, <1>2, HeardInit, Invariance, PTL DEF Spec

(***************************************************************************)
(* One process: where a number of the sequence goes missing.               *)
(***************************************************************************)
LEMMA ProcessesAreOne ==
  ASSUME OneProcess, NEW S \in SUBSET Process
  PROVE  Cardinality(S) = IF S = {} THEN 0 ELSE 1
<1>1. S = {} \/ \E w \in Process : S = {w}
  BY DEF OneProcess
<1>2. Cardinality({}) = 0 /\ \A w : Cardinality({w}) = 1
  BY FS_EmptySet, FS_Singleton
<1> QED BY <1>1, <1>2

InAppendBy(w, p) == pc[w] = "append" /\ observation[w].point = p

LEMMA InAppendIs ==
  ASSUME OneProcess, NEW w \in Process, NEW p
  PROVE  /\ InAppend(p) = IF InAppendBy(w, p) THEN 1 ELSE 0
         /\ InAppend(p)' = IF InAppendBy(w, p)' THEN 1 ELSE 0
<1> DEFINE S == {v \in Process : pc[v] = "append" /\ observation[v].point = p}
           T == {v \in Process : pc'[v] = "append" /\ observation'[v].point = p}
<1>1. (S = {} <=> ~InAppendBy(w, p)) /\ (T = {} <=> ~InAppendBy(w, p)')
  BY DEF OneProcess, InAppendBy
<1>2. /\ Cardinality(S) = IF S = {} THEN 0 ELSE 1
      /\ Cardinality(T) = IF T = {} THEN 0 ELSE 1
  <2>1. S \in SUBSET Process /\ T \in SUBSET Process
    OBVIOUS
  <2> HIDE DEF S, T
  <2> QED BY <2>1, ProcessesAreOne
<1> QED BY <1>1, <1>2 DEF InAppend

LEMMA GapsNext ==
  ASSUME IndInv, OneProcess, GapsComeFromRestarts, [Next]_vars
  PROVE  GapsComeFromRestarts'
<1>a. \A p \in Point : /\ Counted(p) \in Nat /\ Len(enqueued[p]) \in Nat
                       /\ InAppend(p) <= Counted(p) - Len(enqueued[p])
                       /\ Counted(p) - Len(enqueued[p]) <= restarts + InAppend(p)
  BY DEF IndInv, TypeOK, Counted, PointState, GapsComeFromRestarts, Missing
<1>b. restarts \in Nat
  BY DEF IndInv, TypeOK
<1>1. SUFFICES ASSUME NEW p \in Point
               PROVE  /\ InAppend(p)' <= Counted(p)' - Len(enqueued'[p])
                      /\ Counted(p)' - Len(enqueued'[p]) <= restarts' + InAppend(p)'
  BY DEF GapsComeFromRestarts, Missing
<1>2. ASSUME NEW w \in Process, Observe(w) \/ Load(w)
      PROVE  InAppend(p)' = InAppend(p) /\ UNCHANGED <<cache, enqueued, restarts>>
  <2>1. /\ pc[w] # "append" /\ pc'[w] # "append"
        /\ UNCHANGED <<cache, enqueued, restarts>>
    BY <1>2, ObserveEffect DEF Updated
  <2> QED BY <2>1, InAppendIs DEF InAppendBy
<1>3. ASSUME NEW w \in Process, Save(w)
      PROVE  /\ \/ Counted(p)' = Counted(p) /\ InAppend(p)' = InAppend(p)
                \/ Counted(p)' = Counted(p) + 1 /\ InAppend(p) = 0 /\ InAppend(p)' = 1
             /\ UNCHANGED <<enqueued, restarts>>
  <2> DEFINE o == observation[w]
  <2>1. /\ pc[w] = "save" /\ o.point \in Point
        /\ Counted(p)' = Counted(p) + (IF p = o.point /\ o.publish THEN 1 ELSE 0)
        /\ IF o.publish THEN pc'[w] = "append" /\ observation'[w] = o ELSE pc'[w] = "idle"
        /\ UNCHANGED <<enqueued, restarts>>
    BY <1>3, SaveEffect
  <2>2. InAppend(p) = 0
    BY <2>1, InAppendIs DEF InAppendBy
  <2>3. InAppend(p)' = IF o.publish /\ p = o.point THEN 1 ELSE 0
    BY <2>1, InAppendIs DEF InAppendBy
  <2>4. Counted(p) \in Nat
    BY <1>a
  <2> QED BY <2>1, <2>2, <2>3, <2>4
<1>4. ASSUME NEW w \in Process, AppendEvent(w)
      PROVE  /\ \/ enqueued'[p] = enqueued[p] /\ InAppend(p)' = InAppend(p)
                \/ /\ Len(enqueued'[p]) = Len(enqueued[p]) + 1
                   /\ InAppend(p) = 1 /\ InAppend(p)' = 0
             /\ UNCHANGED <<cache, restarts>>
  <2>1. LET o == observation[w] IN
        /\ pc[w] = "append" /\ pc'[w] = "idle" /\ o.point \in Point
        /\ Len(enqueued'[o.point]) = Len(enqueued[o.point]) + 1
        /\ \A q \in Point \ {o.point} : enqueued'[q] = enqueued[q]
        /\ UNCHANGED <<cache, restarts>>
    BY <1>4, AppendEffect
  <2>2. /\ InAppend(p) = IF p = observation[w].point THEN 1 ELSE 0
        /\ InAppend(p)' = 0
    BY <2>1, InAppendIs DEF InAppendBy
  <2> QED BY <2>1, <2>2
<1>5. ASSUME NEW w \in Process, Restart(w)
      PROVE  /\ InAppend(p) \in {0, 1} /\ InAppend(p)' = 0 /\ restarts' = restarts + 1
             /\ UNCHANGED <<cache, enqueued>>
  <2>1. pc'[w] = "idle" /\ restarts' = restarts + 1 /\ UNCHANGED <<cache, enqueued>>
    BY <1>5 DEF Restart, IndInv, TypeOK
  <2> QED BY <2>1, InAppendIs DEF InAppendBy
<1>6. cache' = cache => Counted(p)' = Counted(p)
  BY DEF Counted
<1>7. CASE UNCHANGED vars
  <2>1. InAppend(p)' = InAppend(p)
    BY <1>7 DEF vars, InAppend
  <2> QED BY <1>a, <1>6, <1>7, <2>1 DEF vars
<1>8. CASE \E w \in Process : Observe(w) \/ Load(w)
  BY <1>a, <1>2, <1>6, <1>8
<1>9. CASE \E w \in Process : Save(w)
  BY <1>a, <1>b, <1>3, <1>9
<1>10. CASE \E w \in Process : AppendEvent(w)
  BY <1>a, <1>b, <1>4, <1>6, <1>10
<1>11. CASE \E w \in Process : Restart(w)
  BY <1>a, <1>b, <1>5, <1>6, <1>11
<1> QED BY <1>7, <1>8, <1>9, <1>10, <1>11 DEF Next

(* One process: each number missing from a point's events is due to a restart *)
(* between the save and the append, and to no other.                       *)
THEOREM GapsAreRestarts == ASSUME OneProcess PROVE Spec => []GapsComeFromRestarts
<1>1. Init => GapsComeFromRestarts
  <2> SUFFICES ASSUME Init, NEW p \in Point
               PROVE  InAppend(p) <= Missing(p) /\ Missing(p) <= restarts + InAppend(p)
    BY DEF GapsComeFromRestarts
  <2>1. {w \in Process : pc[w] = "append" /\ observation[w].point = p} = {}
    BY DEF Init
  <2>2. InAppend(p) = 0
    BY <2>1, FS_EmptySet DEF InAppend
  <2>3. Len(enqueued[p]) = 0 /\ Counted(p) = 0 /\ restarts = 0
    BY DEF Init, Counted
  <2> QED BY <2>2, <2>3 DEF Missing
<1>2. IndInv /\ GapsComeFromRestarts /\ [Next]_vars => GapsComeFromRestarts'
  BY GapsNext
<1> QED BY <1>1, <1>2, Invariance, PTL DEF Spec
=============================================================================
