---------------------------- MODULE EdgeIngestion ----------------------------
(***************************************************************************)
(* From an observation to an event in the outbox: ObservationProcessor     *)
(* with its in-memory copy of the point states, the SQLite point state     *)
(* cache behind it, and the append to the outbox (application/processing,  *)
(* infrastructure/sqlite_point_state, the loop of application/southbound   *)
(* and the `enqueue-demo-event` command).                                  *)
(*                                                                         *)
(* Reading the cache, saving to it and appending to the outbox are three   *)
(* connections to SQLite, hence three steps: a process may stop, or        *)
(* another process may run, between any two.                               *)
(***************************************************************************)
EXTENDS Integers, Sequences, FiniteSets

CONSTANTS
  Process,          \* processes with an ObservationProcessor: adapter, commands
  Point,            \* (source_id, point_ref) pairs of the runtime configuration
  Published,        \* points that are not commands and have publish.enabled
  Number,           \* numeric values observed
  Null,             \* the value None, and the absence of a threshold
  ChangeThreshold,  \* per point: publish.change_threshold, or Null
  MaxObservations,  \* bound: observations ever made
  MaxRestarts       \* bound: processes stopped, in the middle of a step or not

Value == Number \cup {Null}

ASSUME PointsAssumption ==
  /\ Published \subseteq Point
  /\ ChangeThreshold \in [Point -> Nat \cup {Null}]
  /\ Number \subseteq Int
  /\ Null \notin Int

ASSUME BoundsAssumption ==
  /\ MaxObservations \in Nat
  /\ MaxRestarts \in Nat

VARIABLES
  cache,         \* table point_state_cache: per point its PointState
  hot,           \* ObservationProcessor._states: per process and point
  pc,            \* per process: what it does next
  observation,   \* per process: what it is processing, and whether to publish it
  enqueued,      \* per point: its events in the outbox, in the order appended
  observations,  \* observations made so far (bounds the model)
  restarts       \* processes stopped so far (bounds the model)

vars == <<cache, hot, pc, observation, enqueued, observations, restarts>>

(* last_observed_value, last_published_value and published_count.  The      *)
(* instants, raw values and qualities go with the values and decide nothing. *)
PointState == [observed : Value, published : Value, sequence : Nat]

InitialState == [observed |-> Null, published |-> Null, sequence |-> 0]

(* What _states, or the table, has for a point without an entry *)
NoState == [observed |-> Null, published |-> Null, sequence |-> -1]

Event == [sequence : Nat \ {0}, value : Value]

Observation == [point : Point, value : Value, publish : BOOLEAN]

Nothing == [point |-> Null, value |-> Null, publish |-> FALSE]

(***************************************************************************)
(* ObservationProcessor.process.  An operator marked "Fault" is no part of *)
(* the model: it is a way the next definition could have been got wrong,   *)
(* kept to show which property would notice.                               *)
(***************************************************************************)
Distance(a, b) == IF a < b THEN b - a ELSE a - b

(* _should_publish *)
IsSignificant(p, previous, current) ==
  \/ previous = Null
  \/ IF ChangeThreshold[p] = Null \/ current = Null
     THEN current # previous
     ELSE Distance(current, previous) >= ChangeThreshold[p]

(* Fault: an observation is compared with the one before it *)
PublishesStep(p, v, state) == p \in Published /\ IsSignificant(p, state.observed, v)

Publishes(p, v, state) == p \in Published /\ IsSignificant(p, state.published, v)

(* Fault: suppressed observations are counted too *)
ProcessedCountingAll(p, v, state) ==
  IF Publishes(p, v, state)
  THEN [observed |-> v, published |-> v, sequence |-> state.sequence + 1]
  ELSE [state EXCEPT !.observed = v, !.sequence = @ + 1]

(* The state of the point after an observation of it *)
Processed(p, v, state) ==
  IF Publishes(p, v, state)
  THEN [observed |-> v, published |-> v, sequence |-> state.sequence + 1]
  ELSE [state EXCEPT !.observed = v]

(* The state changes in memory; saving it and appending an event come next *)
Update(w, p, v, state) ==
  /\ hot' = [hot EXCEPT ![w][p] = Processed(p, v, state)]
  /\ observation' = [observation EXCEPT ![w] =
                       [point |-> p, value |-> v, publish |-> Publishes(p, v, state)]]
  /\ pc' = [pc EXCEPT ![w] = "save"]

(* An observation arrives.  A point seen before is processed with the state *)
(* in memory, whatever the table says by now.                               *)
Observe(w) ==
  \E p \in Point, v \in Value :
    /\ pc[w] = "idle"
    /\ observations < MaxObservations
    /\ observations' = observations + 1
    /\ \/ hot[w][p] # NoState /\ Update(w, p, v, hot[w][p])
       \/ /\ hot[w][p] = NoState
          /\ observation' = [observation EXCEPT ![w] = [point |-> p, value |-> v, publish |-> FALSE]]
          /\ pc' = [pc EXCEPT ![w] = "load"]
          /\ hot' = hot
    /\ UNCHANGED <<cache, enqueued, restarts>>

(* Fault: a restarted process starts counting afresh *)
LoadNothing(w) ==
  LET o == observation[w] IN
  /\ pc[w] = "load"
  /\ Update(w, o.point, o.value, InitialState)
  /\ UNCHANGED <<cache, enqueued, observations, restarts>>

(* Fault: a row that is not there is taken for a state *)
LoadMissing(w) ==
  LET o == observation[w] IN
  /\ pc[w] = "load"
  /\ Update(w, o.point, o.value, cache[o.point])
  /\ UNCHANGED <<cache, enqueued, observations, restarts>>

(* SQLitePointStateCache.get, for a point this process has not seen yet *)
Load(w) ==
  LET o == observation[w]
      stored == cache[o.point] IN
  /\ pc[w] = "load"
  /\ Update(w, o.point, o.value, IF stored = NoState THEN InitialState ELSE stored)
  /\ UNCHANGED <<cache, enqueued, observations, restarts>>

(* Fault: the upsert of an existing row leaves its sequence alone *)
SaveValues(w) ==
  LET o == observation[w]
      state == hot[w][o.point] IN
  /\ pc[w] = "save"
  /\ cache' = [cache EXCEPT ![o.point] =
                 IF @ = NoState THEN state ELSE [state EXCEPT !.sequence = cache[o.point].sequence]]
  /\ IF o.publish
     THEN pc' = [pc EXCEPT ![w] = "append"] /\ UNCHANGED observation
     ELSE pc' = [pc EXCEPT ![w] = "idle"] /\ observation' = [observation EXCEPT ![w] = Nothing]
  /\ UNCHANGED <<hot, enqueued, observations, restarts>>

(* SQLitePointStateCache.save: the row is replaced.  A suppressed           *)
(* observation ends here.                                                   *)
Save(w) ==
  LET o == observation[w] IN
  /\ pc[w] = "save"
  /\ cache' = [cache EXCEPT ![o.point] = hot[w][o.point]]
  /\ IF o.publish
     THEN pc' = [pc EXCEPT ![w] = "append"] /\ UNCHANGED observation
     ELSE pc' = [pc EXCEPT ![w] = "idle"] /\ observation' = [observation EXCEPT ![w] = Nothing]
  /\ UNCHANGED <<hot, enqueued, observations, restarts>>

(* SQLiteOutbox.append of the new event *)
AppendEvent(w) ==
  LET o == observation[w] IN
  /\ pc[w] = "append"
  /\ enqueued' = [enqueued EXCEPT ![o.point] =
                    Append(@, [sequence |-> hot[w][o.point].sequence, value |-> o.value])]
  /\ pc' = [pc EXCEPT ![w] = "idle"]
  /\ observation' = [observation EXCEPT ![w] = Nothing]
  /\ UNCHANGED <<cache, hot, observations, restarts>>

(* A process ends, is killed, or is ended by an error of SQLite, the source *)
(* or the configuration; its successor has an empty _states.                *)
Restart(w) ==
  /\ restarts < MaxRestarts
  /\ restarts' = restarts + 1
  /\ hot' = [hot EXCEPT ![w] = [p \in Point |-> NoState]]
  /\ pc' = [pc EXCEPT ![w] = "idle"]
  /\ observation' = [observation EXCEPT ![w] = Nothing]
  /\ UNCHANGED <<cache, enqueued, observations>>

Init ==
  /\ cache = [p \in Point |-> NoState]
  /\ hot = [w \in Process |-> [p \in Point |-> NoState]]
  /\ pc = [w \in Process |-> "idle"]
  /\ observation = [w \in Process |-> Nothing]
  /\ enqueued = [p \in Point |-> <<>>]
  /\ observations = 0
  /\ restarts = 0

Next ==
  \E w \in Process : Observe(w) \/ Load(w) \/ Save(w) \/ AppendEvent(w) \/ Restart(w)

Spec == Init /\ [][Next]_vars

(***************************************************************************)
(* Properties.                                                             *)
(***************************************************************************)
TypeOK ==
  /\ cache \in [Point -> PointState \cup {NoState}]
  /\ hot \in [Process -> [Point -> PointState \cup {NoState}]]
  /\ pc \in [Process -> {"idle", "load", "save", "append"}]
  /\ observation \in [Process -> Observation \cup {Nothing}]
  /\ enqueued \in [Point -> Seq(Event)]
  /\ observations \in Nat
  /\ restarts \in Nat

Idle == \A w \in Process : pc[w] = "idle"

LastEvent(p) == enqueued[p][Len(enqueued[p])]

(* What the cache has counted: a missing row is a count of 0 *)
Counted(p) == IF cache[p] = NoState THEN 0 ELSE cache[p].sequence

(* One process keeps a point's events in strictly rising sequence, across   *)
(* any number of restarts, those between its three writes included.         *)
SequenceRises ==
  \A p \in Point : \A m, n \in 1..Len(enqueued[p]) :
    m < n => enqueued[p][m].sequence < enqueued[p][n].sequence

(* A number of the sequence is missing from the outbox only if a process    *)
(* was stopped between the save and the append: suppressed observations,    *)
(* reloads and restarts at rest never make a gap.                           *)
Missing(p) == Counted(p) - Len(enqueued[p])

InAppend(p) == Cardinality({w \in Process : pc[w] = "append" /\ observation[w].point = p})

GapsComeFromRestarts ==
  \A p \in Point : /\ InAppend(p) <= Missing(p)
                   /\ Missing(p) <= restarts + InAppend(p)

(* Slow drift is not lost: what the last event said is within the threshold *)
(* of what was last observed, however many small changes were suppressed in *)
(* between, provided that event is the cache's last and was not cut off.    *)
HeardIsClose ==
  \A p \in Published :
    Idle /\ enqueued[p] # <<>> /\ LastEvent(p).sequence = cache[p].sequence =>
      LET heard == LastEvent(p).value
          seen == cache[p].observed IN
      heard = seen \/ ~IsSignificant(p, heard, seen)

(* What the cache has counted is never uncounted *)
CacheNeverFallsBack ==
  [][\A p \in Point : cache'[p].sequence >= cache[p].sequence]_vars

(* As docs/contracts/edge-telemetry-agent/sqlite-storage.v1.md has it: the  *)
(* cache keeps the sequence of the last published event.  The code saves    *)
(* first, so a process stopped before the append leaves a number that no    *)
(* event has, with a value the next observations are compared with.         *)
CacheNamesLastEvent ==
  Idle => \A p \in Published :
    cache[p] # NoState =>
      cache[p].sequence = IF enqueued[p] = <<>> THEN 0 ELSE LastEvent(p).sequence

(***************************************************************************)
(* Why one process numbers its events in order.                            *)
(***************************************************************************)
OneProcess == \A v, w \in Process : v = w

(* The state in memory and the row agree, but for the point about to be saved *)
MemoryAgrees ==
  \A w \in Process, p \in Point :
    \/ hot[w][p] = NoState
    \/ hot[w][p] = cache[p]
    \/ pc[w] = "save" /\ observation[w].point = p

(* What a process is about to save counts its event, and no other *)
SaveCounts ==
  \A w \in Process :
    LET o == observation[w] IN
    /\ pc[w] # "idle" => o.point \in Point /\ o.value \in Value
    /\ pc[w] = "save" =>
         hot[w][o.point] \in PointState
         /\ hot[w][o.point].sequence = Counted(o.point) + (IF o.publish THEN 1 ELSE 0)

(* The events are numbered up to what the cache has counted, the one about  *)
(* to be appended excepted.                                                 *)
EventsAreCounted ==
  \A p \in Point : \A n \in 1..Len(enqueued[p]) :
    /\ enqueued[p][n].sequence <= Counted(p)
    /\ \A w \in Process : pc[w] = "append" /\ observation[w].point = p =>
         enqueued[p][n].sequence < Counted(p)

AppendIsSaved ==
  \A w \in Process : pc[w] = "append" =>
    LET o == observation[w] IN
    /\ hot[w][o.point] \in PointState
    /\ hot[w][o.point] = cache[o.point]
    /\ hot[w][o.point].sequence > 0

IndInv ==
  /\ TypeOK
  /\ MemoryAgrees
  /\ SaveCounts
  /\ AppendIsSaved
  /\ EventsAreCounted
  /\ SequenceRises
=============================================================================
