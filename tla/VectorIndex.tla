------------------------------ MODULE VectorIndex ------------------------------
(***************************************************************************)
(* crypto's in-memory index of sealed embeddings (vector_index.rs): the    *)
(* partitions of every index of a process share one budget of bytes, and   *)
(* the least recently used ones are evicted when a hydration does not fit. *)
(*                                                                         *)
(* A key is an index and a partition's name. The sealed store the vectors  *)
(* are hydrated from is the caller's: a caller writes or deletes a row and *)
(* calls upsert or remove, while another thread hydrates. A vector is its  *)
(* id and its dimensions, and its bytes are the dimensions: the overhead   *)
(* per vector and the ranking of a search are left out.                    *)
(***************************************************************************)
EXTENDS Naturals, SequencesExt, FiniteSetsExt, Functions

CONSTANTS
  Keys,          \* an index's partitions
  Ids, Dims,     \* vectors' ids and dimensions
  Limit,         \* the budget in bytes
  Hydrations,    \* the threads that hydrate
  MaxOps         \* bound: writes, deletes and drops of the callers

ASSUME VectorAssumption == Limit \in Nat /\ Dims \subseteq Nat \ {0}

VARIABLES
  rows,        \* the sealed store: each key's ids with their dimensions
  partitions,  \* the partitions in memory
  recent,      \* their keys and the hydrations under way, by last_used
  used,        \* BudgetState::used
  totals, evicted,  \* IndexMeta
  hydration,   \* each thread's hydration
  raced,       \* the keys in memory whose rows were written while they were read
  uncounted,   \* those of them whose total was not told of such a write
  ops

vars == <<rows, partitions, recent, used, totals, evicted, hydration, raced, uncounted, ops>>
Meta == <<totals, evicted>>
Races == <<raced, uncounted>>

Nothing == <<>>
Idle == [key |-> {}, vectors |-> <<>>, raced |-> FALSE, uncounted |-> FALSE]
EmptyPartition == [vectors |-> <<>>, positions |-> Nothing, bytes |-> 0]

Init ==
  /\ rows = [key \in Keys |-> Nothing]
  /\ partitions = Nothing
  /\ recent = <<>>
  /\ used = 0
  /\ totals = Nothing /\ evicted = {}
  /\ hydration = [h \in Hydrations |-> Idle]
  /\ raced = {} /\ uncounted = {}
  /\ ops = 0

With(f, x, y) == [z \in DOMAIN f \cup {x} |-> IF z = x THEN y ELSE f[z]]
Without(f, gone) == [z \in DOMAIN f \ gone |-> f[z]]

-----------------------------------------------------------------------------
(* Partition. *)

\* Mutant: a vector that is there is not replaced.
PutVectorOnce(p, id, dims) ==
  IF id \in DOMAIN p.positions
  THEN p
  ELSE [vectors |-> Append(p.vectors, [id |-> id, dims |-> dims]),
        positions |-> With(p.positions, id, Len(p.vectors) + 1),
        bytes |-> p.bytes + dims]

\* Partition::upsert.
PutVector(p, id, dims) ==
  LET v == [id |-> id, dims |-> dims]
  IN IF id \in DOMAIN p.positions
     THEN [p EXCEPT !.vectors[p.positions[id]] = v,
                    !.bytes = @ + dims - p.vectors[p.positions[id]].dims]
     ELSE [vectors |-> Append(p.vectors, v),
           positions |-> With(p.positions, id, Len(p.vectors) + 1),
           bytes |-> p.bytes + dims]

\* Mutant: the vector moved into the hole keeps its old position.
CutVectorUnmoved(p, id) ==
  LET at == p.positions[id]
      n == Len(p.vectors)
  IN [vectors |-> SubSeq([p.vectors EXCEPT ![at] = p.vectors[n]], 1, n - 1),
      positions |-> Without(p.positions, {id}),
      bytes |-> p.bytes - p.vectors[at].dims]

\* Partition::remove: the last vector takes the place of the removed one.
CutVector(p, id) ==
  LET at == p.positions[id]
      n == Len(p.vectors)
      moved == IF at = n THEN p.positions ELSE With(p.positions, p.vectors[n].id, at)
  IN [vectors |-> SubSeq([p.vectors EXCEPT ![at] = p.vectors[n]], 1, n - 1),
      positions |-> Without(moved, {id}),
      bytes |-> p.bytes - p.vectors[at].dims]

-----------------------------------------------------------------------------
(* VectorBudget. *)

Touch(order, what) == Append(SelectSeq(order, LAMBDA x : x # what), what)
Forget(order, gone) == SelectSeq(order, LAMBDA x : x \notin gone)

\* The budget after a change: what is held, in which order, how many bytes.
State(held, order, bytes) == [held |-> held, order |-> order, used |-> bytes, out |-> {}]

\* Mutant: one eviction is taken to be enough.
MakeRoomOnce(state, extra, keep) ==
  LET candidates == SelectSeq(state.order, LAMBDA x : x \in DOMAIN state.held /\ x # keep)
      victims == IF state.used + extra <= Limit \/ candidates = <<>> THEN {} ELSE {candidates[1]}
  IN [held |-> Without(state.held, victims),
      order |-> Forget(state.order, victims),
      used |-> state.used - MapThenSumSet(LAMBDA k : state.held[k].bytes, victims),
      out |-> victims]

\* make_room: the least recently used partitions but keep go until extra fits.
MakeRoom(state, extra, keep) ==
  LET candidates == SelectSeq(state.order, LAMBDA x : x \in DOMAIN state.held /\ x # keep)
      Evicting(n) == ToSet(SubSeq(candidates, 1, n))
      Left(n) == state.used - MapThenSumSet(LAMBDA k : state.held[k].bytes, Evicting(n))
      fits == {n \in 0..Len(candidates) : Left(n) + extra <= Limit}
      n == IF fits = {} THEN Len(candidates) ELSE Min(fits)
  IN [held |-> Without(state.held, Evicting(n)),
      order |-> Forget(state.order, Evicting(n)),
      used |-> Left(n),
      out |-> Evicting(n)]

\* Mutant: the victims are not marked.
BecomesUnmarked(state, marked, cleared) ==
  /\ partitions' = state.held
  /\ recent' = state.order
  /\ used' = state.used
  /\ evicted' = (evicted \cup marked) \ cleared

\* What the operations leave in the budget; marked and cleared are meta.evicted's.
Becomes(state, marked, cleared) ==
  /\ partitions' = state.held
  /\ recent' = state.order
  /\ used' = state.used
  /\ evicted' = (evicted \cup state.out \cup marked) \ cleared

Total(key) == IF key \in DOMAIN totals THEN totals[key] ELSE 0
Count(key) == IF key \in DOMAIN partitions THEN Len(partitions[key].vectors) ELSE 0

-----------------------------------------------------------------------------
(* VectorIndex. *)

\* What the rows of a key are built into.
Opened(stored) ==
  FoldLeft(LAMBDA p, id : PutVector(p, id, stored[id]), EmptyPartition, SetToSeq(DOMAIN stored))

\* hydrate_partition up to the lock: the rows are read and the tick is taken.
Build(h, key) ==
  /\ hydration[h] = Idle
  /\ hydration' = [hydration EXCEPT ![h] =
                     [Idle EXCEPT !.key = {key}, !.vectors = Opened(rows[key])]]
  /\ recent' = Touch(recent, h)
  /\ UNCHANGED <<rows, partitions, used, Meta, Races, ops>>

Flagged(keys, key, flag) == IF flag THEN keys \cup key ELSE keys \ key

\* Mutant: the bytes of the replaced partition are not given back.
FreedNot(key) == 0

Freed(key) == IF key \in DOMAIN partitions THEN partitions[key].bytes ELSE 0

\* Mutant: the total becomes what was hydrated.
NewTotalHydrated(key, count) == count

NewTotal(key, count) == Max({Total(key), count})

\* hydrate_partition under the lock: the old partition goes first, and a new one
\* larger than the whole budget is refused and reported.
Install(h) ==
  /\ hydration[h] # Idle
  /\ LET built == hydration[h].vectors
         key == CHOOSE k \in hydration[h].key : TRUE
         rest == State(Without(partitions, {key}), Forget(recent, {key}), used - Freed(key))
         room == MakeRoom(rest, built.bytes, key)
         stamped == [i \in DOMAIN room.order |-> IF room.order[i] = h THEN key ELSE room.order[i]]
     IN /\ totals' = With(totals, key, NewTotal(key, Len(built.vectors)))
        /\ IF built.bytes > Limit
           THEN Becomes([rest EXCEPT !.order = Forget(@, {h})], {key}, {})
           ELSE Becomes([room EXCEPT !.held = With(@, key, built), !.order = stamped,
                                     !.used = @ + built.bytes], {}, {key})
  /\ hydration' = [hydration EXCEPT ![h] = Idle]
  /\ raced' = Flagged(raced, hydration[h].key, hydration[h].raced)
  /\ uncounted' = Flagged(uncounted, hydration[h].key,
                         hydration[h].raced /\ (hydration[h].uncounted \/ hydration[h].key \subseteq uncounted))
  /\ UNCHANGED <<rows, ops>>

\* set_partition_total, with what the store has.
SetTotal(key) ==
  /\ totals' = With(totals, key, Cardinality(DOMAIN rows[key]))
  /\ UNCHANGED <<rows, partitions, recent, used, evicted, hydration, Races, ops>>

Writing == ops < MaxOps /\ ops' = ops + 1

\* A write to a key's rows, which the hydrations under way have read without it;
\* counted when it left the key's total larger than what they have read.
Miss(key, counted) ==
  hydration' = [h \in Hydrations |->
    IF hydration[h].key # {key} THEN hydration[h]
    ELSE [hydration[h] EXCEPT !.raced = TRUE, !.uncounted = @ \/ ~counted]]

\* A row is written and upsert called: a partition not in memory is not told.
Upsert(key, id, dims) ==
  /\ Writing
  /\ rows' = [rows EXCEPT ![key] = With(@, id, dims)]
  /\ IF key \in DOMAIN partitions
     THEN LET new == PutVector(partitions[key], id, dims)
          IN /\ totals' = IF id \in DOMAIN partitions[key].positions THEN totals
                          ELSE With(totals, key, Total(key) + 1)
             /\ Becomes(MakeRoom(State(With(partitions, key, new), Touch(recent, key),
                                       used + new.bytes - partitions[key].bytes), 0, key), {}, {})
     ELSE UNCHANGED <<partitions, recent, used, Meta>>
  /\ Miss(key, key \in DOMAIN partitions)
  /\ UNCHANGED Races

\* A row is deleted and remove called.
RemoveVector(key, id) ==
  /\ Writing
  /\ id \in DOMAIN rows[key]
  /\ rows' = [rows EXCEPT ![key] = Without(@, {id})]
  /\ IF key \in DOMAIN partitions /\ id \in DOMAIN partitions[key].positions
     THEN LET new == CutVector(partitions[key], id)
          IN /\ totals' = With(totals, key, Max({Total(key), 1}) - 1)
             /\ Becomes(State(With(partitions, key, new), recent,
                              used - (partitions[key].bytes - new.bytes)), {}, {})
     ELSE UNCHANGED <<partitions, recent, used, Meta>>
  /\ Miss(key, FALSE)
  /\ UNCHANGED Races

\* The rows of a deleted Space go, and drop_partition is called.
Drop(key) ==
  /\ Writing
  /\ rows' = [rows EXCEPT ![key] = Nothing]
  /\ totals' = Without(totals, {key})
  /\ Becomes(State(Without(partitions, {key}), Forget(recent, {key}), used - Freed(key)), {}, {key})
  /\ Miss(key, FALSE)
  /\ UNCHANGED Races

\* search and search_filtered touch the partition they find.
Search(key) ==
  /\ key \in DOMAIN partitions
  /\ recent' = Touch(recent, key)
  /\ UNCHANGED <<rows, partitions, used, Meta, hydration, Races, ops>>

Next ==
  \/ \E h \in Hydrations, key \in Keys : Build(h, key)
  \/ \E h \in Hydrations : Install(h)
  \/ \E key \in Keys : SetTotal(key) \/ Drop(key) \/ Search(key)
  \/ \E key \in Keys, id \in Ids, dims \in Dims : Upsert(key, id, dims)
  \/ \E key \in Keys, id \in Ids : RemoveVector(key, id)

Spec == Init /\ [][Next]_vars

-----------------------------------------------------------------------------
(* Properties. *)

PartitionOK(p) ==
  /\ \A i \in DOMAIN p.vectors : p.vectors[i].id \in Ids /\ p.vectors[i].dims \in Dims
  /\ DOMAIN p.positions \subseteq Ids
  /\ Len(p.vectors) = Cardinality(DOMAIN p.positions)
  /\ \A id \in DOMAIN p.positions :
       p.positions[id] \in DOMAIN p.vectors /\ p.vectors[p.positions[id]].id = id

\* Every variable keeps its type, and the positions of a partition are where its
\* vectors are (Partition::upsert, Partition::remove).
TypeOK ==
  /\ \A key \in Keys : DOMAIN rows[key] \subseteq Ids /\ Range(rows[key]) \subseteq Dims
  /\ DOMAIN partitions \subseteq Keys /\ \A key \in DOMAIN partitions : PartitionOK(partitions[key])
  /\ ToSet(recent) \subseteq Keys \cup Hydrations /\ IsInjective(recent)
  /\ DOMAIN partitions = ToSet(recent) \cap Keys
  /\ DOMAIN totals \subseteq Keys /\ Range(totals) \subseteq 0..Cardinality(Ids) + MaxOps
  /\ evicted \subseteq Keys /\ raced \subseteq Keys /\ uncounted \subseteq Keys
  /\ ops \in 0..MaxOps

Held == MapThenSumSet(LAMBDA key : partitions[key].bytes, DOMAIN partitions)
BytesOf(p) == MapThenSumSet(LAMBDA i : p.vectors[i].dims, DOMAIN p.vectors)

\* The budget counts exactly the vectors in memory, over upserts that change the
\* dimensions, removals that fill the hole, and replaced, refused, evicted and
\* dropped partitions: a subtraction that went below zero would free or exhaust
\* the whole cache. What is held fits the limit, or is the one partition that
\* upserts made too large for it.
WithinBudget ==
  /\ TypeOK
  /\ used = Held
  /\ \A key \in DOMAIN partitions : partitions[key].bytes = BytesOf(partitions[key])
  /\ used <= Limit \/ Cardinality(DOMAIN partitions) = 1

\* In memory as in the store.
Mirrors ==
  \A key \in DOMAIN partitions \ raced :
    LET p == partitions[key]
    IN /\ DOMAIN p.positions = DOMAIN rows[key]
       /\ \A id \in DOMAIN rows[key] : p.vectors[p.positions[id]].dims = rows[key][id]

\* What memory lacks, the total counts.
Counts ==
  \A key \in DOMAIN partitions \ uncounted :
    DOMAIN rows[key] \subseteq DOMAIN partitions[key].positions \/ Total(key) > Count(key)

\* A hydrated partition holds the rows of its store as they are, unless they
\* were written while the hydration read them: such a hydration undoes an upsert
\* or brings back a removed vector until the next one. Degraded recall is never
\* silent: a partition that lacks a row of its store counts it in its total,
\* unless a hydration lost it that overlapped an upsert which returned false, or
\* a removal.
RecallIsKnown == Mirrors /\ Counts

\* A partition that left memory by itself is reported until it is hydrated or
\* dropped, and one in memory is not reported.
EvictionIsReported ==
  [][/\ \A key \in DOMAIN partitions \ DOMAIN partitions' : key \in evicted' \/ Total(key)' = 0
     /\ \A key \in evicted \ evicted' : key \in DOMAIN partitions' \/ rows'[key] = Nothing
     /\ evicted' \cap DOMAIN partitions' = {}]_vars
=============================================================================
