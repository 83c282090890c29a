--------------------------- MODULE FixedSizePool ---------------------------
(***************************************************************************)
(* mc::memory::fixed_size_pool: slots of one size, cut from segments, kept *)
(* free in a cache of every thread and in central lists behind a mutex.    *)
(* A fast path touches the caller's cache only; what runs under m_mutex is *)
(* one step, together with the thread-local work around it.  The free      *)
(* lists are sets: which slot of a list is taken next does not matter.     *)
(***************************************************************************)
EXTENDS Integers, FiniteSets, Sequences

CONSTANTS
  Threads,        \* the threads that allocate and deallocate
  Segments,       \* indices of m_segment_table: 1 .. n, n bounds the memory
  InitialSlots,   \* options.initial_slab_slots
  MaxSlabSlots,   \* options.max_slab_slots
  MaxTotalSlots,  \* options.max_total_slots, 0 for no limit
  LocalCapacity   \* options.local_cache_capacity, 0 for no caches

ASSUME FixedSizePoolAssumption ==
  /\ IsFiniteSet(Segments) /\ Segments = 1 .. Cardinality(Segments)
  /\ {InitialSlots, MaxSlabSlots} \subseteq Nat \ {0}
  /\ InitialSlots <= MaxSlabSlots
  /\ {MaxTotalSlots, LocalCapacity} \subseteq Nat

VARIABLES
  pool,    \* the members under m_mutex
  local,   \* the local_cache of each thread
  used,    \* the slots callers hold
  trim     \* per thread, the trim or clear that has flushed the cache, if any

poolvars == <<pool, local, used, trim>>

SegmentSlots == IF MaxTotalSlots # 0 /\ MaxTotalSlots < MaxSlabSlots
                THEN MaxTotalSlots ELSE MaxSlabSlots

Slots == Segments \X (1 .. SegmentSlots)

SlotsOf(seg, capacity) == {seg} \X (1 .. capacity)

Live(p) == UNION {SlotsOf(seg, p.capacity[seg]) : seg \in Segments}

Lesser(a, b) == IF a <= b THEN a ELSE b
Greater(a, b) == IF a >= b THEN a ELSE b

EmptyCache == [reused |-> {}, fresh |-> {}]

\* trim(keep) spares one empty segment too; clear keeps nothing back.
Requests == [keep_one : {TRUE}, keep : 0 .. Cardinality(Slots)] \union
            {[keep_one |-> FALSE, keep |-> 0]}

PoolTypeOK ==
  /\ pool \in [capacity : [Segments -> 0 .. SegmentSlots],  \* 0: no memory
               reused : SUBSET Slots, fresh : SUBSET Slots,
               n_reused : Nat, n_fresh : Nat,
               spare : Seq(Segments),
               total : Nat, next_slots : 1 .. SegmentSlots]
  /\ local \in [Threads -> [reused : SUBSET Slots, fresh : SUBSET Slots]]
  /\ used \subseteq Slots
  /\ trim \in [Threads -> SUBSET Requests]

PoolInit ==
  /\ pool = [capacity |-> [seg \in Segments |-> 0],
             reused |-> {}, fresh |-> {}, n_reused |-> 0, n_fresh |-> 0,
             spare |-> [i \in Segments |-> Cardinality(Segments) + 1 - i],
             total |-> 0, next_slots |-> Lesser(InitialSlots, SegmentSlots)]
  /\ local = [t \in Threads |-> EmptyCache]
  /\ used = {}
  /\ trim = [t \in Threads |-> {}]

CentralFree(p) == p.n_reused + p.n_fresh

Cached(cache) == Cardinality(cache.reused) + Cardinality(cache.fresh)

-----------------------------------------------------------------------------
(* Growing: reserve_locked and allocate_segment_locked *)

MayGrow(p) ==
  /\ MaxTotalSlots # 0 => p.total < MaxTotalSlots
  /\ p.spare # <<>>    \* aligned_alloc finds memory

SegmentCapacity(p, wanted) ==
  LET capacity == Lesser(Greater(p.next_slots, wanted - CentralFree(p)), SegmentSlots)
  IN IF MaxTotalSlots = 0 THEN capacity ELSE Lesser(capacity, MaxTotalSlots - p.total)

\* acquire_segment_index_locked takes the index freed last, then a new one:
\* all free indices are one stack.  The next segment is twice as long, up to
\* SegmentSlots.
AllocateSegment(p, n) ==
  LET seg == p.spare[Len(p.spare)]
  IN [p EXCEPT !.capacity[seg] = n,
               !.spare = SubSeq(@, 1, Len(@) - 1),
               !.fresh = @ \union SlotsOf(seg, n),
               !.n_fresh = @ + n,
               !.total = @ + n,
               !.next_slots = IF @ < SegmentSlots
                              THEN Lesser(Greater(2 * @, n), SegmentSlots) ELSE @]

\* reserve_locked(wanted): segments are added until enough slots are free.
\* When that fails midway, what was added stays and bad_alloc is thrown.
Growing(q, wanted) ==
  IF CentralFree(q) < wanted /\ MayGrow(q)
  THEN AllocateSegment(q, SegmentCapacity(q, wanted)) ELSE q

Reserved(p, wanted) ==
  LET grown[i \in {0} \union Segments] ==
        IF i = 0 THEN p ELSE Growing(grown[i - 1], wanted)
  IN grown[Cardinality(Segments)]

-----------------------------------------------------------------------------
(* allocate, allocate_with_status *)

\* refill_local_cache: recycled slots before fresh ones, one batch of both.
Refills(p) ==
  LET batch == Greater(1, LocalCapacity)
      n_reused == Lesser(batch, p.n_reused)
      n_fresh == Lesser(batch - n_reused, p.n_fresh)
  IN {[reused |-> R, fresh |-> F] :
        R \in {S \in SUBSET p.reused : Cardinality(S) = n_reused},
        F \in {S \in SUBSET p.fresh : Cardinality(S) = n_fresh}}

Without(p, cache) ==
  [p EXCEPT !.reused = @ \ cache.reused, !.n_reused = @ - Cardinality(cache.reused),
            !.fresh = @ \ cache.fresh, !.n_fresh = @ - Cardinality(cache.fresh)]

\* The slots allocate may take from a cache, recycled ones first.
Candidates(cache) == IF cache.reused # {} THEN cache.reused ELSE cache.fresh

Remove(cache, s) == [reused |-> cache.reused \ {s}, fresh |-> cache.fresh \ {s}]

\* allocate gives thread t slot s; reused is the status that is returned.
\* Without caches a batch of one is taken from the central lists and used up.
Allocate(t, s, reused) ==
  /\ trim[t] = {}
  /\ \/ /\ Cached(local[t]) > 0
        /\ s \in Candidates(local[t])
        /\ reused = (s \in local[t].reused)
        /\ local' = [local EXCEPT ![t] = Remove(@, s)]
        /\ UNCHANGED pool
     \/ /\ Cached(local[t]) = 0
        /\ LET p == Reserved(pool, 1)
           IN /\ CentralFree(p) > 0
              /\ \E cache \in Refills(p) :
                   /\ s \in Candidates(cache)
                   /\ reused = (s \in cache.reused)
                   /\ pool' = Without(p, cache)
                   /\ local' = [local EXCEPT ![t] = Remove(cache, s)]
  /\ used' = used \union {s}
  /\ UNCHANGED trim

-----------------------------------------------------------------------------
(* deallocate *)

\* drain_local_cache_locked with nothing kept.
Drained(p, cache) ==
  [p EXCEPT !.reused = @ \union cache.reused, !.n_reused = @ + Cardinality(cache.reused),
            !.fresh = @ \union cache.fresh, !.n_fresh = @ + Cardinality(cache.fresh)]

\* A slot may come back on another thread than the one it was given to.
Deallocate(t, s) ==
  /\ trim[t] = {}
  /\ s \in used
  /\ used' = used \ {s}
  /\ LET cache == [local[t] EXCEPT !.reused = @ \union {s}]
     IN IF Cached(cache) > LocalCapacity
        THEN local' = [local EXCEPT ![t] = EmptyCache] /\ pool' = Drained(pool, cache)
        ELSE local' = [local EXCEPT ![t] = cache] /\ UNCHANGED pool
  /\ UNCHANGED trim

\* reserve, also when it ends in bad_alloc.
Reserve(t, wanted) ==
  /\ trim[t] = {}
  /\ pool' = Reserved(pool, wanted)
  /\ UNCHANGED <<local, used, trim>>

\* release_local_cache_on_thread_exit; a later thread starts with an empty cache.
ThreadExit(t) ==
  /\ trim[t] = {}
  /\ pool' = Drained(pool, local[t])
  /\ local' = [local EXCEPT ![t] = EmptyCache]
  /\ UNCHANGED <<used, trim>>

-----------------------------------------------------------------------------
(* trim and clear: two sections under the mutex *)

TrimFlush(t, request) ==
  /\ trim[t] = {}
  /\ trim' = [trim EXCEPT ![t] = {request}]
  /\ pool' = Drained(pool, local[t])
  /\ local' = [local EXCEPT ![t] = EmptyCache]
  /\ UNCHANGED used

EmptySegments(p) ==
  {seg \in Segments : /\ p.capacity[seg] > 0
                      /\ SlotsOf(seg, p.capacity[seg]) \subseteq p.reused \union p.fresh}

\* Faulty Released: segments need only be free of callers' slots.
ReleasedUnused(p, request) ==
  SelectSeq([i \in Segments |-> i],
            LAMBDA i : p.capacity[i] > 0 /\ SlotsOf(i, p.capacity[i]) \intersect used = {})

\* Faulty Released: keep_free_slots is ignored.
ReleasedAll(p, request) ==
  LET spared == IF request.keep_one /\ EmptySegments(p) # {}
                THEN {CHOOSE seg \in EmptySegments(p) : TRUE} ELSE {}
  IN SelectSeq([i \in Segments |-> i], LAMBDA i : i \in EmptySegments(p) \ spared)

\* clear_locked: goes through the segments in order and marks for release
\* while enough free slots, and for trim one empty segment, remain.
Marking(p, request, i, m) ==
  IF /\ i \in EmptySegments(p)
     /\ request.keep_one => m.empty > 1
     /\ m.free - p.capacity[i] >= request.keep
  THEN [segs |-> Append(m.segs, i), free |-> m.free - p.capacity[i], empty |-> m.empty - 1]
  ELSE m

Unmarked(p) == [segs |-> <<>>, free |-> CentralFree(p), empty |-> Cardinality(EmptySegments(p))]

Released(p, request) ==
  LET marked[i \in {0} \union Segments] ==
        IF i = 0 THEN Unmarked(p) ELSE Marking(p, request, i, marked[i - 1])
  IN marked[Cardinality(Segments)].segs

\* The slots of the segments in the list.
Gone(p, segs) == UNION {SlotsOf(segs[k], p.capacity[segs[k]]) : k \in DOMAIN segs}

GivenBack(p, segs) ==
  [p EXCEPT !.capacity = [seg \in Segments |-> IF \E k \in DOMAIN segs : segs[k] = seg THEN 0 ELSE @[seg]],
            !.spare = @ \o segs,
            !.reused = @ \ Gone(p, segs), !.n_reused = Cardinality(p.reused \ Gone(p, segs)),
            !.fresh = @ \ Gone(p, segs), !.n_fresh = Cardinality(p.fresh \ Gone(p, segs)),
            !.total = @ - Cardinality(Gone(p, segs))]

TrimRelease(t) ==
  /\ trim[t] # {}
  /\ \E request \in trim[t] : pool' = GivenBack(pool, Released(pool, request))
  /\ trim' = [trim EXCEPT ![t] = {}]
  /\ UNCHANGED <<local, used>>

-----------------------------------------------------------------------------
PoolStep(t) ==
  \/ \E s \in Slots, reused \in BOOLEAN : Allocate(t, s, reused)
  \/ \E s \in used : Deallocate(t, s)
  \/ \E wanted \in 1 .. Cardinality(Slots) : Reserve(t, wanted)
  \/ \E request \in Requests : TrimFlush(t, request)
  \/ TrimRelease(t)
  \/ ThreadExit(t)

PoolNext == \E t \in Threads : PoolStep(t)

PoolSpec == PoolInit /\ [][PoolNext]_poolvars

-----------------------------------------------------------------------------
(* Properties *)

Places == {pool.reused, pool.fresh, used} \union
          {local[t].reused : t \in Threads} \union {local[t].fresh : t \in Threads}

\* Every slot of a segment that has memory is in one place, and no slot of a
\* segment that was given back is anywhere: no slot is handed out twice,
\* leaked, or freed while a caller or another thread's cache holds it.
Conservation ==
  /\ UNION Places = Live(pool)
  /\ \A s \in Live(pool) :
       Cardinality({t \in Threads : s \in local[t].reused}) +
       Cardinality({t \in Threads : s \in local[t].fresh}) +
       Cardinality({P \in {"reused", "fresh", "used"} :
         s \in CASE P = "reused" -> pool.reused [] P = "fresh" -> pool.fresh
                 [] P = "used" -> used}) = 1

\* The counters that decide about growing and trimming are exact, and the
\* limits on the total and on the cache of a thread hold.
CountersExact ==
  /\ pool.n_reused = Cardinality(pool.reused)
  /\ pool.n_fresh = Cardinality(pool.fresh)
  /\ pool.total = Cardinality(Live(pool))
  /\ MaxTotalSlots # 0 => pool.total <= MaxTotalSlots
  /\ \A t \in Threads : Cached(local[t]) <= LocalCapacity

\* Every slot is in one place and counted there.
SlotsAccounted == PoolTypeOK /\ Conservation /\ CountersExact

\* trim gives back segments only while keep_free_slots free slots and one
\* empty segment remain.
TrimKeepsReserve ==
  [][\A t \in Threads :
       TrimRelease(t) /\ pool' # pool =>
         \A request \in trim[t] :
           /\ CentralFree(pool') >= request.keep
           /\ request.keep_one => EmptySegments(pool') # {}]_poolvars
=============================================================================
