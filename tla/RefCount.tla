------------------------------ MODULE RefCount ------------------------------
(***************************************************************************)
(* The life of one object behind mc::memory::shared_ptr and weak_ptr.  A   *)
(* handle is one smart pointer object; threads share and move handles, so  *)
(* every step may be any thread's.  A compare-exchange loop of             *)
(* shared_counter is one step: it takes effect on the value it succeeds    *)
(* on.  What follows the last release is a step each: destroying the       *)
(* object, giving the baseline weak reference back, freeing the memory.    *)
(* A plain move hands a reference on and changes no count; the converting  *)
(* move of a weak_ptr does not, and is a step of its own.                  *)
(***************************************************************************)
EXTENDS Integers, FiniteSets

CONSTANTS
  Handles,    \* the shared_ptr and weak_ptr objects
  INVALID,    \* the largest counter_type: not managed yet
  MaxConversions  \* bound: converting moves of a weak_ptr

DESTROYED == 0
EXTERNAL == INVALID - 1

\* There are fewer pointers than would reach the two reserved values.
ASSUME RefCountAssumption ==
  /\ IsFiniteSet(Handles)
  /\ INVALID \in Nat /\ MaxConversions \in Nat
  /\ Cardinality(Handles) + MaxConversions + 2 < INVALID

VARIABLES
  ref_count,   \* m_ref_count
  weak_count,  \* m_weak_count
  handle,      \* what each handle holds, or the step its release has reached
  memory,      \* the object's memory
  converted    \* history: converting moves of a weak_ptr so far

refvars == <<ref_count, weak_count, handle, memory, converted>>

\* destroying: this release dropped the last reference, ~T() is running;
\* baseline: ~T() is done; last: release_weak_ref counted down to 0.
Stages == {"empty", "strong", "weak", "destroying", "baseline", "last"}

In(stages) == {h \in Handles : handle[h] \in stages}

RefTypeOK ==
  /\ ref_count \in (0 .. Cardinality(Handles)) \union {INVALID}
  /\ weak_count \in 0 .. INVALID
  /\ handle \in [Handles -> Stages]
  /\ memory \in {"alive", "destroyed", "freed"}
  /\ converted \in 0 .. MaxConversions

RefInit ==
  /\ ref_count = INVALID
  /\ weak_count = 1
  /\ handle = [h \in Handles |-> "empty"]
  /\ memory = "alive"
  /\ converted = 0

Becomes(h, stage) == handle' = [handle EXCEPT ![h] = stage]

-----------------------------------------------------------------------------
(* Taking references *)

\* add_ref
AddRef == ref_count' = IF ref_count = INVALID THEN 1 ELSE ref_count + 1

\* A raw pointer to the object is at hand: from the code that has just made
\* it, or from a shared_ptr.
HasPointer == ref_count = INVALID \/ In({"strong"}) # {}

\* shared_ptr(ptr), or a copy of a shared_ptr
TakeStrong(h) ==
  /\ handle[h] = "empty"
  /\ HasPointer
  /\ AddRef
  /\ Becomes(h, "strong")
  /\ UNCHANGED <<weak_count, memory, converted>>

\* fetch_add and fetch_sub of m_weak_count, an unsigned counter
CountUp(n) == IF n = INVALID THEN 0 ELSE n + 1
CountDown(n) == IF n = 0 THEN INVALID ELSE n - 1

\* weak_ptr(ptr), weak_ptr(shared_ptr) or a copy of a weak_ptr; ~T() may
\* make one of the object it destroys.
TakeWeak(h) ==
  /\ handle[h] = "empty"
  /\ HasPointer \/ In({"weak", "destroying"}) # {}
  /\ weak_count' = CountUp(weak_count)
  /\ Becomes(h, "weak")
  /\ UNCHANGED <<ref_count, memory, converted>>

\* Faulty MayLock: an object past its last release is referenced again.
MayLockAlways == ref_count \notin {INVALID, EXTERNAL}

\* try_add_ref succeeds
MayLock == ref_count \notin {DESTROYED, INVALID, EXTERNAL}

\* weak_ptr::lock into h; it leaves h empty when try_add_ref fails.
Lock(h) ==
  /\ handle[h] = "empty"
  /\ In({"weak"}) # {}
  /\ MayLock
  /\ ref_count' = ref_count + 1
  /\ Becomes(h, "strong")
  /\ UNCHANGED <<weak_count, memory, converted>>

-----------------------------------------------------------------------------
(* Dropping them *)

\* shared_ptr::release: release_ref
DropStrong(h) ==
  /\ handle[h] = "strong"
  /\ ref_count' = ref_count - 1
  /\ Becomes(h, IF ref_count = 1 THEN "destroying" ELSE "empty")
  /\ UNCHANGED <<weak_count, memory, converted>>

\* Faulty Destroy: the release ends with ~T().
DestroyOnly(h) ==
  /\ handle[h] = "destroying"
  /\ memory' = "destroyed"
  /\ Becomes(h, "empty")
  /\ UNCHANGED <<ref_count, weak_count, converted>>

\* destroy_managed_object, by the releasing thread or by the collector that
\* took the release over
Destroy(h) ==
  /\ handle[h] = "destroying"
  /\ memory' = "destroyed"
  /\ Becomes(h, "baseline")
  /\ UNCHANGED <<ref_count, weak_count, converted>>

\* Where a release goes on to once release_weak_ref has counted down.
AfterCountDown == IF weak_count = 1 THEN "last" ELSE "empty"

\* release_weak_ref counts down, for ~weak_ptr or for the baseline
DropWeak(h) ==
  /\ handle[h] \in {"weak", "baseline"}
  /\ weak_count' = CountDown(weak_count)
  /\ Becomes(h, AfterCountDown)
  /\ UNCHANGED <<ref_count, memory, converted>>

\* The weak_ptr h is made from g, a weak_ptr of another type that is moved:
\* it copies the pointer without add_weak_ref, and g.reset() gives up a
\* reference that h goes on using.
MoveConverted(h, g) ==
  /\ handle[h] = "empty" /\ handle[g] = "weak"
  /\ converted < MaxConversions
  /\ weak_count' = CountDown(weak_count)
  /\ handle' = [handle EXCEPT ![h] = "weak", ![g] = AfterCountDown]
  /\ converted' = converted + 1
  /\ UNCHANGED <<ref_count, memory>>

\* release_weak_ref asks is_destroyed; if so deallocate_managed_object.
DropLast(h) ==
  /\ handle[h] = "last"
  /\ memory' = IF ref_count = DESTROYED THEN "freed" ELSE memory
  /\ Becomes(h, "empty")
  /\ UNCHANGED <<ref_count, weak_count, converted>>

\* Nothing touches freed memory here: what a pointer left to it would do is
\* undefined, and the behaviour ends.
RefNext ==
  /\ memory # "freed"
  /\ \E h \in Handles :
       \/ TakeStrong(h) \/ TakeWeak(h) \/ Lock(h)
       \/ DropStrong(h) \/ Destroy(h) \/ DropWeak(h) \/ DropLast(h)
       \/ \E g \in Handles : MoveConverted(h, g)

RefSpec == RefInit /\ [][RefNext]_refvars

-----------------------------------------------------------------------------
(* Properties *)

\* The baseline weak reference has not been given back.
BaselineHeld == memory = "alive" \/ In({"destroying", "baseline"}) # {}

\* The value an unsigned counter shows for n.
Wrapped(n) == IF n < 0 THEN n + INVALID + 1 ELSE n

\* m_ref_count counts the shared_ptrs of a managed object.  m_weak_count
\* counts the weak_ptrs and the baseline, whatever releases are under way,
\* less one for every converting move so far (add_ref, release_ref,
\* try_add_ref, add_weak_ref, release_weak_ref; weak_ptr(weak_ptr<U>&&)).
CountsExact ==
  /\ IF ref_count = INVALID
     THEN In({"strong", "destroying", "baseline"}) = {} /\ memory = "alive"
     ELSE ref_count = Cardinality(In({"strong"}))
  /\ weak_count = Wrapped(Cardinality(In({"weak"}))
                            + (IF BaselineHeld THEN 1 ELSE 0) - converted)

\* While a shared_ptr exists the object is not destroyed, its counter has
\* neither been released to 0 nor revived from it, and ~T() runs at most
\* once, by one thread (shared_counter::release_ref, try_add_ref;
\* shared_ptr::release).  No converting move of a weak_ptr can break this.
DestroyedByLast ==
  /\ In({"strong"}) # {} => memory = "alive" /\ ref_count # DESTROYED
  /\ \A h, g \in In({"destroying", "baseline"}) : h = g
  /\ In({"destroying"}) # {} => memory # "destroyed" /\ ref_count = DESTROYED

\* The memory, where the counters live, outlasts every pointer to it and
\* every step of a release: no weak_ptr dropped while ~T() runs frees it,
\* and it is freed once (the two-stage release of shared_base.h).
NoDangling ==
  /\ memory = "freed" => In(Stages \ {"empty"}) = {}
  /\ \A h, g \in In({"last"}) : h = g
  /\ In({"last"}) # {} => memory = "destroyed"

\* The counts are what they should be, less the converting moves; nothing
\* is destroyed outside its life; and unless a weak_ptr has been moved with
\* a conversion, nothing is used after it was freed.
Lifetime ==
  /\ RefTypeOK /\ CountsExact /\ DestroyedByLast
  /\ converted = 0 => NoDangling

\* Whichever of the last shared_ptr and the last weak_ptr goes later, the
\* memory is given back: when no pointer is left the object is freed,
\* unless it was never managed (release_weak_ref's answer) or a converting
\* move has spoiled the count.
NothingLeaks ==
  converted = 0 /\ In(Stages \ {"empty"}) = {} /\ ref_count # INVALID
    => memory = "freed"
=============================================================================
