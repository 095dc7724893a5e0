---------------------------- MODULE TableSizing -----------------------------
(***************************************************************************)
(* from_num_items of filters and stores: the number of buckets for a       *)
(* number of items, from the loop that doubles it, or multiplies it by the *)
(* arity, until the load is low enough, in words of WordBits bits for      *)
(* those of 32.  A build with overflow checks panics where one without     *)
(* wraps around.                                                           *)
(***************************************************************************)
EXTENDS Digits

CONSTANTS
  WordBits,
  BucketSizes,
  MaxItems      \* bound: the largest max_items passed

ASSUME SizingAssumption ==
  /\ WordBits \in Nat \ {0} /\ MaxItems \in Nat
  /\ BucketSizes \subseteq 1 .. 4
  /\ \A base \in 2 .. 4 : PowersUpTo(base, WordBits)

VARIABLES
  shape, bucket_size, max_items,
  checks,       \* whether the build checks overflow
  size,         \* segment_size of the segmented 3- and 4-ary schemes, else num_buckets
  phase         \* "start", "loop", or the result: "Ok", "InvalidParams" or "panic"

sizing_inputs == <<shape, bucket_size, max_items, checks>>
sizing_vars   == <<sizing_inputs, size, phase>>

-----------------------------------------------------------------------------
Shapes == [family : {"segmented", "standard"}, arity : 2 .. 4]

\* In percent: MAX_LOAD_FACTOR.
MAX_LOAD_FACTOR ==
  <<<<48, 83, 89, 91>>, <<85, 93, 94, 94>>, <<91, 94, 95, 95>>>>

target == MAX_LOAD_FACTOR[shape.arity - 1][bucket_size]

\* num_buckets for a size; how the loop grows the size; the size at least.
Unit   == IF shape.family = "segmented" /\ shape.arity > 2 THEN shape.arity ELSE 1
Growth == IF shape.family = "segmented" THEN 2 ELSE shape.arity
Least  == IF shape.family = "segmented" /\ shape.arity = 2 THEN 2 ELSE 1

Word(n)     == n % 2 ^ WordBits
Overflow(n) == n >= 2 ^ WordBits

DivCeil(a, b) == (a + b - 1) \div b

\* next_power_of_2, _3 and _4, for any number of items within the cap.
WrongNextPower(base, n) == IF n = 0 THEN 1 ELSE n
NextPower(base, n)      == Min({base ^ t : t \in 0 .. WordBits} \ 0 .. n - 1)

buckets_now == Word(Unit * size)

LoadTooHigh(buckets) == 100 * max_items > target * buckets * bucket_size

\* What the constructors ask of num_buckets.
ValidShape(buckets) ==
  \E t \in 0 .. WordBits :
    LET n == Growth ^ t IN n >= Least /\ buckets = Unit * n /\ ~Overflow(buckets)

-----------------------------------------------------------------------------
SizingInit ==
  /\ shape \in Shapes
  /\ bucket_size \in BucketSizes
  /\ max_items \in 0 .. MaxItems
  /\ checks \in BOOLEAN
  /\ size = 0
  /\ phase = "start"

\* max_items over u32::MAX buckets.
RejectItems ==
  /\ phase = "start"
  /\ max_items > (2 ^ WordBits - 1) * bucket_size
  /\ phase' = "InvalidParams"
  /\ UNCHANGED <<sizing_inputs, size>>

\* A new size, of which buckets_now is computed; only the casts of u64 to u32
\* are never checked.
Resize(n) ==
  /\ size' = Word(n)
  /\ phase' = IF checks /\ Overflow(Unit * Word(n)) THEN "panic" ELSE "loop"

Start ==
  /\ phase = "start"
  /\ max_items <= (2 ^ WordBits - 1) * bucket_size
  /\ Resize(Max({Word(NextPower(Growth, DivCeil(max_items, Unit * bucket_size))), Least}))
  /\ UNCHANGED sizing_inputs

WrongGrow ==   \* grows once
  /\ phase = "loop"
  /\ LoadTooHigh(buckets_now)
  /\ size' = Word(Growth * size)
  /\ phase' = "Ok"
  /\ UNCHANGED sizing_inputs

Grow ==
  /\ phase = "loop"
  /\ LoadTooHigh(buckets_now)
  /\ IF checks /\ Overflow(Growth * size)
       THEN phase' = "panic" /\ UNCHANGED size
       ELSE Resize(Growth * size)
  /\ UNCHANGED sizing_inputs

Return ==
  /\ phase = "loop"
  /\ ~LoadTooHigh(buckets_now)
  /\ phase' = IF ValidShape(buckets_now) THEN "Ok" ELSE "InvalidParams"
  /\ UNCHANGED <<sizing_inputs, size>>

SizingNext == RejectItems \/ Start \/ Grow \/ Return

\* A call runs to its end.
SizingSpec == SizingInit /\ [][SizingNext]_sizing_vars /\ WF_sizing_vars(SizingNext)

-----------------------------------------------------------------------------
Fits(buckets) == ValidShape(buckets) /\ ~LoadTooHigh(buckets)

\* The table is the smallest that holds the items at the target load
\* (from_num_items).
SmallestTable ==
  phase = "Ok" => /\ Fits(buckets_now)
               /\ \A n \in 1 .. buckets_now - 1 : ~Fits(n)

\* If there is a table for the items, from_num_items finds it, no overflow
\* of u32 coming in its way.
FindsTable == (\E n \in 1 .. 2 ^ WordBits - 1 : Fits(n)) ~> phase = "Ok"

\* "Ok(store) on success, Err if any scalar constraint is violated or
\* max_items exceeds the u32 num-buckets cap" (from_num_items of store.rs).
AlwaysReturns == <>(phase \in {"Ok", "InvalidParams"})

=============================================================================
