--------------------------- MODULE ReservedRanges ---------------------------
(***************************************************************************)
(* The books the loader keeps of reserved address ranges                   *)
(* (haiku_loader/loader_reservedrange.cpp): sReservedRanges is a map from  *)
(* a range to the set of its parts that are mapped.  A range is            *)
(* lo .. hi - 1, in pages.  All calls are made under sReservedRangeMutex,  *)
(* so each is an operator on the books.                                    *)
(***************************************************************************)
EXTENDS Integers, FiniteSetsExt

\* a reserved range, and a mapped part of one
Range0(lo, hi) == [lo |-> lo, hi |-> hi, maps |-> {}]
Part(lo, hi) == [lo |-> lo, hi |-> hi]

\* map::upper_bound(address), then one back: the last that starts at or
\* before the address.  Only asked where HasBefore holds.
HasBefore(set, a) == \E r \in set : r.lo <= a
Before(set, a) ==
    CHOOSE r \in set : r.lo <= a /\ \A q \in set : q.lo <= a => q.lo <= r.lo
\* the one that upper_bound itself points at
HasAfter(set, a) == \E r \in set : r.lo > a
After(set, a) ==
    CHOOSE r \in set : r.lo > a /\ \A q \in set : q.lo > a => r.lo <= q.lo

Disjoint(r, q) == r.hi <= q.lo \/ q.hi <= r.lo
\* the asserts of loader_register_reserved_range
MayRegister(rr, lo, hi) == \A r \in rr : Disjoint(r, Part(lo, hi))
RegisterRange(rr, lo, hi) == rr \cup {Range0(lo, hi)}

IsInReserved(rr, lo, hi) ==
    HasBefore(rr, lo) /\ hi <= Before(rr, lo).hi

Collides(rr, lo, hi) ==
    \/ HasAfter(rr, lo) /\ hi > After(rr, lo).lo
    \/ HasBefore(rr, lo) /\ lo < Before(rr, lo).hi

\* loader_reserved_range_longest_mappable_from
LongestMappable(rr, a, max) ==
    LET r == Before(rr, a)
        end == IF HasAfter(r.maps, a) THEN After(r.maps, a).lo ELSE r.hi
    IN  IF ~HasBefore(rr, a) THEN 0
        ELSE IF HasBefore(r.maps, a) /\ Before(r.maps, a).hi > a THEN 0
        ELSE Min({max, end - a})

\* loader_map_reserved_range: joined with the parts it touches.
MapRange(rr, lo, hi) ==
    LET r == Before(rr, lo)
        next == {m \in r.maps : m.lo = hi}
        prev == {m \in r.maps : m.hi = lo}
        part == Part(IF prev = {} THEN lo ELSE (CHOOSE m \in prev : TRUE).lo,
                     IF next = {} THEN hi ELSE (CHOOSE m \in next : TRUE).hi)
    IN  (rr \ {r}) \cup
            {[r EXCEPT !.maps = (@ \ (next \cup prev)) \cup {part}]}

\* What is left of the parts when lo .. hi - 1 is taken out.
CutParts(maps, lo, hi) ==
    {m \in maps : Disjoint(m, Part(lo, hi))}
        \cup {Part(m.lo, lo) : m \in {x \in maps : x.lo < lo /\ lo < x.hi}}
        \cup {Part(hi, m.hi) : m \in {x \in maps : x.lo < hi /\ hi < x.hi}}

UnmapRange(rr, lo, hi) ==
    LET r == Before(rr, lo)
    IN  (rr \ {r}) \cup {[r EXCEPT !.maps = CutParts(@, lo, hi)]}

\* loader_unregister_reserved_range splits the range.  One iterator walks the
\* parts for both halves: a part that starts in the first half is not seen
\* again for the second one, even where it reaches into it.
UnregisterRange(rr, lo, hi) ==
    LET r == Before(rr, lo)
        left == {Part(m.lo, Min({m.hi, lo})) : m \in {x \in r.maps : x.lo < lo}}
        seen == IF r.lo < lo THEN {x \in r.maps : x.lo < lo} ELSE {}
        right == {Part(Max({m.lo, hi}), m.hi) :
                      m \in {x \in r.maps \ seen : x.hi > hi}}
    IN  (rr \ {r})
            \cup (IF r.lo < lo
                  THEN {[lo |-> r.lo, hi |-> lo, maps |-> left]} ELSE {})
            \cup (IF r.hi > hi
                  THEN {[lo |-> hi, hi |-> r.hi, maps |-> right]} ELSE {})

\* loader_next_reserved_range answers "none" when the address lies before the
\* first range.  The loops of the guest then see no range at all.
SeesRanges(rr, a) == HasBefore(rr, a)
SeenReserved(rr, lo, hi) ==
    IF SeesRanges(rr, lo)
    THEN {x \in lo..(hi - 1) : \E r \in rr : r.lo <= x /\ x < r.hi} ELSE {}

MappedPages(rr) ==
    UNION {m.lo..(m.hi - 1) : m \in UNION {r.maps : r \in rr}}
ReservedPages(rr) == UNION {r.lo..(r.hi - 1) : r \in rr}

\* loader_next_reserved_range_mapping past the last part of a range follows
\* the end of the set: what it returns is not determined.
Undetermined(rr, a) ==
    LET r == Before(rr, a)
    IN  HasBefore(r.maps, a) /\ Before(r.maps, a).hi <= a /\ ~HasAfter(r.maps, a)

\* The verdicts the check of set_memory_protection may come to.
RangeVerdicts(rr, lo, hi) ==
    LET holes == SeenReserved(rr, lo, hi) \ MappedPages(rr)
        first == CHOOSE x \in holes : \A y \in holes : x <= y
    IN  IF holes = {} THEN {TRUE}
        ELSE IF Undetermined(rr, first) THEN BOOLEAN ELSE {FALSE}
=============================================================================
