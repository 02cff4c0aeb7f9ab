------------------------------- MODULE Domain --------------------------------
(***************************************************************************)
(* The domains of the abstract interpretation                              *)
(* (abstract-interpretation/domain.ts): sets of intervals of numbers,      *)
(* whose bounds are part of the interval or not.                           *)
(***************************************************************************)
EXTENDS Integers, SequencesExt

Bound(value, inclusive) == [value |-> value, inclusive |-> inclusive]
Interval(min, max) == [min |-> min, max |-> max]

\* What the constructor of Interval guards.
IsInterval(i) ==
    /\ i.min.value <= i.max.value
    /\ i.min.value # i.max.value \/ i.min.inclusive = i.max.inclusive

-----------------------------------------------------------------------------
(* compareIntervals for CompareType Min and Max: the sign of the result    *)

StartsBefore(i, j) ==
    \/ i.min.value < j.min.value
    \/ i.min.value = j.min.value /\ i.min.inclusive /\ ~j.min.inclusive

EndsAfter(i, j) ==
    \/ i.max.value > j.max.value
    \/ i.max.value = j.max.value /\ i.max.inclusive /\ ~j.max.inclusive

DoIntervalsOverlap(i, j) ==
    CASE i.max.value < j.min.value \/ j.max.value < i.min.value -> FALSE
      [] i.max.value = j.min.value /\ j.max.value >= i.min.value -> i.max.inclusive /\ j.min.inclusive
      [] i.max.value > j.min.value /\ j.max.value = i.min.value -> j.max.inclusive /\ i.min.inclusive
      [] OTHER -> TRUE

Hull(i, j) ==
    Interval(IF StartsBefore(i, j) THEN i.min ELSE j.min, IF EndsAfter(i, j) THEN i.max ELSE j.max)

\* A round of the loop of unifyOverlappingIntervals: with what is unified so far, and the
\* current interval that may still grow.
Unify(so, next) ==
    IF DoIntervalsOverlap(so.current, next)
    THEN [so EXCEPT !.current = Hull(so.current, next)]
    ELSE [unified |-> so.unified \cup {so.current}, current |-> next]

UnifyOverlappingIntervals(intervals) ==
    LET sorted == SetToSortSeq(intervals, StartsBefore)
        end == FoldLeft(Unify, [unified |-> {}, current |-> sorted[1]], sorted)
    IN  IF intervals = {} THEN {} ELSE end.unified \cup {end.current}

-----------------------------------------------------------------------------
(* Domains                                                                 *)

FromIntervals(intervals) == UnifyOverlappingIntervals(intervals)
Bottom == FromIntervals({})
FromScalar(n) == FromIntervals({Interval(Bound(n, TRUE), Bound(n, TRUE))})

UnifyDomains(domains) == FromIntervals(UnifyOverlappingIntervals(UNION domains))

\* Two bounds put together.
Plus2(a, b) == Bound(a.value + b.value, a.inclusive /\ b.inclusive)
Minus2(a, b) == Bound(a.value - b.value, a.inclusive /\ b.inclusive)

AddIntervals(i, j) == Interval(Plus2(i.min, j.min), Plus2(i.max, j.max))
SubtractIntervals(i, j) == Interval(Minus2(i.min, j.max), Minus2(i.max, j.min))

AddDomains(a, b) == FromIntervals({AddIntervals(i, j) : i \in a, j \in b})

\* A variant: the operands change places.
SubtractFromTheSecond(a, b) == FromIntervals({SubtractIntervals(j, i) : i \in a, j \in b})

SubtractDomains(a, b) == FromIntervals({SubtractIntervals(i, j) : i \in a, j \in b})

-----------------------------------------------------------------------------
(* What a domain stands for                                                *)

Within(n, i) ==
    /\ n > i.min.value \/ (n = i.min.value /\ i.min.inclusive)
    /\ n < i.max.value \/ (n = i.max.value /\ i.max.inclusive)

Holds(domain, n) == \E i \in domain : Within(n, i)
=============================================================================
