------------------------------ MODULE TimerHandle ------------------------------
(***************************************************************************)
(* FTimerHandle (src/timer/TimerHandle.h): what CreateTimer returns, an id *)
(* and a weak pointer to the timer, that is compared, hashed and converted *)
(* by the id alone.  A handle is a record of the two.                      *)
(***************************************************************************)
EXTENDS Integers

CONSTANTS
    Expired,        \* the timers that have been destroyed, and the null pointer
    IntMax          \* of an int, which is narrower than an id

NoHandle(null) == [id |-> -1, timer |-> null]
FromId(id, null) == [id |-> id, timer |-> null]

IsValid(handle) == handle.id > 0 /\ handle.timer \notin Expired
Get(handle, null) == IF handle.timer \in Expired THEN null ELSE handle.timer

\* operator int: the lower half of the id, in two's complement.
ToInt(handle) ==
    LET low == handle.id % (2 * (IntMax + 1)) IN
    IF low > IntMax THEN low - 2 * (IntMax + 1) ELSE low

\* Between two handles, also as FEqual and FHash have it.
Equal(lhs, rhs) == lhs.id = rhs.id
Less(lhs, rhs) == lhs.id < rhs.id
Greater(lhs, rhs) == lhs.id > rhs.id
Hash(handle) == handle.id

\* Between a handle and an int, and the other way round.
EqualInt(lhs, rhs) == lhs.id = rhs
LessInt(lhs, rhs) == lhs.id < rhs
GreaterInt(lhs, rhs) == lhs.id > rhs
IntEqual(lhs, rhs) == lhs = rhs.id
IntLess(lhs, rhs) == lhs < rhs.id
IntGreater(lhs, rhs) == lhs < rhs.id

\* Handles are ordered as a map needs it, and equal handles have one hash.
Ordered(handles) ==
    \A f, g, h \in handles :
        /\ Less(f, g) \/ Less(g, f) \/ Equal(f, g)
        /\ ~(Less(f, g) /\ Less(g, f)) /\ (Less(f, g) <=> Greater(g, f))
        /\ Less(f, g) /\ Less(g, h) => Less(f, h)
        /\ Equal(f, g) <=> Hash(f) = Hash(g)

\* With an int on either side the comparisons mean the same, ...
Mirrors(handle, i) ==
    /\ EqualInt(handle, i) <=> IntEqual(i, handle)
    /\ LessInt(handle, i) <=> ~GreaterInt(handle, i) /\ ~EqualInt(handle, i)
    /\ IntLess(i, handle) <=> GreaterInt(handle, i)

\* ... all but this one.
MirrorsGreater(handle, i) == IntGreater(i, handle) <=> LessInt(handle, i)
=============================================================================
