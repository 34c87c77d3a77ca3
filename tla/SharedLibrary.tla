----------------------------- MODULE SharedLibrary -----------------------------
(***************************************************************************)
(* FSharedLibrary (src/base/SharedLibrary.cpp): objects that share a       *)
(* control block, which counts them and unloads the library with the last. *)
(* Each operation maps the objects, their blocks and the counts to what    *)
(* they are afterwards; mHandle is that of the block.  Blocks stand for    *)
(* the libraries they have loaded, each of which is loaded once.           *)
(***************************************************************************)
EXTENDS Naturals, FiniteSets

CONSTANTS
    Objects,    \* variables, members and temporaries of this type
    Blocks,     \* control blocks, one per library
    Null        \* not one of them

\* Nothing is loaded yet.
NoLibraries ==
    [mControl |-> [o \in Objects |-> Null], refCount |-> [b \in Blocks |-> 0],
     loaded |-> {}, unloads |-> [b \in Blocks |-> 0]]

IsValid(s, o) == s.mControl[o] # Null

GetUseCount(s, o) == IF IsValid(s, o) THEN s.refCount[s.mControl[o]] ELSE 0

Equal(s, o, p) == s.mControl[o] = s.mControl[p]

Points(s, o, b) == [s EXCEPT !.mControl[o] = b]

Counted(s, b) == IF b = Null THEN s ELSE [s EXCEPT !.refCount[b] = @ + 1]

Release(s, o) ==
    LET b == s.mControl[o]
        t == Points(s, o, Null) IN
    IF b = Null THEN t
    ELSE IF s.refCount[b] > 1 THEN [t EXCEPT !.refCount[b] = @ - 1]
    ELSE [t EXCEPT !.refCount[b] = 0, !.loaded = @ \ {b}, !.unloads[b] = @ + 1]

\* The constructor with a path.
Load(s, o, b) ==
    [Points(s, o, b) EXCEPT !.refCount[b] = 1, !.loaded = @ \cup {b}]

\* The copy constructor, of an object that o is not yet.
Copy(s, o, p) == Counted(Points(s, o, s.mControl[p]), s.mControl[p])

CopyAssign(s, o, p) == IF o = p THEN s ELSE Copy(Release(s, o), o, p)

Move(s, o, p) == Points(Points(s, o, s.mControl[p]), p, Null)

MoveAssign(s, o, p) == IF o = p THEN s ELSE Move(Release(s, o), o, p)

Swap(s, o, p) ==
    Points(Points(s, o, s.mControl[p]), p, s.mControl[o])

\* A temporary is swapped with o, and destroyed with what o had.
Reset(s, o, temp) == Release(Swap(Points(s, temp, Null), o, temp), temp)

\* What any of them may do to objects in s, temp being nobody's.
Operations(s, temp) ==
    LET Named == Objects \ {temp} IN
    {Load(s, x[1], x[2]) : x \in {y \in Named \X Blocks :
        ~IsValid(s, y[1]) /\ s.refCount[y[2]] = 0 /\ s.unloads[y[2]] = 0}}
    \cup {Copy(s, x[1], x[2]) : x \in {y \in Named \X Named : ~IsValid(s, y[1])}}
    \cup {CopyAssign(s, x[1], x[2]) : x \in Named \X Named}
    \cup {Move(s, x[1], x[2]) : x \in {y \in Named \X Named :
        ~IsValid(s, y[1]) /\ y[1] # y[2]}}
    \cup {MoveAssign(s, x[1], x[2]) : x \in Named \X Named}
    \cup {Swap(s, x[1], x[2]) : x \in Named \X Named}
    \cup {Reset(s, o, temp) : o \in Named}
    \cup {Release(s, o) : o \in Named}

\* A library is loaded as long as an object has its block, which counts them
\* all, and it is unloaded once.
CountsItsObjects(s) ==
    \A b \in Blocks :
        LET n == Cardinality({o \in Objects : s.mControl[o] = b}) IN
        /\ s.refCount[b] = n
        /\ b \in s.loaded <=> n > 0
        /\ s.unloads[b] <= 1
=============================================================================
