------------------------------ MODULE MCRecycler ------------------------------
(***************************************************************************)
(* A small instance of Recycler: interchangeable handles and a pool that   *)
(* starts with two elements, so that the third acquire expands it; and the *)
(* handles of RecycleHandle under every sequence of six operations.       *)
(***************************************************************************)
EXTENDS Recycler, TLC

HandleSymmetry == Permutations(Handles)

\* Packages are of a base type and a packet type; nothing is "other".
HandleType == [h \in {"base", "packet", "second", "other", "temp"} |->
    IF h \in {"packet", "second"} THEN "packet" ELSE IF h = "other" THEN h ELSE "base"]
Up == {<<"base", "base">>, <<"packet", "packet">>, <<"other", "other">>,
       <<"packet", "base">>}

Inplace == INSTANCE RecycleHandle WITH
    Handles <- DOMAIN HandleType, Type <- HandleType, Supers <- {"base", "packet"},
    Nodes <- {1, 2}, Separate <- FALSE, ShrinkCount <- 2, Minimum <- 1,
    Threshold <- 75, Rate <- 50, Width <- 16

Apart == INSTANCE RecycleHandle WITH
    Handles <- DOMAIN HandleType, Type <- HandleType, Supers <- {"base", "packet"},
    Nodes <- {1, 2}, Separate <- TRUE, ShrinkCount <- 2, Minimum <- 1,
    Threshold <- 75, Rate <- 50, Width <- 16

\* What n operations lead to, after Initial has made both elements or failed
\* at the second.
AfterInplace[n \in 0 .. 6] ==
    IF n = 0
    THEN {Inplace!Initial(Inplace!NoNodes, <<1, 2>>, throws) :
            throws \in {"nothing", "construct"}}
    ELSE AfterInplace[n - 1] \cup
         UNION {Inplace!Operations(s, "temp", Up) : s \in AfterInplace[n - 1]}

AfterApart[n \in 0 .. 6] ==
    IF n = 0
    THEN {Apart!Initial(Apart!NoNodes, <<1, 2>>, throws) :
            throws \in {"nothing", "allocate", "construct"}}
    ELSE AfterApart[n - 1] \cup
         UNION {Apart!Operations(s, "temp", Up) : s \in AfterApart[n - 1]}

ASSUME InplaceCounts == \A s \in AfterInplace[6] : Inplace!CountsItsHandles(s, "temp")
ASSUME ApartCounts == \A s \in AfterApart[6] : Apart!CountsItsHandles(s, "temp")

\* With the code's rates and minimum, and a count that lets Shrink meet it.
AtMinimum == INSTANCE RecycleHandle WITH
    Handles <- {}, Type <- <<>>, Supers <- {}, Nodes <- {}, Separate <- FALSE,
    ShrinkCount <- 64, Minimum <- 64, Threshold <- 75, Rate <- 50, Width <- 20

ASSUME ShrinkKeeps == AtMinimum!ShrinkKeepsMinimum(600)
=============================================================================
