------------------------------- MODULE MCServer -------------------------------
(***************************************************************************)
(* A small instance of Server: two services, two libraries that work and   *)
(* one of each that does not; the shared libraries and owning handles it   *)
(* uses under every sequence of their operations; and the helpers of Utils *)
(* on short strings, in the weeks around turns of the year, and on pools   *)
(* of three weights.                                                       *)
(***************************************************************************)
EXTENDS Server

CONSTANTS b1, b2, x, y, z, temp

Libraries == INSTANCE SharedLibrary WITH
    Objects <- {x, y, z, temp}, Blocks <- {b1, b2}, Null <- None

Owners == INSTANCE OwningHandle WITH
    Handles <- {x, y, z}, Instances <- {b1, b2}, Nothing <- None

\* What n operations lead to.
AfterLibraries[n \in 0 .. 6] ==
    IF n = 0 THEN {Libraries!NoLibraries}
    ELSE AfterLibraries[n - 1] \cup
         UNION {Libraries!Operations(s, temp) : s \in AfterLibraries[n - 1]}

AfterOwners[n \in 0 .. 6] ==
    IF n = 0 THEN {Owners!NoHandles}
    ELSE AfterOwners[n - 1] \cup
         UNION {Owners!Operations(s) : s \in AfterOwners[n - 1]}

ASSUME LibrariesCount == \A s \in AfterLibraries[6] : Libraries!CountsItsObjects(s)
ASSUME HandlesOwn == \A s \in AfterOwners[6] : Owners!OneOwner(s)

----------------------------------------------------------------------------
U == INSTANCE Utils WITH Zone <- 8, FirstYear <- 1970, LastYear <- 1973

\* Of a letter, a capital, a dot and a slash, that end in ".json" or not.
Strings == UNION {[1 .. n -> {97, 66, 46, 47}] : n \in 0 .. 5}
Json == <<46, 106, 115, 111, 110>>

ASSUME Splits == \A s \in Strings : U!SplitRestores(s, 46)
ASSUME Pascal == \A s \in Strings :
    LET low == U!PascalToUnderline(s) IN
    /\ \A c \in Range(low) : ~U!IsUpper(c)
    /\ Len(low) - Len(s) = Cardinality({i \in DOMAIN s \ {1} : s[i] = 66})
\* Two files have one key only if they differ in dots for slashes.
ASSUME Keys == \A s, t \in UNION {[1 .. n -> {97, 46, 47}] : n \in 1 .. 3} :
    LET files == <<s \o Json, t \o Json>>
        found == U!FindConfig(files, U!ConfigKey(files[1])) IN
    found = IF U!ConfigKey(files[1]) = U!ConfigKey(files[2]) THEN 2 ELSE 1
ASSUME Bytes == \A b \in [1 .. 2 -> 0 .. 255] :
    U!HexToBytes(<<b[1] \div 16, b[1] % 16, b[2] \div 16, b[2] % 16>>) = b

\* Around New Year 1971, which begins a Friday, and the end of February 1972.
Points == {365 * 24 + 6 * k : k \in -40 .. 20} \cup {788 * 24 + 6 * k : k \in -10 .. 20}

ASSUME Dates == \A former, latter \in Points :
    latter - former < 24 * 40 => U!DatesAgree(former, latter)
\* A chrono year is not a calendar year.
ASSUME DayOfYear == /\ \A day \in 0 .. 364 : U!DayOfYearAgrees(24 * day - 8)
                    /\ ~U!DayOfYearAgrees(24 * 365 - 8)
ASSUME Draws == \A pool \in [1 .. 3 -> 0 .. 3] : U!DrawsByWeight(pool)

\* Loggers, by two callers, and contexts.
Log == INSTANCE Logger WITH Callers <- {1, 2}
ASSUME LoggersCount ==
    /\ \A s \in Log!After(FALSE, TRUE, 8) :
        s.at = Log!Init.at => Log!HeldIsRegistered(s) /\ Log!NobodyThrows(s)
    /\ \A s \in Log!After(TRUE, FALSE, 8) : Log!HeldIsRegistered(s)
    /\ \A s \in Log!After(TRUE, TRUE, 8) : Log!StopDrops(s)
\* Beside each other, one create is refused, and a destroy takes a logger away
\* that has just been found.
ASSUME LoggersRace ==
    /\ \E s \in Log!After(TRUE, FALSE, 8) : ~Log!NobodyThrows(s)
    /\ \E s \in Log!After(TRUE, TRUE, 8) : ~Log!HeldIsRegistered(s)

Contexts == INSTANCE ContextPool
ASSUME ContextsServe == \A count \in 1 .. 3 :
    \A s \in Contexts!After(count, 7) :
        Contexts!DealtInTurn(s) /\ Contexts!DestructorReturns(s)
=============================================================================
