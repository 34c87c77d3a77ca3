--------------------------------- MODULE Utils ---------------------------------
(***************************************************************************)
(* The helpers of src/Utils.cpp that compute something: on strings (the    *)
(* paths of services and configurations are taken apart with them), bits,  *)
(* dates and weighted draws; each with what it should compute.             *)
(*                                                                         *)
(* A string is a sequence of character codes.  A time point is a number of *)
(* hours since 1970, on a clock Zone hours ahead of UTC all year round.    *)
(***************************************************************************)
EXTENDS Integers, SequencesExt, FiniteSetsExt

CONSTANTS
    Zone,           \* hours ahead of UTC; a current_zone() that changes its
                    \* clocks is outside the module
    FirstYear, LastYear     \* bound: the calendar

\* StringReplace.
StringReplace(source, toReplace, replacement) ==
    [i \in DOMAIN source |->
        IF source[i] = toReplace THEN replacement ELSE source[i]]

\* isupper, tolower and '_' in ASCII.
IsUpper(c) == c \in 65 .. 90
ToLower(c) == IF IsUpper(c) THEN c + 32 ELSE c
Underscore == 95

PascalToUnderline(src) ==
    FoldLeft(LAMBDA result, c :
                IF result # <<>> /\ IsUpper(c)
                THEN result \o <<Underscore, ToLower(c)>>
                ELSE Append(result, ToLower(c)),
             <<>>, src)

\* Of hexadecimal digits, two by two, the last perhaps alone.
HexToBytes(hex) ==
    [k \in 1 .. (Len(hex) + 1) \div 2 |->
        IF 2 * k <= Len(hex) THEN 16 * hex[2 * k - 1] + hex[2 * k] ELSE hex[2 * k - 1]]

\* An int64_t as a function of its bits.
SetBit(number, n) == [number EXCEPT ![n] = TRUE]
ClearBit(number, n) == [number EXCEPT ![n] = FALSE]
ToggleBit(number, n) == [number EXCEPT ![n] = ~@]
CheckBit(number, n) == number[n]

\* getline until the end: what follows the last delimiter is an item unless it
\* is empty.
SplitString(src, delimiter) ==
    LET Item(r, c) == IF c = delimiter THEN [items |-> Append(r.items, r.item), item |-> <<>>]
                      ELSE [r EXCEPT !.item = Append(@, c)]
        rest == FoldLeft(Item, [items |-> <<>>, item |-> <<>>], src) IN
    IF rest.item = <<>> THEN rest.items ELSE Append(rest.items, rest.item)

\* stoi of an item of digits; it throws at an empty one.
Stoi(item) == FoldLeft(LAMBDA n, c : 10 * n + (c - 48), 0, item)

SplitStringToInt(src, delimiter) ==
    LET items == SplitString(src, delimiter) IN
    IF <<>> \in Range(items) THEN "throws"
    ELSE [i \in DOMAIN items |-> Stoi(items[i])]

\* UConfig::Initial: the key of a file, from its path below the directory,
\* which ends in ".json"; a file replaces another of the same key.
ConfigKey(path) == StringReplace(SubSeq(path, 1, Len(path) - 5), 47, 46)

\* FindConfig, after the files have been read in this order: one or -1.
FindConfig(files, key) ==
    LET of == {i \in DOMAIN files : ConfigKey(files[i]) = key} IN
    IF of = {} THEN -1 ELSE Max(of)

----------------------------------------------------------------------------
\* std::chrono: the days since 1970 of a point, and the calendar.
LocalDay(point) == (point + Zone) \div 24

Weekday(day) == (day + 4) % 7
Monday == 1

IsLeap(y) == (y % 4 = 0 /\ y % 100 # 0) \/ y % 400 = 0
MonthDays(y, m) ==
    IF m = 2 THEN IF IsLeap(y) THEN 29 ELSE 28
    ELSE IF m \in {4, 6, 9, 11} THEN 30 ELSE 31

\* The first day of each month of the calendar, from January 1970.
FirstDays ==
    LET Months == (LastYear - FirstYear + 1) * 12
        days[i \in 0 .. Months] ==
            IF i = 0 THEN 0
            ELSE days[i - 1] + MonthDays(FirstYear + (i - 1) \div 12, ((i - 1) % 12) + 1) IN
    days
MonthOf(day) == CHOOSE i \in DOMAIN FirstDays :
    FirstDays[i] <= day /\ (i + 1 \in DOMAIN FirstDays => day < FirstDays[i + 1])

\* floor<years>: a chrono year is 365.2425 days, whatever the calendar.
ChronoYear(point) == ((point + Zone) * 10000) \div (24 * 3652425)

GetDayOfWeek(point) == Weekday(LocalDay(point))

GetDayOfMonth(point) == LocalDay(point) - FirstDays[MonthOf(LocalDay(point))] + 1

GetDayOfYear(point) ==
    LET firstDayOfYear == (ChronoYear(point) * 3652425) \div 10000 IN
    LocalDay(point) - firstDayOfYear + 1

GetDaysGone(former, latter) ==
    IF latter <= former THEN 0 ELSE LocalDay(latter) - LocalDay(former)

GetDayZeroTime(point) == LocalDay(point) * 24 - Zone

WeekStart(point) == LocalDay(point) - ((GetDayOfWeek(point) - Monday) % 7)

IsSameWeek(former, latter) == former < latter /\ WeekStart(former) = WeekStart(latter)

IsSameMonth(former, latter) ==
    former < latter /\ MonthOf(LocalDay(former)) = MonthOf(LocalDay(latter))

\* RandomDraw where the distribution, which has both ends, yields hit.
Weight(pool) == MapThenSumSet(LAMBDA k : pool[k], DOMAIN pool)
Hits(pool) == 0 .. Weight(pool)

RandomDraw(pool, hit) ==
    LET Below(k) == MapThenSumSet(LAMBDA i : pool[i], {i \in DOMAIN pool : i <= k})
        Keys == {k \in DOMAIN pool : hit < Below(k)} IN
    IF Weight(pool) = 0 \/ Keys = {} THEN -1
    ELSE CHOOSE k \in Keys : \A i \in Keys : k <= i

----------------------------------------------------------------------------
\* The items, joined by the delimiter, are the string without a last delimiter.
SplitRestores(src, delimiter) ==
    LET items == SplitString(src, delimiter)
        Join(s, item) == s \o <<delimiter>> \o item
        joined == IF items = <<>> THEN <<>> ELSE FoldLeft(Join, Head(items), Tail(items)) IN
    /\ \A i \in DOMAIN items : delimiter \notin Range(items[i])
    /\ src \in {joined, Append(joined, delimiter)}

\* Days, weeks and months end where a point is their first.
Begins(what, former, latter) ==
    \E d \in LocalDay(former) + 1 .. LocalDay(latter) :
        CASE what = "week" -> Weekday(d) = Monday
          [] what = "month" -> d \in Range(FirstDays)

DatesAgree(former, latter) ==
    /\ GetDayZeroTime(former) \in former - 23 .. former
    /\ LocalDay(GetDayZeroTime(former)) = LocalDay(former)
    /\ GetDaysGone(former, latter) = GetDaysGone(GetDayZeroTime(former), latter)
    /\ former < latter =>
        /\ IsSameWeek(former, latter) <=> ~Begins("week", former, latter)
        /\ IsSameMonth(former, latter) <=> ~Begins("month", former, latter)
        /\ GetDaysGone(former, latter) =
               Cardinality({p \in former + 1 .. latter : GetDayZeroTime(p) = p})

\* The day of the year is the calendar's.
DayOfYearAgrees(point) ==
    LET year == (MonthOf(LocalDay(point)) \div 12) * 12 IN
    GetDayOfYear(point) = LocalDay(point) - FirstDays[year] + 1

\* As many hits draw a key as its weight, and one draws nothing.
DrawsByWeight(pool) ==
    Weight(pool) > 0 =>
        /\ \A k \in DOMAIN pool :
            Cardinality({hit \in Hits(pool) : RandomDraw(pool, hit) = k}) = pool[k]
        /\ {hit \in Hits(pool) : RandomDraw(pool, hit) = -1} = {Weight(pool)}
=============================================================================
