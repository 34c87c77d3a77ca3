-------------------------------- MODULE Logger --------------------------------
(***************************************************************************)
(* ULoggerModule (src/logger/LoggerModule.cpp): services create and give   *)
(* up loggers by name, which are counted here and registered with spdlog.  *)
(* The look at the count takes no lock, and spdlog is called outside of    *)
(* the lock, so that each call has two steps.                              *)
(*                                                                         *)
(* Names do not touch each other: a state is that of one name, with what   *)
(* each caller is about to do with it.                                     *)
(***************************************************************************)
EXTENDS Naturals, FiniteSets

CONSTANT Callers

Init ==
    [stopped |-> FALSE, mUseCount |-> 0, registered |-> FALSE,
     at |-> [c \in Callers |-> "out"],
     threw |-> {}, held |-> 0]  \* callers that got an exception; what they hold

Goes(s, c, to) == [s EXCEPT !.at[c] = to]

\* TryCreateLogger: contains() ...
Look(s, c) ==
    IF s.stopped THEN s
    ELSE Goes(s, c, IF s.mUseCount = 0 THEN "make" ELSE "count")

\* ... daily_logger_mt, which throws if the name is registered, ...
Make(s, c) ==
    IF s.registered THEN [Goes(s, c, "out") EXCEPT !.threw = @ \cup {c}]
    ELSE [Goes(s, c, "count") EXCEPT !.registered = TRUE]

\* ... and mUseCount[name]++ under the lock.
Count(s, c) == [Goes(s, c, "out") EXCEPT !.mUseCount = @ + 1, !.held = @ + 1]

TryCreateLogger(s, c) ==
    CASE s.at[c] = "out" -> {Look(s, c)}
      [] s.at[c] = "make" -> {Make(s, c)}
      [] s.at[c] = "count" -> {Count(s, c)}
      [] OTHER -> {}

\* TryDestroyLogger by one that holds it: the count under the lock, and ...
Uncount(s, c) ==
    IF s.mUseCount = 0 THEN s
    ELSE [Goes(s, c, IF s.mUseCount = 1 THEN "drop" ELSE "out")
            EXCEPT !.mUseCount = @ - 1, !.held = @ - 1]

\* ... spdlog::drop behind it.
Drop(s, c) == [Goes(s, c, "out") EXCEPT !.registered = FALSE]

TryDestroyLogger(s, c) ==
    CASE s.at[c] = "out" /\ s.held > 0 -> {Uncount(s, c)}
      [] s.at[c] = "drop" -> {Drop(s, c)}
      [] OTHER -> {}

GetLoggerUseCount(s) == s.mUseCount

\* Stop drops the loggers and keeps the counts.
Stop(s) ==
    [s EXCEPT !.stopped = TRUE, !.registered = @ /\ s.mUseCount = 0]

\* What n steps of them lead to: calls may overlap or not, and somebody may
\* destroy loggers or not (nothing in the repository does).
Free(s, c) == \A d \in Callers \ {c} : s.at[d] = "out"

After(overlap, destroy, steps) ==
    LET Steps(s) == UNION {
            IF overlap \/ Free(s, c)
            THEN TryCreateLogger(s, c) \cup
                 (IF destroy THEN TryDestroyLogger(s, c) ELSE {})
            ELSE {} : c \in Callers}
        after[n \in 0 .. steps] ==
            IF n = 0 THEN {Init}
            ELSE after[n - 1] \cup UNION {Steps(s) : s \in after[n - 1]} IN
    after[steps]

----------------------------------------------------------------------------
\* Whoever holds a logger finds it registered, until the module stops.
HeldIsRegistered(s) == GetLoggerUseCount(s) = s.held /\ (s.held > 0 => s.registered)

\* Nobody is refused.
NobodyThrows(s) == s.threw = {}

\* After Stop no logger is left that somebody holds, and none is made.
StopDrops(s) ==
    LET t == Stop(s) IN
    /\ s.held > 0 => ~t.registered
    /\ \A c \in Callers : s.at[c] = "out" => TryCreateLogger(t, c) = {t}
=============================================================================
