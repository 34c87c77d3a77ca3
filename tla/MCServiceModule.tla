--------------------------- MODULE MCServiceModule ---------------------------
(***************************************************************************)
(* Small instances of ServiceModule: two names, of which one is a service  *)
(* that updates per tick, with and without a core service.                 *)
(***************************************************************************)
EXTENDS ServiceModule, TLC

CONSTANTS plain, ticking

NoCore == <<>>
OneCore == <<plain>>
RepeatedCore == <<plain, plain>>

\* A bound: behaviours are followed until Stop is called.
UntilStop == mState # "STOPPED"

CallerSymmetry == Permutations(Callers)
=============================================================================
