----------------------------- MODULE CommandLine -----------------------------
(***************************************************************************)
(* parse_opt of motif_1.c, and the selection of the drivers it names       *)
(* (storage.c, prng.c) and of the log level (log.c).  An option is a pair  *)
(* of its letter and its argument: what atoi makes of it, or a name.       *)
(***************************************************************************)
EXTENDS Integers

CONSTANT UINTS  \* how many numbers an unsigned holds (2 ^ 32)

ASSUME CommandLineAssumption == UINTS \in Nat \ {0}

Unsigned(n) == n % UINTS

\* log_level_t
LogLevel == [TRACE |-> 0, DEBUG |-> 1, INFO |-> 2, WARN |-> 3, ERROR |-> 4, FATAL |-> 5]

\* STORAGE_IMPL_STR and the others, whose lists the selectors' tables repeat.
Names == [S |-> {"DEBUG", "DIRTREE", "RADOS"},
          r |-> {"DEBUG", "XORSHIFT"},
          s |-> {"DEBUG"},
          v |-> DOMAIN LogLevel]

\* The ordinal find_match gives a name that is not in the list: -1.
NoMatch == "-1"

FindMatch(key, name) == IF name \in Names[key] THEN name ELSE NoMatch

\* ARGP_KEY_INIT: the defaults.  The counts and the seed have none: they are
\* what the stack holds.
Defaults(garbage) ==
  [S |-> "DEBUG", r |-> "DEBUG", s |-> "DEBUG", v |-> "DEBUG", p |-> 1,
   c |-> garbage.c, n |-> garbage.n, R |-> garbage.R]

Numbers == {"c", "n", "p", "R"}

\* argp_failure: the program exits.  task_count and seed are signed.  The
\* counts are unsigned, so that only 0 is not "greater than 0", and so are the
\* enumerations (their enumerators are not negative): -1 is never below 0.
Rejected(o) ==
  \/ o[1] \in {"p", "R"} /\ o[2] <= 0
  \/ o[1] \in {"c", "n"} /\ Unsigned(o[2]) = 0

\* An option that is accepted: the last one wins.
ParseOpt(args, o) ==
  [args EXCEPT ![o[1]] = CASE o[1] \in {"c", "n"} -> Unsigned(o[2])
                           [] o[1] \in {"p", "R"} -> o[2]
                           [] OTHER -> FindMatch(o[1], o[2])]

\* An implementation that is not in the table leaves the one that is set, which
\* is the first.
Select(key, impl) == IF impl \in Names[key] THEN impl ELSE "DEBUG"

StorageSelect(impl) == Select("S", impl)
PrngSelect(impl) == Select("r", impl)

\* log_set_level: -1 is below every level.
LogSetLevel(name) == IF name = NoMatch THEN -1 ELSE LogLevel[name]

\* log_log writes a line of a level that is not below the one set.
Logged(severity, level) == LogLevel[severity] >= level
=============================================================================
