----------------------------- MODULE Calculation -------------------------------
(***************************************************************************)
(* What the calculators of the repository plugins are made of.  A          *)
(* calculator is given raw values, the newest first, each with its time    *)
(* stamp, and returns a result or -1.  A raw value is a number in network  *)
(* byte order or a string of numbers between separators.                   *)
(***************************************************************************)
EXTENDS Integers, Sequences, FiniteSetsExt

CONSTANT Base    \* bound: of a digit; a number has two, and Swap changes them

ASSUME CalculationAssumption == Base \in Nat \ {0}

Word  == Base * Base       \* raw numbers are below
ULong == Word * Word       \* bound: stands for 2^64, for what is calculated

\* htonl, ntohl, htonll, ntohll and the like of a little-endian machine.
Swap(n) == (n % Base) * Base + n \div Base

Minus(m, n) == (m - n) % ULong

NoResult  == <<>>    \* -1
Result(v) == <<v>>

Newest(mv) == mv[1].data
Oldest(mv) == mv[Len(mv)].data
Elapsed(mv) == mv[1].ts - mv[Len(mv)].ts

\* The forms of a calculator.
Point(mv, Get(_)) == IF Len(mv) = 1 THEN Result(Get(Newest(mv))) ELSE NoResult

Change(mv, Get(_)) ==
  CASE Len(mv) = 0 -> NoResult
    [] Len(mv) = 1 -> Result(Get(Newest(mv)))
    [] OTHER -> Result(Minus(Get(Newest(mv)), Get(Oldest(mv))))

Rate(mv, Get(_)) ==
  IF Len(mv) >= 2 THEN Result(Minus(Get(Newest(mv)), Get(Oldest(mv))) \div Elapsed(mv)) ELSE NoResult

FloatRate(mv, Get(_)) ==
  IF Len(mv) >= 2 THEN Result(<<Get(Newest(mv)) - Get(Oldest(mv)), Elapsed(mv)>>) ELSE NoResult

Latest(mv, Get(_)) == IF Len(mv) >= 1 THEN Result(Get(Newest(mv))) ELSE NoResult

Average(mv, Get(_)) ==
  IF Len(mv) >= 2
  THEN Result(<<MapThenSumSet(LAMBDA i : Get(mv[i].data), DOMAIN mv), Len(mv)>>)
  ELSE NoResult

\* A percentage of what passed since start, or altogether if there is no start.
Nothing == <<>>
Since(start, end, Get(_)) == IF start = Nothing THEN Get(end) ELSE Get(end) - Get(start)
Share(mv, Perc(_, _)) ==
  CASE Len(mv) = 0 -> NoResult
    [] Len(mv) = 1 -> Result(Perc(Nothing, Newest(mv)))
    [] OTHER -> Result(Perc(Oldest(mv), Newest(mv)))

\* Fractions, for floating point numbers; one over 0 is not a number.
Zero           == <<0, 1>>
Undefined(f)   == f[2] = 0
Abs(n)         == IF n < 0 THEN -n ELSE n
gcd[m \in Nat, n \in Nat] == IF n = 0 THEN m ELSE gcd[n, m % n]
Reduced(f)     ==
  IF Undefined(f) THEN f
  ELSE LET d == gcd[Abs(f[1]), Abs(f[2])] IN  <<f[1] \div d, f[2] \div d>>
NotNegative(f) == IF f[1] * f[2] < 0 THEN Zero ELSE f
Plus(f, g)     == Reduced(<<f[1] * g[2] + g[1] * f[2], f[2] * g[2]>>)
Times(f, g)    == Reduced(<<f[1] * g[1], f[2] * g[2]>>)
Remainder(f)   == Reduced(<<100 * f[2] - f[1], f[2]>>)
SameFraction(f, g) == f[1] * g[2] = g[1] * f[2]
IsPercentage(f) == 0 <= f[1] * f[2] /\ f[1] * f[2] <= 100 * f[2] * f[2]

\* A row of a plugin's table metricCalcDef, with the value for given raw values.
Row(type, data, value) == [type |-> type, data |-> data, value |-> value]
=============================================================================
