------------------------------ MODULE Criteria -------------------------------
(***************************************************************************)
(* The comparison of a value with the one a subscription asks for          *)
(* (repos.c): numbers are compared by the sign of their difference, which  *)
(* is kept in an int whatever it was calculated from.                      *)
(***************************************************************************)
EXTENDS Integers

CONSTANTS IntWidth,    \* bits of an int
          LongWidth    \* bits of a long long, of which an int keeps the lower ones

ASSUME CriteriaAssumption == IntWidth \in Nat \ {0} /\ LongWidth \in Nat /\ LongWidth > IntWidth

Signed(width) == -(2 ^ (width - 1)) .. 2 ^ (width - 1) - 1

\* An integer assigned to an int: the overflow of the difference of two long
\* longs leaves the lower bits as they are.
ToInt(n) == CHOOSE i \in Signed(IntWidth) : (n - i) % 2 ^ IntWidth = 0

\* A double assigned to an int loses its fraction; doubles are halves here.
Whole(h) == IF h >= 0 THEN h \div 2 ELSE -((-h) \div 2)

\* C leaves open what an int gets that cannot hold it; x86 stores the least int.
FromHalves(h) ==
  IF Whole(h) \in Signed(IntWidth) THEN Whole(h) ELSE -(2 ^ (IntWidth - 1))

SUBSCR_OP == {"ANY", "EQ", "NE", "GT", "GE", "LT", "LE", "unknown"}

\* The difference of the subscription's value ls and the metric's value lv.
compstate(type, ls, lv) ==
  IF type = "float" THEN FromHalves(ls - lv) ELSE ToInt(ls - lv)

\* Mutant: the strict operators take equal values too.
CompliesOrEqual(op, state) ==
  \/ op = "EQ" /\ state = 0
  \/ op = "NE" /\ state # 0
  \/ op \in {"GT", "GE"} /\ state >= 0
  \/ op \in {"LT", "LE"} /\ state <= 0

Complies(op, state) ==
  \/ op = "EQ" /\ state = 0
  \/ op = "NE" /\ state # 0
  \/ op = "GT" /\ state > 0
  \/ op = "GE" /\ state >= 0
  \/ op = "LT" /\ state < 0
  \/ op = "LE" /\ state <= 0

matchValue(type, op, ls, lv) == op = "ANY" \/ Complies(op, compstate(type, ls, lv))

-----------------------------------------------------------------------------
\* What each operator asks of the subscription's and the metric's value.
Holds(op, ls, lv) ==
  CASE op = "ANY" -> TRUE
    [] op = "EQ"  -> ls = lv
    [] op = "NE"  -> ls # lv
    [] op = "GT"  -> ls > lv
    [] op = "GE"  -> ls >= lv
    [] op = "LT"  -> ls < lv
    [] op = "LE"  -> ls <= lv
    [] OTHER      -> FALSE

\* The pairs the int can tell apart: integers no further from each other than
\* an int reaches, and floats only if they are equal or at least one (two
\* halves) apart.
ToldApart(type, ls, lv) ==
  IF type = "float"
  THEN ls = lv \/ (ls - lv \notin -1..1 /\ Whole(ls - lv) \in Signed(IntWidth))
  ELSE ls - lv \in Signed(IntWidth)
=============================================================================
