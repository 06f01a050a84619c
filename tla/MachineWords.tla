----------------------------- MODULE MachineWords -----------------------------
(***************************************************************************)
(* The words of the runtime, aint of runtime_common.h.  The low bit tells  *)
(* an integer from a reference; an integer has one bit less than a word.   *)
(***************************************************************************)
EXTENDS Integers

CONSTANT Half       \* there are 2 * Half integers and 4 * Half words; 2^62

\* A character is an integer.
ASSUME HalfAssumption == Half \in Nat /\ Half >= 128

Ints == (-Half)..(Half - 1)
AllWords == (-(2 * Half))..(2 * Half - 1)

\* Two's complement.
Wrapped(x) == ((x + 2 * Half) % (4 * Half)) - 2 * Half

BOX(x) == Wrapped(2 * x + 1)
UNBOX(w) == w \div 2
UNBOXED(w) == w % 2 = 1

\* The integer that is left of x when it is boxed.
AsInt(x) == ((x + Half) % (2 * Half)) - Half

\* (char) x, eight bits and signed.
Characters == (-128)..127
AsChar(x) == ((x + 128) % 256) - 128

Bool(b) == IF b THEN 1 ELSE 0

-----------------------------------------------------------------------------
(* The operators of BINOP on C integers: division goes towards zero.        *)

Ops == {"+", "-", "*", "/", "%", "<", "<=", ">", ">=", "==", "!=", "&&", "!!"}

Abs(x) == IF x < 0 THEN -x ELSE x
Quotient(a, b) == LET q == Abs(a) \div Abs(b)
                  IN  IF (a < 0) = (b < 0) THEN q ELSE -q
Rest(a, b) == a - b * Quotient(a, b)

Divides(op) == op \in {"/", "%"}

Result(op, a, b) ==
  CASE op = "+"  -> a + b
    [] op = "-"  -> a - b
    [] op = "*"  -> a * b
    [] op = "/"  -> Quotient(a, b)
    [] op = "%"  -> Rest(a, b)
    [] op = "<"  -> Bool(a < b)
    [] op = "<=" -> Bool(a <= b)
    [] op = ">"  -> Bool(a > b)
    [] op = ">=" -> Bool(a >= b)
    [] op = "==" -> Bool(a = b)
    [] op = "!=" -> Bool(a # b)
    [] op = "&&" -> Bool(a # 0 /\ b # 0)
    [] op = "!!" -> Bool(a # 0 \/ b # 0)
=============================================================================
