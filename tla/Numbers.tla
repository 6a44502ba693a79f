------------------------------- MODULE Numbers -------------------------------
(***************************************************************************)
(* The numbers the decision modules compute with.  A decimal.Decimal is an *)
(* exact fraction <<n, d>> in lowest terms, rounded only where a module    *)
(* says so; an absent one is None.  A float keeps the decimal text it      *)
(* prints as and the binary fraction it stands for.                        *)
(***************************************************************************)
EXTENDS Integers, Sequences

CONSTANTS FloatBits,   \* bits in a float's significand (53 in Python)
          Base         \* the base decimals are written in (10)

ASSUME NumbersAssumption == FloatBits \in Nat \ {0} /\ Base \in Nat \ {0, 1}

None == <<>>

Gcd(a, b) ==
    LET gcd[p \in Nat \X Nat] == IF p[2] = 0 THEN p[1] ELSE gcd[<<p[2], p[1] % p[2]>>]
    IN  gcd[<<a, b>>]

Rational == Int \X (Nat \ {0})

(* Base to the power k. *)
Power(k) ==
    LET power[n \in 0..k] == IF n = 0 THEN 1 ELSE Base * power[n - 1]
    IN  power[k]

Magnitude(n) == IF n < 0 THEN -n ELSE n

Q(n, d) ==
    LET g == Gcd(Magnitude(n), Magnitude(d))
        s == IF d < 0 THEN -1 ELSE 1
    IN <<s * (n \div g), s * (d \div g)>>

Num(n) == <<n, 1>>
Zero == Num(0)
One == Num(1)

Plus(a, b) == Q(a[1] * b[2] + b[1] * a[2], a[2] * b[2])
Minus(a, b) == Q(a[1] * b[2] - b[1] * a[2], a[2] * b[2])
Times(a, b) == Q(a[1] * b[1], a[2] * b[2])
Over(a, b) == Q(a[1] * b[2], a[2] * b[1])
Lt(a, b) == a[1] * b[2] < b[1] * a[2]
Leq(a, b) == a[1] * b[2] <= b[1] * a[2]
Modulus(a) == <<Magnitude(a[1]), a[2]>>

Floor(a) == a[1] \div a[2]
Ceiling(a) == -((-a[1]) \div a[2])

(* Round half even to a whole number. *)
Nearest(a) ==
    LET low == Floor(a)
        twice == 2 * (a[1] - low * a[2])
    IN CASE twice < a[2] -> low
         [] twice > a[2] -> low + 1
         [] OTHER -> low + (low % 2)

(* Decimal.adjusted: the power of Base of the leading digit.  Bound: the   *)
(* numbers it is asked of have it between -3 and 4.                        *)
Digit(k) == IF k >= 0 THEN Num(Power(k)) ELSE Q(1, Power(-k))
Measurable(x) == x \in Rational /\ Leq(Digit(-3), x) /\ Lt(x, Digit(5))
Adjusted(x) == CHOOSE k \in -3..4 : Leq(Digit(k), x) /\ Lt(x, Digit(k + 1))

(* The float nearest to a positive fraction. *)
Binary(a) ==
    LET e == CHOOSE k \in 0..(FloatBits + 10) :
                 /\ Leq(Num(2 ^ (FloatBits - 1)), Times(a, Num(2 ^ k)))
                 /\ Lt(Times(a, Num(2 ^ k)), Num(2 ^ FloatBits))
    IN Q(Nearest(Times(a, Num(2 ^ e))), 2 ^ e)

Float(a) == [text |-> a, exact |-> Binary(a)]
=============================================================================
