---------------------------- MODULE BancorProofs ----------------------------
(***************************************************************************)
(* What the conversions of Bancor keep.  The results of its curves are     *)
(* numbers that exist, as the least of a set of naturals; with them each   *)
(* conversion is one of three effects on the reserve (units are issued,    *)
(* retired or claimed), whose proofs are those of ReserveProofs.           *)
(***************************************************************************)
EXTENDS Bancor, ReserveProofs

-----------------------------------------------------------------------------
(* Products.                                                                *)

LEMMA Product ==
  ASSUME NEW a \in Nat, NEW b \in Nat
  PROVE  a * b \in Nat
  OBVIOUS

\* A smaller product with the same positive factor has the smaller other factor.
LEMMA FactorBelow ==
  ASSUME NEW a \in Nat, NEW b \in Nat, NEW c \in Nat \ {0}, a * c <= b * c
  PROVE  a <= b
<1>1. ASSUME a > b PROVE FALSE
  <2>1. PICK k \in Nat : a = b + k + 1
    <3>1. a - b - 1 \in Nat /\ a = b + (a - b - 1) + 1
      BY <1>1
    <3> QED
      BY <3>1
  <2>2. a * c = b * c + k * c + c
    BY <2>1
  <2>3. k * c \in Nat /\ b * c \in Nat
    BY Product
  <2> QED
    BY <2>2, <2>3
<1> QED
  BY <1>1

\* A product grows with a factor.
LEMMA ProductMono ==
  ASSUME NEW a \in Nat, NEW b \in Nat, NEW c \in Nat, a <= b
  PROVE  a * c <= b * c /\ c * a <= c * b
<1>1. PICK k \in Nat : b = a + k
  <2>1. b - a \in Nat /\ b = a + (b - a)
    OBVIOUS
  <2> QED
    BY <2>1
<1>2. b * c = a * c + k * c /\ c * b = c * a + c * k
  BY <1>1
<1>3. k * c \in Nat /\ c * k \in Nat /\ a * c \in Nat /\ c * a \in Nat
  BY Product
<1> QED
  BY <1>2, <1>3

LEMMA ProductStrict ==
  ASSUME NEW a \in Nat, NEW b \in Nat, NEW c \in Nat \ {0}, a < b
  PROVE  a * c < b * c /\ c * a < c * b
<1>1. (a + 1) * c <= b * c /\ c * (a + 1) <= c * b
  BY ProductMono
<1>2. (a + 1) * c = a * c + c /\ c * (a + 1) = c * a + c
  OBVIOUS
<1>3. a * c \in Nat /\ c * a \in Nat /\ b * c \in Nat /\ c * b \in Nat
  BY Product
<1> QED
  BY <1>1, <1>2, <1>3

\* A strictly smaller product with the same factor has the smaller other factor.
LEMMA FactorStrict ==
  ASSUME NEW a \in Nat, NEW b \in Nat, NEW c \in Nat, a * c < b * c
  PROVE  a < b
<1>1. ASSUME b <= a PROVE FALSE
  <2>1. b * c <= a * c
    BY <1>1, ProductMono
  <2>2. a * c \in Nat /\ b * c \in Nat
    BY Product
  <2> QED
    BY <2>1, <2>2
<1> QED
  BY <1>1

LEMMA SquareMono ==
  ASSUME NEW a \in Nat, NEW b \in Nat, a <= b
  PROVE  a * a <= b * b
<1>1. a * a <= b * a /\ b * a <= b * b
  BY ProductMono
<1>2. a * a \in Nat /\ b * a \in Nat /\ b * b \in Nat
  BY Product
<1> QED
  BY <1>1, <1>2

\* A smaller square is of a smaller number.
LEMMA SquareBelow ==
  ASSUME NEW a \in Nat, NEW b \in Nat, a * a < b * b
  PROVE  a < b
<1>1. ASSUME b <= a PROVE FALSE
  <2>1. b * b <= a * a
    BY <1>1, SquareMono
  <2>2. a * a \in Nat /\ b * b \in Nat
    BY Product
  <2> QED
    BY <2>1, <2>2
<1> QED
  BY <1>1

-----------------------------------------------------------------------------
(* Whole and partial amounts.                                               *)

\* The numbers s * (p/q)^(1/i) - s of Bancor that are defined.
Number(x) == /\ x.s \in Nat /\ x.p \in Nat /\ x.q \in Nat \ {0}
             /\ x.i \in {1, 2}

LEMMA AtLeastLinear ==
  ASSUME NEW x, Number(x), x.i = 1, NEW a \in Nat, NEW b \in Nat
  PROVE  AtLeast(x, a, b) <=> x.q * (x.s * b + a) <= x.s * x.p * b
  BY DEF Number, AtLeast, Power

LEMMA AtLeastSquare ==
  ASSUME NEW x, Number(x), x.i = 2, NEW a \in Nat, NEW b \in Nat
  PROVE  AtLeast(x, a, b) <=>
           x.q * ((x.s * b + a) * (x.s * b + a)) <= x.s * x.s * x.p * (b * b)
<1>1. x.i # 1
  BY DEF Number
<1> QED
  BY <1>1 DEF Number, AtLeast, Power

LEMMA NumberFields ==
  ASSUME NEW x, Number(x)
  PROVE  /\ x.s \in Nat /\ x.p \in Nat /\ x.q \in Nat /\ x.q >= 1
         /\ x.s * x.p \in Nat /\ x.s * x.s \in Nat /\ x.s * x.s * x.p \in Nat
<1>1. x.s \in Nat /\ x.p \in Nat /\ x.q \in Nat /\ x.q >= 1
  BY DEF Number
<1> QED
  BY <1>1, Product

\* Every number is at least nothing, if it is not negative, and is exceeded.
LEMMA AtLeastNothing ==
  ASSUME NEW x, Number(x), x.q <= x.p
  PROVE  AtLeast(x, 0, 1)
<1> DEFINE s == x.s
           p == x.p
           q == x.q
<1>1. s \in Nat /\ p \in Nat /\ q \in Nat /\ q <= p
  BY NumberFields
<1>2. CASE x.i = 1
  <2>1. q * s <= p * s
    BY <1>1, ProductMono
  <2>2. q * (s * 1 + 0) = q * s /\ s * p * 1 = p * s
    BY <1>1
  <2> QED
    BY <1>2, <2>1, <2>2, AtLeastLinear
<1>3. CASE x.i = 2
  <2>1. s * s \in Nat
    BY <1>1, Product
  <2>2. q * (s * s) <= p * (s * s)
    BY <1>1, <2>1, ProductMono
  <2>3. q * ((s * 1 + 0) * (s * 1 + 0)) = q * (s * s) /\ s * s * p * (1 * 1) = p * (s * s)
    BY <1>1
  <2> QED
    BY <1>3, <2>2, <2>3, AtLeastSquare
<1> QED
  BY <1>2, <1>3 DEF Number

LEMMA Exceeded ==
  ASSUME NEW x, Number(x)
  PROVE  ~AtLeast(x, x.s * x.p + 1, 1)
<1> DEFINE s == x.s
           p == x.p
           q == x.q
           n == s * p
           b == s * 1 + (n + 1)
<1>1. /\ s \in Nat /\ p \in Nat /\ q \in Nat /\ 1 <= q /\ n \in Nat
      /\ n + 1 \in Nat /\ b \in Nat /\ n < b /\ s <= b /\ b >= 1
  BY NumberFields
<1>2. CASE x.i = 1
  <2>1. 1 * b <= q * b
    BY <1>1, ProductMono
  <2>2. n * 1 = n /\ 1 * b = b /\ q * b \in Nat
    BY <1>1, Product
  <2>3. ~(q * b <= n * 1)
    BY <1>1, <2>1, <2>2
  <2> QED
    BY <1>1, <1>2, <2>3, AtLeastLinear
<1>3. CASE x.i = 2
  <2>1. b * b \in Nat /\ q * (b * b) \in Nat /\ s * n \in Nat /\ s * b \in Nat
    BY <1>1, Product
  <2>2. 1 * (b * b) <= q * (b * b)
    BY <1>1, <2>1, ProductMono
  <2>3. s * b <= b * b
    BY <1>1, ProductMono
  <2>4. s * n <= s * b
    BY <1>1, ProductMono
  <2>5. s * n < b * b
    <3>1. CASE s = 0
      <4>1. s * n = 0 /\ 1 <= b * b
        <5>1. 1 * 1 <= b * b
          BY <1>1, SquareMono
        <5> QED
          BY <1>1, <3>1, <5>1
      <4> QED
        BY <2>1, <4>1
    <3>2. CASE s # 0
      <4>1. s * n < s * b
        BY <1>1, <3>2, ProductStrict
      <4> QED
        BY <2>1, <2>3, <4>1
    <3> QED
      BY <3>1, <3>2
  <2>6. s * s * p * (1 * 1) = s * n /\ 1 * (b * b) = b * b
    BY <1>1, <2>1
  <2>7. ~(q * (b * b) <= s * s * p * (1 * 1))
    BY <2>1, <2>2, <2>5, <2>6
  <2> QED
    BY <1>1, <1>3, <2>7, AtLeastSquare
<1> QED
  BY <1>2, <1>3 DEF Number

\* The whole part of a number exists and is the one that is meant.
LEMMA WholePart ==
  ASSUME NEW x, Number(x), x.q <= x.p
  PROVE  /\ Whole(x) \in Nat
         /\ AtLeast(x, Whole(x), 1) /\ ~AtLeast(x, Whole(x) + 1, 1)
<1> DEFINE enough == {n \in Nat : ~AtLeast(x, n + 1, 1)}
           bound == x.s * x.p
<1>1. bound \in Nat /\ bound \in enough
  BY NumberFields, Exceeded
<1>2. PICK k \in enough : \A m \in enough : k <= m
  <2>1. enough \in SUBSET Nat /\ enough # {}
    BY <1>1
  <2> HIDE DEF enough
  <2> QED
    BY <2>1, LeastNatural
<1>3. k \in Nat /\ k <= bound /\ ~AtLeast(x, k + 1, 1)
  BY <1>1, <1>2
<1>4. AtLeast(x, k, 1)
  <2>1. CASE k = 0
    BY <2>1, AtLeastNothing
  <2>2. CASE k # 0
    <3>1. k - 1 \in Nat /\ ~(k <= k - 1)
      BY <1>3, <2>2
    <3>2. k - 1 \notin enough
      BY <1>2, <3>1
    <3>3. AtLeast(x, (k - 1) + 1, 1)
      BY <3>1, <3>2
    <3>4. (k - 1) + 1 = k
      BY <1>3
    <3> QED
      BY <3>3, <3>4
  <2> QED
    BY <2>1, <2>2
<1> HIDE DEF enough
<1>5. k \in 0 .. bound
  BY <1>1, <1>3
<1>6. \E n \in 0 .. bound : AtLeast(x, n, 1) /\ ~AtLeast(x, n + 1, 1)
  BY <1>3, <1>4, <1>5
<1>7. Whole(x) \in 0 .. bound /\ AtLeast(x, Whole(x), 1) /\ ~AtLeast(x, Whole(x) + 1, 1)
  BY <1>6 DEF Whole
<1> QED
  BY <1>1, <1>7

\* What is paid in full pays for a part.
LEMMA AtLeastScaled ==
  ASSUME NEW x, Number(x), NEW n \in Nat, AtLeast(x, n, 1), NEW total \in Nat
  PROVE  AtLeast(x, total * n, total)
<1> DEFINE s == x.s
           p == x.p
           q == x.q
           t == total
           b == s + n
<1>1. /\ s \in Nat /\ p \in Nat /\ q \in Nat /\ t \in Nat /\ t * n \in Nat /\ b \in Nat
  BY NumberFields, Product
<1>2. s * t + t * n = t * b /\ s * 1 + n = b
  BY <1>1
<1>3. CASE x.i = 1
  <2>1. q * b <= s * p
    <3>1. q * (s * 1 + n) <= s * p * 1
      BY <1>3, AtLeastLinear
    <3>2. s * p * 1 = s * p
      BY <1>1
    <3> QED
      BY <1>2, <3>1, <3>2
  <2>2. q * b \in Nat /\ s * p \in Nat
    BY <1>1, Product
  <2>3. (q * b) * t <= (s * p) * t
    BY <1>1, <2>1, <2>2, ProductMono
  <2>4. q * (t * b) = (q * b) * t
    BY <1>1
  <2>5. q * (s * t + t * n) <= s * p * t
    BY <1>2, <2>3, <2>4
  <2> QED
    BY <1>1, <1>3, <2>5, AtLeastLinear
<1>4. CASE x.i = 2
  <2>1. q * (b * b) <= s * s * p
    <3>1. q * ((s * 1 + n) * (s * 1 + n)) <= s * s * p * (1 * 1)
      BY <1>4, AtLeastSquare
    <3>2. s * s * p * (1 * 1) = s * s * p
      BY <1>1
    <3> QED
      BY <1>2, <3>1, <3>2
  <2>2. b * b \in Nat /\ t * t \in Nat /\ q * (b * b) \in Nat /\ s * s * p \in Nat
    BY <1>1, Product, NumberFields
  <2>3. (q * (b * b)) * (t * t) <= (s * s * p) * (t * t)
    BY <2>1, <2>2, ProductMono
  <2>4. q * ((t * b) * (t * b)) = (q * (b * b)) * (t * t)
    BY <1>1
  <2>5. q * ((s * t + t * n) * (s * t + t * n)) <= s * s * p * (t * t)
    BY <1>2, <2>3, <2>4
  <2> QED
    BY <1>1, <1>4, <2>5, AtLeastSquare
<1> QED
  BY <1>3, <1>4 DEF Number

\* The part of a total that pays for the whole part of what it would buy.
LEMMA PartExists ==
  ASSUME NEW x, Number(x), x.q <= x.p, NEW total \in Nat, total > 0, Whole(x) > 0
  PROVE  /\ Part(total, x) \in 1 .. total
         /\ AtLeast(x, total * Whole(x), Part(total, x))
         /\ \/ Part(total, x) = 1
            \/ ~AtLeast(x, total * Whole(x), Part(total, x) - 1)
<1> DEFINE W == Whole(x)
           enough == {m \in Nat : m > 0 /\ AtLeast(x, total * W, m)}
           paid(m) == /\ AtLeast(x, total * W, m)
                      /\ m = 1 \/ ~AtLeast(x, total * W, m - 1)
<1>1. W \in Nat /\ AtLeast(x, W, 1)
  BY WholePart
<1> HIDE DEF W
<1>2. total \in enough
  BY <1>1, AtLeastScaled
<1>3. PICK k \in enough : \A m \in enough : k <= m
  <2>1. enough \in SUBSET Nat /\ enough # {}
    BY <1>2
  <2> HIDE DEF enough
  <2> QED
    BY <2>1, LeastNatural
<1>4. k \in 1 .. total
  BY <1>2, <1>3
<1>5. paid(k)
  <2>1. CASE k = 1
    BY <1>3, <2>1
  <2>2. CASE k # 1
    <3>1. k - 1 \in Nat /\ k - 1 > 0 /\ ~(k <= k - 1)
      BY <1>4, <2>2
    <3>2. k - 1 \notin enough
      BY <1>3, <3>1
    <3> QED
      BY <1>3, <3>1, <3>2
  <2> QED
    BY <2>1, <2>2
<1>6. Part(total, x) = CHOOSE m \in 1 .. total : paid(m)
  <2>1. ~(total = 0 \/ W = 0)
    BY <1>1 DEF W
  <2> QED
    BY <2>1 DEF Part, W
<1> HIDE DEF paid
<1>7. Part(total, x) \in 1 .. total /\ paid(Part(total, x))
  BY <1>4, <1>5, <1>6
<1> QED
  BY <1>7 DEF paid, W

LEMMA PartType ==
  ASSUME NEW x, Number(x), x.q <= x.p, NEW total \in Nat
  PROVE  /\ Whole(x) \in Nat
         /\ Part(total, x) \in Nat /\ Part(total, x) <= total
         /\ total > 0 /\ Whole(x) > 0 => Part(total, x) > 0
<1>1. Whole(x) \in Nat
  BY WholePart
<1>2. CASE total = 0 \/ Whole(x) = 0
  BY <1>1, <1>2 DEF Part
<1>3. CASE total # 0 /\ Whole(x) # 0
  BY <1>1, <1>3, PartExists
<1> QED
  BY <1>1, <1>2, <1>3

-----------------------------------------------------------------------------
(* Prices.                                                                  *)

LEMMA FractionNumber ==
  ASSUME NEW n \in Nat, NEW d \in Nat \ {0}
  PROVE  /\ Number(Fraction(n, d)) /\ Fraction(n, d).q <= Fraction(n, d).p
         /\ Fraction(n, d).i = 1 /\ Fraction(n, d).s = 1
         /\ Fraction(n, d).p = n + d /\ Fraction(n, d).q = d
  BY DEF Fraction, Number

\* A fraction compared with another.
LEMMA FractionAtLeast ==
  ASSUME NEW n \in Nat, NEW d \in Nat \ {0}, NEW a \in Nat, NEW b \in Nat
  PROVE  AtLeast(Fraction(n, d), a, b) <=> a * d <= n * b
<1> DEFINE x == Fraction(n, d)
<1>1. /\ Number(x) /\ x.i = 1 /\ x.s = 1 /\ x.p = n + d /\ x.q = d
  BY FractionNumber
<1> HIDE DEF x
<1>2. AtLeast(x, a, b) <=> d * (1 * b + a) <= 1 * (n + d) * b
  BY <1>1, AtLeastLinear
<1>3. d * (1 * b + a) = d * b + a * d /\ 1 * (n + d) * b = d * b + n * b
  OBVIOUS
<1>4. d * b \in Nat /\ a * d \in Nat /\ n * b \in Nat
  BY Product
<1> QED
  BY <1>2, <1>3, <1>4 DEF x

\* The whole part of a fraction.
LEMMA FractionWhole ==
  ASSUME NEW n \in Nat, NEW d \in Nat \ {0}
  PROVE  LET W == Whole(Fraction(n, d))
         IN  W \in Nat /\ W * d <= n /\ n < (W + 1) * d
<1> DEFINE x == Fraction(n, d)
           W == Whole(x)
<1>1. Number(x) /\ x.q <= x.p
  BY FractionNumber
<1> HIDE DEF x
<1>2. W \in Nat /\ AtLeast(x, W, 1) /\ ~AtLeast(x, W + 1, 1)
  BY <1>1, WholePart
<1> HIDE DEF W
<1>3. W * d <= n * 1 /\ ~((W + 1) * d <= n * 1)
  BY <1>2, FractionAtLeast DEF x
<1>4. W * d \in Nat /\ (W + 1) * d \in Nat
  BY <1>2, Product
<1> QED
  BY <1>2, <1>3, <1>4 DEF W, x

\* Where t would buy t * a/b, of which W is the whole part, what is paid for W
\* is W * b/a, rounded up.
LEMMA FractionPart ==
  ASSUME NEW t \in Nat \ {0}, NEW a \in Nat \ {0}, NEW b \in Nat \ {0},
         Whole(Fraction(t * a, b)) > 0
  PROVE  LET W == Whole(Fraction(t * a, b))
             m == Part(t, Fraction(t * a, b))
         IN  /\ m \in 1 .. t
             /\ W * b <= m * a
             /\ m = 1 \/ (m - 1) * a < W * b
<1> DEFINE x == Fraction(t * a, b)
           W == Whole(x)
           m == Part(t, x)
<1>1. t * a \in Nat
  BY Product
<1>2. Number(x) /\ x.q <= x.p
  BY <1>1, FractionNumber
<1>3. \A u, v \in Nat : AtLeast(x, u, v) <=> u * b <= (t * a) * v
  BY <1>1, FractionAtLeast
<1> HIDE DEF x
<1>4. /\ W \in Nat /\ m \in 1 .. t
      /\ AtLeast(x, t * W, m) /\ (m = 1 \/ ~AtLeast(x, t * W, m - 1))
  BY <1>2, WholePart, PartExists DEF x
<1> HIDE DEF W, m
<1>5. /\ t * W \in Nat /\ m \in Nat /\ m - 1 \in Nat
      /\ W * b \in Nat /\ m * a \in Nat /\ (m - 1) * a \in Nat
  BY <1>4, Product
<1>6. (t * W) * b <= (t * a) * m /\ (m = 1 \/ ~((t * W) * b <= (t * a) * (m - 1)))
  BY <1>3, <1>4, <1>5
<1>7. /\ (t * W) * b = (W * b) * t /\ (t * a) * m = (m * a) * t
      /\ (t * a) * (m - 1) = ((m - 1) * a) * t
  BY <1>4
<1>8. W * b <= m * a
  BY <1>5, <1>6, <1>7, FactorBelow
<1>9. m = 1 \/ (m - 1) * a < W * b
  <2>1. ASSUME W * b <= (m - 1) * a
        PROVE  (W * b) * t <= ((m - 1) * a) * t
    BY <1>5, <2>1, ProductMono
  <2> QED
    BY <1>5, <1>6, <1>7, <2>1
<1> QED
  BY <1>4, <1>8, <1>9 DEF x, W, m

LEMMA CurveSmartNumber ==
  ASSUME NEW S \in Nat, NEW C \in Nat \ {0}, NEW i \in {1, 2}, NEW q \in Nat
  PROVE  /\ Number(CurveSmart(S, C, i, q)) /\ CurveSmart(S, C, i, q).q <= CurveSmart(S, C, i, q).p
         /\ CurveSmart(S, C, i, q).s = S /\ CurveSmart(S, C, i, q).i = i
         /\ CurveSmart(S, C, i, q).p = C + q /\ CurveSmart(S, C, i, q).q = C
  BY DEF CurveSmart, Number

LEMMA PowerType ==
  ASSUME NEW S \in Nat \ {0}, NEW i \in {1, 2}
  PROVE  Power(S, i) \in Nat \ {0}
<1>1. CASE i = 1
  BY <1>1 DEF Power
<1>2. CASE i = 2
  <2>1. 1 * 1 <= S * S
    BY SquareMono
  <2> QED
    BY <1>2, <2>1 DEF Power
<1> QED
  BY <1>1, <1>2

LEMMA PowerInt ==
  ASSUME NEW n \in Int, NEW i \in {1, 2}
  PROVE  Power(n, i) \in Int
  BY DEF Power

\* What smart tokens are worth at the curve, as long as there are any.
LEMMA CurveCoreFraction ==
  ASSUME NEW S \in Nat \ {0}, NEW C \in Int, NEW i \in {1, 2}, NEW k \in Nat
  PROVE  /\ CurveChange(S, C, i, k) \in Int
         /\ \E n \in Nat : /\ CurveCore(S, C, i, k) = Fraction(n, Power(S, i))
                           /\ n = IF CurveChange(S, C, i, k) > 0 THEN 0 ELSE -CurveChange(S, C, i, k)
<1> DEFINE dC == CurveChange(S, C, i, k)
           n == IF dC > 0 THEN 0 ELSE -dC
<1>1. dC \in Int
  <2>1. S - k \in Int
    OBVIOUS
  <2>2. Power(S - k, i) \in Int /\ Power(S, i) \in Int
    BY <2>1, PowerInt
  <2> QED
    BY <2>2 DEF CurveChange
<1> HIDE DEF dC
<1>2. n \in Nat
  BY <1>1
<1>3. CurveCore(S, C, i, k) = Fraction(n, Power(S, i))
  BY DEF CurveCore, dC
<1> QED
  BY <1>1, <1>2, <1>3 DEF dC

LEMMA WorthType ==
  ASSUME NEW S \in Nat, NEW C \in Int, NEW i \in {1, 2}, NEW k \in Nat,
         S > 0 \/ CurveChange(S, C, i, k) > 0
  PROVE  /\ Worth(S, C, i, k) \in Nat
         /\ S > 0 => Worth(S, C, i, k) = Whole(CurveCore(S, C, i, k))
<1>1. CASE S = 0
  BY <1>1 DEF Worth
<1>2. CASE S # 0
  <2>1. PICK n \in Nat : /\ CurveCore(S, C, i, k) = Fraction(n, Power(S, i))
                         /\ n = IF CurveChange(S, C, i, k) > 0 THEN 0 ELSE -CurveChange(S, C, i, k)
    BY <1>2, CurveCoreFraction
  <2> DEFINE d == Power(S, i)
             W == Whole(Fraction(n, d))
  <2>2. d \in Nat \ {0}
    BY <1>2, PowerType
  <2>3. W \in Nat /\ W * d <= n
    BY <2>2, FractionWhole
  <2>4. Whole(CurveCore(S, C, i, k)) = W
    BY <2>1
  <2> HIDE DEF W, d
  <2>5. CASE CurveChange(S, C, i, k) > 0
    <3>1. W * d <= 0 * d
      BY <2>1, <2>2, <2>3, <2>5
    <3>2. W <= 0
      BY <2>2, <2>3, <3>1, FactorBelow
    <3> QED
      BY <2>3, <2>4, <2>5, <3>2 DEF Worth
  <2>6. CASE ~(CurveChange(S, C, i, k) > 0)
    BY <2>3, <2>4, <2>6 DEF Worth
  <2> QED
    BY <2>5, <2>6
<1> QED
  BY <1>1, <1>2

-----------------------------------------------------------------------------
(* The tables of the contract.                                              *)

PolicyRow == [rate : {r \in Nat : r <= 10000}, fixed : Nat]
ConfigRow == [there : {TRUE}, admin : Admins, policy : PolicyRow]
ChargeRow == [there : {TRUE}, policy : PolicyRow]
ConnectorRow == [there : {TRUE}, balance : Int, root : Roots]

Rows ==
    /\ config \in ConfigRow \cup {Unset}
    /\ charges \in [Token -> ChargeRow \cup {Unset}]
    /\ connectors \in [Token -> ConnectorRow \cup {NoConnector}]

IInv == AInv /\ RInv /\ Rows

LEMMA NoRow ==
  /\ Unset.there = FALSE
  /\ NoConnector.there = FALSE /\ NoConnector.balance = 0
  BY DEF Unset, NoConnector

LEMMA ConfigFields ==
  ASSUME Rows, config.there
  PROVE  /\ config \in ConfigRow /\ config.policy \in PolicyRow /\ config.admin \in Admins
         /\ config.admin \in Account \ {BancorAccount, ReserveAccount}
<1>1. config \in ConfigRow
  BY NoRow DEF Rows
<1>2. config.policy \in PolicyRow /\ config.admin \in Admins
  BY <1>1 DEF ConfigRow
<1>3. Admins \subseteq Account \ {BancorAccount, ReserveAccount}
  BY BancorAssumption
<1> QED
  BY <1>1, <1>2, <1>3

LEMMA ConnectorFields ==
  ASSUME Rows, NEW t \in Token, connectors[t].there
  PROVE  /\ connectors[t] \in ConnectorRow
         /\ connectors[t].balance \in Int /\ connectors[t].root \in {1, 2}
<1>1. connectors[t] \in ConnectorRow
  BY NoRow DEF Rows
<1>2. connectors[t].balance \in Int /\ connectors[t].root \in Roots
  BY <1>1 DEF ConnectorRow
<1>3. Roots \subseteq {1, 2}
  BY BancorAssumption
<1> QED
  BY <1>1, <1>2, <1>3

LEMMA BalanceType ==
  ASSUME Rows, NEW t \in Token
  PROVE  connectors[t].balance \in Int
<1>1. CASE connectors[t] = NoConnector
  BY <1>1, NoRow
<1>2. CASE connectors[t] \in ConnectorRow
  BY <1>2 DEF ConnectorRow
<1> QED
  BY <1>1, <1>2 DEF Rows

\* The whole part of a fraction of naturals is one, and not below it by one.
LEMMA Quotient ==
  ASSUME NEW a \in Nat, NEW b \in Nat \ {0}
  PROVE  (a \div b) \in Nat /\ a < (a \div b + 1) * b
  BY SMT

\* How many parts of r there are in ten thousand.
PartsOf(r) == 10000 \div r

LEMMA Parts ==
  ASSUME NEW r \in Nat, r # 0, r <= 10000
  PROVE  /\ PartsOf(r) \in Nat \ {0}
         /\ r <= 5000 => PartsOf(r) >= 2
<1> DEFINE p == PartsOf(r)
<1>1. p \in Nat /\ 10000 < (p + 1) * r
  <2>1. 10000 \in Nat /\ r \in Nat \ {0}
    OBVIOUS
  <2> QED
    BY <2>1, Quotient DEF PartsOf
<1> HIDE DEF p
<1>2. p # 0
  <2>1. ASSUME p = 0 PROVE FALSE
    <3>1. (p + 1) * r = r
      BY <2>1
    <3> QED
      BY <1>1, <3>1
  <2> QED
    BY <2>1
<1>3. r <= 5000 => p >= 2
  <2>1. ASSUME r <= 5000, p < 2 PROVE FALSE
    <3>1. (p + 1) * r <= 2 * r
      BY <1>1, <2>1, ProductMono
    <3> QED
      BY <1>1, <2>1, <3>1
  <2> QED
    BY <1>1, <2>1
<1> QED
  BY <1>1, <1>2, <1>3 DEF p

LEMMA PolicyType ==
  ASSUME Rows, config.there, NEW t \in Token
  PROVE  Policy(t) \in PolicyRow
<1>1. CASE charges[t].there
  <2>1. charges[t] \in ChargeRow
    BY <1>1, NoRow DEF Rows
  <2> QED
    BY <1>1, <2>1 DEF Policy, ChargeRow
<1>2. CASE ~charges[t].there
  BY <1>2, ConfigFields DEF Policy
<1> QED
  BY <1>1, <1>2

LEMMA FeeType ==
  ASSUME Rows, config.there, NEW t \in Token, NEW v \in Nat
  PROVE  Fee(t, v) \in Nat
<1> DEFINE policy == Policy(t)
           p == PartsOf(policy.rate)
<1>1. policy.rate \in Nat /\ policy.rate <= 10000 /\ policy.fixed \in Nat
  BY PolicyType DEF PolicyRow
<1> HIDE DEF policy
<1>2. Base(v, policy) \in Nat
  <2>1. CASE policy.rate = 0
    BY <1>1, <2>1 DEF Base
  <2>2. CASE policy.rate # 0
    <3>1. p \in Nat \ {0}
      <4>1. policy.rate \in Nat /\ policy.rate # 0 /\ policy.rate <= 10000
        BY <1>1, <2>2
      <4> QED
        BY <4>1, Parts
    <3>2. Base(v, policy) = policy.fixed + (v + p - 1) \div p
      BY <2>2 DEF Base, Ceiling, PartsOf
    <3> HIDE DEF p
    <3>3. v + p - 1 \in Nat
      BY <3>1
    <3>4. (v + p - 1) \div p \in Nat
      BY <3>1, <3>3, Quotient
    <3> QED
      BY <1>1, <3>2, <3>4
  <2> QED
    BY <2>1, <2>2
<1> QED
  BY <1>2 DEF Fee, AtLeastOne, policy

LEMMA RequiredFeeType ==
  ASSUME Rows, config.there, NEW t \in Token, Defined(t), NEW v \in Nat
  PROVE  RequiredFee(t, v) \in Nat
<1> DEFINE policy == Policy(t)
           p == PartsOf(policy.rate)
           up == 10 * (v + policy.fixed) * p + 9 * (p - 1)
           grossed == IF policy.rate = 0 THEN 0 ELSE up \div (10 * (p - 1)) - v
<1>1. policy.rate \in Nat /\ policy.rate <= 5000 /\ policy.fixed \in Nat
  BY PolicyType DEF PolicyRow, Defined
<1>2. RequiredFee(t, v) = IF policy = Exempt THEN 0 ELSE AtLeastOne(grossed + policy.fixed)
  BY DEF RequiredFee, PartsOf
<1> HIDE DEF policy
<1>3. grossed \in Int
  <2>1. CASE policy.rate # 0
    <3>1. p \in Nat /\ p >= 2
      <4>1. /\ policy.rate \in Nat /\ policy.rate # 0 /\ policy.rate <= 10000
            /\ policy.rate <= 5000
        BY <1>1, <2>1
      <4> QED
        BY <4>1, Parts
    <3> HIDE DEF p
    <3>2. 10 * (p - 1) \in Nat \ {0} /\ 9 * (p - 1) \in Nat
      BY <3>1
    <3>3. (10 * (v + policy.fixed)) * p \in Nat
      BY <1>1, <3>1, Product
    <3>4. up \in Nat
      BY <3>2, <3>3
    <3> HIDE DEF up
    <3>5. up \div (10 * (p - 1)) \in Nat
      BY <3>2, <3>4, Quotient
    <3> QED
      BY <2>1, <3>5
  <2> QED
    BY <2>1
<1> HIDE DEF grossed
<1> QED
  BY <1>1, <1>2, <1>3 DEF AtLeastOne

-----------------------------------------------------------------------------
(* The three effects of a conversion.                                       *)

\* What is booked at the connector of t, for n units issued, moves the bank.
Converts(t, delta, n) ==
    /\ core'[BancorAccount] = core[BancorAccount] + delta
    /\ core'[ReserveAccount] = core[ReserveAccount]
    /\ connectors'[t].balance = connectors[t].balance + delta
    /\ stat'[t].supply = stat[t].supply + n
    /\ \A s \in Token \ {t} : connectors'[s] = connectors[s] /\ stat'[s] = stat[s]
    /\ reserves' = reserves

\* n units are claimed at the reserve, and no connector is touched.
Redeems(t, n) ==
    /\ connectors' = connectors
    /\ stat'[t].supply = stat[t].supply - n
    /\ \A s \in Token \ {t} : stat'[s] = stat[s]
    /\ reserves' # reserves

LEMMA ChargedType ==
  ASSUME Rows, config.there, NEW bank \in [Account -> Nat], NEW fee \in Nat,
         fee <= bank[BancorAccount]
  PROVE  /\ Charged(bank, fee) \in [Account -> Nat]
         /\ Charged(bank, fee)[BancorAccount] = bank[BancorAccount] - fee
         /\ Charged(bank, fee)[ReserveAccount] = bank[ReserveAccount]
<1>1. /\ config.admin \in Account \ {BancorAccount, ReserveAccount}
      /\ BancorAccount \in Account /\ ReserveAccount \in Account
      /\ BancorAccount # ReserveAccount
  BY ConfigFields, BancorAssumption, ReserveAssumption
<1>2. \A a \in Account \ {BancorAccount, config.admin} : Charged(bank, fee)[a] = bank[a]
  BY <1>1 DEF Charged, Moved
<1> QED
  BY <1>1, <1>2, MovedType DEF Charged

\* A row of a connector with another balance.
LEMMA BalanceBooked ==
  ASSUME Rows, NEW t \in Token, connectors[t].there, NEW b \in Int,
         connectors' = [connectors EXCEPT ![t].balance = b]
  PROVE  /\ connectors' \in [Token -> ConnectorRow \cup {NoConnector}]
         /\ connectors'[t].balance = b
         /\ \A s \in Token \ {t} : connectors'[s] = connectors[s]
<1> DEFINE row == connectors[t]
           new == [row EXCEPT !.balance = b]
<1>1. row \in ConnectorRow /\ connectors \in [Token -> ConnectorRow \cup {NoConnector}]
  BY ConnectorFields DEF Rows
<1>2. connectors' = [connectors EXCEPT ![t] = new]
  BY <1>1
<1> HIDE DEF row
<1>3. new \in ConnectorRow /\ new.balance = b
  BY <1>1 DEF ConnectorRow
<1> HIDE DEF new
<1> QED
  BY <1>1, <1>2, <1>3

LEMMA BoughtStep ==
  ASSUME IInv, NEW t \in Token, NEW sender \in Holders,
         config.there, connectors[t].there,
         NEW delta \in Nat, NEW fee \in Nat, NEW n \in Nat,
         Bought(t, sender, delta, fee, n)
  PROVE  IInv' /\ Converts(t, delta, n)
<1> DEFINE bank == Moved(core, sender, BancorAccount, delta + fee)
<1>1. /\ sender \in Account /\ BancorAccount \in Account /\ ReserveAccount \in Account
      /\ sender # BancorAccount /\ sender # ReserveAccount /\ BancorAccount # ReserveAccount
      /\ core \in [Account -> Nat] /\ stat \in [Token -> StatRow]
      /\ reserves \in [Token -> ReserveRow \cup {NoReserve}]
  BY ReserveAssumption, BancorAssumption DEF IInv, RInv, ReserveTypeOK
<1>2. /\ n > 0 /\ stat[t].supply + n <= stat[t].max
      /\ delta + fee <= core[sender]
      /\ connectors' = [connectors EXCEPT ![t].balance = @ + delta]
      /\ core' = Charged(bank, fee)
      /\ stat' = Raised(t, n) /\ held' = HeldWith(t, sender, held[t][sender] + n)
      /\ UNCHANGED <<accounts, minAmount, prepaid, reserves, config, charges>>
  BY DEF Bought, Raised, HeldWith
<1>3. /\ bank \in [Account -> Nat]
      /\ bank[BancorAccount] = core[BancorAccount] + (delta + fee)
      /\ bank[ReserveAccount] = core[ReserveAccount]
  <2>1. delta + fee \in Nat
    OBVIOUS
  <2>2. \A a \in Account \ {sender, BancorAccount} : bank[a] = core[a]
    BY <1>1 DEF Moved
  <2> QED
    BY <1>1, <1>2, <2>1, <2>2, MovedType
<1> HIDE DEF bank
<1>4. /\ core' \in [Account -> Nat]
      /\ core'[BancorAccount] = core[BancorAccount] + delta
      /\ core'[ReserveAccount] = core[ReserveAccount]
  <2>1. core[BancorAccount] \in Nat
    BY <1>1
  <2>2. fee <= bank[BancorAccount]
    BY <1>3, <2>1
  <2> QED
    BY <1>2, <1>3, <2>1, <2>2, ChargedType DEF IInv
<1>5. stat[t].there
  <2>1. stat[t].supply \in Nat /\ stat[t].max \in Nat
    BY <1>1 DEF StatRow
  <2>2. stat[t] # NoStat
    BY <1>2, <2>1, NoRows
  <2> QED
    BY <2>2 DEF IInv, RInv, Unminted
<1>6. RInv'
  BY <1>1, <1>2, <1>4, <1>5, UnitsIssued DEF IInv
<1>7. /\ connectors' \in [Token -> ConnectorRow \cup {NoConnector}]
      /\ connectors'[t].balance = connectors[t].balance + delta
      /\ \A s \in Token \ {t} : connectors'[s] = connectors[s]
  <2>1. connectors[t].balance + delta \in Int
    BY ConnectorFields DEF IInv
  <2>2. connectors' = [connectors EXCEPT ![t].balance = connectors[t].balance + delta]
    BY <1>2
  <2> QED
    BY <2>1, <2>2, BalanceBooked DEF IInv
<1>8. AInv' /\ Rows'
  BY <1>2, <1>7 DEF IInv, AInv, Rows
<1>9. stat'[t].supply = stat[t].supply + n /\ \A s \in Token \ {t} : stat'[s] = stat[s]
  BY <1>1, <1>2, RaisedType
<1> QED
  BY <1>2, <1>4, <1>6, <1>7, <1>8, <1>9 DEF IInv, Converts

Lowered(t, v) == [stat EXCEPT ![t].supply = @ - v]

LEMMA LoweredType ==
  ASSUME stat \in [Token -> StatRow], NEW t \in Token, NEW v \in Nat, v <= stat[t].supply
  PROVE  /\ Lowered(t, v) \in [Token -> StatRow]
         /\ \A x \in Token \ {t} : Lowered(t, v)[x] = stat[x]
         /\ Lowered(t, v)[t].there = stat[t].there /\ Lowered(t, v)[t].max = stat[t].max
         /\ Lowered(t, v)[t].supply = stat[t].supply - v
<1> DEFINE row == stat[t]
           new == [row EXCEPT !.supply = row.supply - v]
<1>1. row \in StatRow /\ row.supply - v \in Nat
  BY DEF StatRow
<1>2. Lowered(t, v) = [stat EXCEPT ![t] = new]
  BY DEF Lowered
<1> HIDE DEF row
<1>3. new \in StatRow /\ new.there = row.there /\ new.max = row.max /\ new.supply = row.supply - v
  BY <1>1 DEF StatRow
<1> HIDE DEF new
<1> QED
  BY <1>1, <1>2, <1>3 DEF row

\* Units are retired, which the reserve has no part in.
LEMMA UnitsRetired ==
  ASSUME RInv, NEW t \in Token, NEW a \in Account, NEW v \in Nat, v > 0, v <= held[t][a],
         stat' = Lowered(t, v), held' = HeldWith(t, a, held[t][a] - v),
         UNCHANGED <<minAmount, prepaid, reserves>>,
         core' \in [Account -> Nat], core'[ReserveAccount] = core[ReserveAccount]
  PROVE  RInv' /\ stat'[t].supply = stat[t].supply - v /\ \A x \in Token \ {t} : stat'[x] = stat[x]
<1> USE DEF RInv
<1>1. /\ stat \in [Token -> StatRow] /\ held \in [Token -> [Account -> Nat]]
      /\ held[t] \in [Account -> Nat] /\ held[t][a] \in Nat
      /\ IsFiniteSet(Account)
  BY ReserveAssumption DEF ReserveTypeOK
<1>2. /\ Total(held[t]) = stat[t].supply /\ stat[t].supply <= stat[t].max
      /\ stat[t].supply \in Nat /\ stat[t].max \in Nat
  BY <1>1 DEF UnitsHeld, StatRow
<1>3. v <= stat[t].supply
  <2>1. held[t][a] <= Total(held[t])
    BY <1>1, TotalBounds
  <2> QED
    BY <1>1, <1>2, <2>1
<1>4. /\ stat' \in [Token -> StatRow]
      /\ \A x \in Token \ {t} : stat'[x] = stat[x]
      /\ stat'[t].there = stat[t].there /\ stat'[t].max = stat[t].max
      /\ stat'[t].supply = stat[t].supply - v
  BY <1>1, <1>3, LoweredType
<1>5. /\ held' \in [Token -> [Account -> Nat]]
      /\ \A x \in Token \ {t} : held'[x] = held[x]
      /\ Total(held'[t]) = Total(held[t]) - held[t][a] + (held[t][a] - v)
  BY <1>1, HeldLessened
<1>6. ReserveTypeOK'
  BY <1>4, <1>5 DEF ReserveTypeOK
<1>7. Unminted'
  <2>1. stat[t].there
    <3>1. stat[t] # NoStat
      BY <1>2, <1>3, NoRows
    <3> QED
      BY <3>1 DEF Unminted
  <2> QED
    BY <1>4, <2>1 DEF Unminted
<1>8. ClaimsCovered'
  BY <1>4 DEF ClaimsCovered
<1>9. ReserveCovers'
  BY DEF ReserveCovers
<1>10. UnitsHeld'
  <2>1. Total(held'[t]) = stat'[t].supply /\ stat'[t].supply <= stat'[t].max
    BY <1>1, <1>2, <1>4, <1>5
  <2> QED
    BY <1>4, <1>5, <2>1 DEF UnitsHeld
<1> QED
  BY <1>4, <1>6, <1>7, <1>8, <1>9, <1>10

LEMMA RetiredStep ==
  ASSUME IInv, NEW t \in Token, NEW sender \in Holders,
         config.there, connectors[t].there,
         NEW delta \in Nat, NEW fee \in Nat, NEW n \in Nat,
         Retired(t, sender, n, delta, fee)
  PROVE  IInv' /\ Converts(t, -delta, -n)
<1> DEFINE bank == Moved(core, BancorAccount, sender, delta - fee)
<1>1. /\ sender \in Account /\ BancorAccount \in Account /\ ReserveAccount \in Account
      /\ sender # BancorAccount /\ sender # ReserveAccount /\ BancorAccount # ReserveAccount
      /\ core \in [Account -> Nat] /\ stat \in [Token -> StatRow]
  BY ReserveAssumption, BancorAssumption DEF IInv, RInv, ReserveTypeOK
<1>2. /\ n > 0 /\ n <= held[t][sender]
      /\ delta > fee /\ delta <= core[BancorAccount]
      /\ connectors' = [connectors EXCEPT ![t].balance = @ - delta]
      /\ core' = Charged(bank, fee)
      /\ stat' = Lowered(t, n) /\ held' = HeldWith(t, sender, held[t][sender] - n)
      /\ UNCHANGED <<accounts, minAmount, prepaid, reserves, config, charges>>
  BY DEF Retired, Lowered, HeldWith
<1>3. core[BancorAccount] \in Nat
  BY <1>1
<1>4. /\ bank \in [Account -> Nat]
      /\ bank[BancorAccount] = core[BancorAccount] - (delta - fee)
      /\ bank[ReserveAccount] = core[ReserveAccount]
  <2>1. delta - fee \in Nat /\ delta - fee <= core[BancorAccount]
    BY <1>2, <1>3
  <2>2. \A a \in Account \ {sender, BancorAccount} : bank[a] = core[a]
    BY <1>1 DEF Moved
  <2> QED
    BY <1>1, <2>1, <2>2, MovedType
<1> HIDE DEF bank
<1>5. /\ core' \in [Account -> Nat]
      /\ core'[BancorAccount] = core[BancorAccount] - delta
      /\ core'[ReserveAccount] = core[ReserveAccount]
  <2>1. fee <= bank[BancorAccount]
    BY <1>2, <1>3, <1>4
  <2> QED
    BY <1>2, <1>3, <1>4, <2>1, ChargedType DEF IInv
<1>6. RInv' /\ stat'[t].supply = stat[t].supply - n /\ \A x \in Token \ {t} : stat'[x] = stat[x]
  BY <1>1, <1>2, <1>5, UnitsRetired DEF IInv
<1>7. /\ connectors' \in [Token -> ConnectorRow \cup {NoConnector}]
      /\ connectors'[t].balance = connectors[t].balance - delta
      /\ \A s \in Token \ {t} : connectors'[s] = connectors[s]
  <2>1. connectors[t].balance - delta \in Int
    BY ConnectorFields DEF IInv
  <2>2. connectors' = [connectors EXCEPT ![t].balance = connectors[t].balance - delta]
    BY <1>2
  <2> QED
    BY <2>1, <2>2, BalanceBooked DEF IInv
<1>8. AInv' /\ Rows'
  BY <1>2, <1>7 DEF IInv, AInv, Rows
<1>9. /\ core[BancorAccount] - delta = core[BancorAccount] + (-delta)
      /\ connectors[t].balance - delta = connectors[t].balance + (-delta)
      /\ stat[t].supply - n = stat[t].supply + (-n)
  <2>1. connectors[t].balance \in Int /\ stat[t].supply \in Nat
    BY <1>1, ConnectorFields DEF IInv, StatRow
  <2> QED
    BY <1>3, <2>1
<1> QED
  BY <1>2, <1>5, <1>6, <1>7, <1>8, <1>9 DEF IInv, Converts

LEMMA RedeemedStep ==
  ASSUME IInv, NEW t \in Token, NEW sender \in Holders, config.there,
         NEW delta \in Nat, NEW fee \in Nat, NEW n \in Nat,
         Redeemed(t, sender, n, delta, fee)
  PROVE  IInv' /\ Redeems(t, n)
<1>1. /\ sender \in Account /\ BancorAccount \in Account /\ ReserveAccount \in Account
      /\ sender # BancorAccount /\ sender # ReserveAccount /\ BancorAccount # ReserveAccount
      /\ core \in [Account -> Nat] /\ stat \in [Token -> StatRow]
      /\ reserves \in [Token -> ReserveRow \cup {NoReserve}]
  BY ReserveAssumption, BancorAssumption DEF IInv, RInv, ReserveTypeOK
<1>2. PICK c \in Claimed(t, n) :
         LET claimed == Moved(core, ReserveAccount, BancorAccount, c)
         IN  /\ delta > fee /\ delta <= claimed[BancorAccount]
             /\ reserves' = ClaimedReserves(t, n, c)
             /\ core' = Charged(Moved(claimed, BancorAccount, sender, delta - fee), fee)
  BY DEF Redeemed
<1> DEFINE claimed == Moved(core, ReserveAccount, BancorAccount, c)
           bank == Moved(claimed, BancorAccount, sender, delta - fee)
<1>3. /\ n > 0 /\ n <= held[t][sender] /\ CanClaim(t, n)
      /\ delta > fee /\ delta <= claimed[BancorAccount]
      /\ core' = Charged(bank, fee)
      /\ UnitsGone(t, sender, n, c)
      /\ UNCHANGED <<accounts, bancorVars>>
  BY <1>2 DEF Redeemed, UnitsGone, HeldWith
<1>4. reserves[t] \in ReserveRow
  BY <1>1, <1>3, NoRows DEF CanClaim
<1>5. c \in Nat /\ c > 0 /\ c <= core[ReserveAccount]
  BY <1>4, ClaimedBelow DEF Claimed
<1>6. /\ claimed \in [Account -> Nat]
      /\ claimed[BancorAccount] = core[BancorAccount] + c
      /\ claimed[ReserveAccount] = core[ReserveAccount] - c
      /\ core[BancorAccount] \in Nat /\ core[ReserveAccount] \in Nat
  BY <1>1, <1>5, MovedType
<1> HIDE DEF claimed
<1>7. /\ bank \in [Account -> Nat]
      /\ bank[BancorAccount] = claimed[BancorAccount] - (delta - fee)
      /\ bank[ReserveAccount] = claimed[ReserveAccount]
  <2>1. delta - fee \in Nat /\ delta - fee <= claimed[BancorAccount]
    BY <1>3, <1>5, <1>6
  <2>2. \A a \in Account \ {sender, BancorAccount} : bank[a] = claimed[a]
    BY <1>1, <1>6 DEF Moved
  <2>3. claimed \in [Account -> Nat]
    BY <1>6
  <2> DEFINE d == delta - fee
  <2> HIDE DEF d
  <2>4. bank = Moved(claimed, BancorAccount, sender, d)
    BY DEF d
  <2>5. d \in Nat /\ d <= claimed[BancorAccount]
    BY <2>1 DEF d
  <2>6. bank \in [Account -> Nat] /\ bank[BancorAccount] = claimed[BancorAccount] - d
    BY <1>1, <2>3, <2>4, <2>5, MovedType
  <2> QED
    BY <1>1, <2>2, <2>6 DEF d
<1> HIDE DEF bank
<1>8. /\ core' \in [Account -> Nat]
      /\ core'[ReserveAccount] = core[ReserveAccount] - c
  <2>1. fee <= bank[BancorAccount]
    BY <1>3, <1>5, <1>6, <1>7
  <2>2. /\ Charged(bank, fee) \in [Account -> Nat]
        /\ Charged(bank, fee)[ReserveAccount] = bank[ReserveAccount]
    BY <1>7, <2>1, ChargedType DEF IInv
  <2> QED
    BY <1>3, <1>6, <1>7, <2>2
<1>9. RInv'
  BY <1>1, <1>3, <1>8, UnitsClaimed DEF IInv
<1>10. AInv' /\ Rows'
  BY <1>3 DEF IInv, AInv, Rows, bancorVars
<1>11. stat'[t].supply = stat[t].supply - n /\ \A s \in Token \ {t} : stat'[s] = stat[s]
  BY <1>1, <1>3 DEF UnitsGone, Burned, StatRow
<1>12. reserves' # reserves
  <2>1. reserves'[t].underlying = reserves[t].underlying - c
    BY <1>1, <1>3, <1>4, <1>5, ClaimedReservesType DEF UnitsGone
  <2>2. reserves[t].underlying \in Int
    BY <1>4, RowType
  <2> QED
    BY <1>5, <2>1, <2>2
<1> QED
  BY <1>3, <1>9, <1>10, <1>11, <1>12 DEF IInv, Redeems, bancorVars

-----------------------------------------------------------------------------
(* The conversions.                                                         *)

LEMMA RateFields ==
  ASSUME IInv, NEW t \in Token, reserves[t].there
  PROVE  Rate(t)[1] \in Int /\ Rate(t)[2] \in Nat \ {0}
<1>1. reserves[t] \in ReserveRow
  BY NoRows DEF IInv, RInv, ReserveTypeOK
<1>2. PICK r1 \in Int, r2 \in Nat \ {0} : reserves[t].rate = <<r1, r2>>
  BY <1>1, RowType
<1> QED
  BY <1>2 DEF Rate

LEMMA SupplyType ==
  ASSUME IInv, NEW t \in Token
  PROVE  stat[t].supply \in Nat
  BY DEF IInv, RInv, ReserveTypeOK, StatRow

\* n units are not cheaper than at the rate of the reserve, but for a unit.
Bid(t, n, delta) == reserves[t].there => n * Rate(t)[1] < (delta + 1) * Rate(t)[2]

\* A price that is not below the reserve's.
LEMMA BidCovered ==
  ASSUME IInv, NEW t \in Token, NEW n \in Nat, NEW delta \in Nat,
         reserves[t].there => Rate(t)[1] * n <= Rate(t)[2] * delta
  PROVE  Bid(t, n, delta)
<1> SUFFICES ASSUME reserves[t].there
             PROVE  n * Rate(t)[1] < (delta + 1) * Rate(t)[2]
  BY DEF Bid
<1> DEFINE r1 == Rate(t)[1]
           r2 == Rate(t)[2]
<1>1. r1 \in Int /\ r2 \in Nat \ {0} /\ r1 * n <= r2 * delta
  BY RateFields
<1> HIDE DEF r1, r2
<1>2. r1 * n = n * r1 /\ (delta + 1) * r2 = r2 * delta + r2
  BY <1>1
<1>3. r2 * delta \in Int /\ r1 * n \in Int
  BY <1>1
<1>4. n * r1 < (delta + 1) * r2
  BY <1>1, <1>2, <1>3
<1> QED
  BY <1>4 DEF r1, r2

LEMMA NotBetter ==
  ASSUME IInv, NEW t \in Token, NEW n \in Nat \ {0}, NEW delta \in Nat,
         ~ReserveBetter(t, n, delta)
  PROVE  Bid(t, n, delta)
<1>1. ASSUME reserves[t].there
      PROVE  Rate(t)[1] * n <= Rate(t)[2] * delta
  <2> DEFINE r1 == Rate(t)[1]
             r2 == Rate(t)[2]
  <2>1. r1 \in Int /\ r2 \in Nat
    BY <1>1, RateFields
  <2>2. ~(r1 * n > r2 * delta)
    BY <1>1 DEF ReserveBetter
  <2> HIDE DEF r1, r2
  <2>3. r1 * n \in Int /\ r2 * delta \in Int
    BY <2>1
  <2>4. r1 * n <= r2 * delta
    BY <2>2, <2>3
  <2> QED
    BY <2>4 DEF r1, r2
<1> QED
  BY <1>1, BidCovered

\* A reserve whose rate is above another price has one that is above zero.
LEMMA BetterRate ==
  ASSUME IInv, NEW t \in Token, NEW n \in Nat, NEW v \in Nat,
         reserves[t].there, Rate(t)[1] * n > Rate(t)[2] * v
  PROVE  Rate(t)[1] \in Nat \ {0} /\ Rate(t)[2] \in Nat \ {0}
<1> DEFINE r1 == Rate(t)[1]
           r2 == Rate(t)[2]
<1>1. r1 \in Int /\ r2 \in Nat \ {0} /\ r1 * n > r2 * v
  BY RateFields
<1> HIDE DEF r1, r2
<1>2. r2 * v \in Nat
  BY <1>1, Product
<1>3. r1 > 0
  <2>1. ASSUME r1 <= 0 PROVE FALSE
    <3>1. PICK k \in Nat : r1 = -k
      <4>1. -r1 \in Nat /\ r1 = -(-r1)
        BY <1>1, <2>1
      <4> QED
        BY <4>1
    <3>2. r1 * n = -(k * n) /\ k * n \in Nat
      BY <3>1
    <3> QED
      BY <1>1, <1>2, <3>2
  <2> QED
    BY <1>1, <2>1
<1> QED
  BY <1>1, <1>3 DEF r1, r2

\* What is bought for q.
LEMMA BuyPriceFair ==
  ASSUME IInv, NEW t \in Token, NEW S \in Nat, NEW C \in Nat \ {0}, NEW i \in {1, 2},
         NEW q \in Nat \ {0}
  PROVE  LET x == BuyPrice(t, S, C, i, q)
         IN  /\ Number(x) /\ x.q <= x.p
             /\ Whole(x) > 0 => Bid(t, Whole(x), Part(q, x))
<1> DEFINE curve == CurveSmart(S, C, i, q)
           W == Whole(curve)
           m == Part(q, curve)
           x == BuyPrice(t, S, C, i, q)
<1>1. Number(curve) /\ curve.q <= curve.p
  BY CurveSmartNumber
<1> HIDE DEF curve
<1>2. W \in Nat /\ m \in Nat
  BY <1>1, PartType
<1>3. CASE ~ReserveBetter(t, W, m)
  <2>1. x = curve
    BY <1>3 DEF BuyPrice, curve
  <2>2. W > 0 => Bid(t, W, m)
    <3> HIDE DEF W, m
    <3> QED
      BY <1>2, <1>3, NotBetter
  <2> QED
    BY <1>1, <2>1, <2>2 DEF x, W, m
<1>4. CASE ReserveBetter(t, W, m)
  <2> DEFINE r1 == Rate(t)[1]
             r2 == Rate(t)[2]
             y == Fraction(q * r2, r1)
  <2>1. x = y
    BY <1>4 DEF BuyPrice, ReserveSmart, curve
  <2>2. r1 \in Nat \ {0} /\ r2 \in Nat \ {0}
    <3>1. reserves[t].there /\ r1 * W > r2 * m
      BY <1>4 DEF ReserveBetter
    <3> HIDE DEF W, m
    <3> QED
      BY <1>2, <3>1, BetterRate
  <2> HIDE DEF r1, r2
  <2>3. q * r2 \in Nat
    BY <2>2, Product
  <2>4. Number(y) /\ y.q <= y.p
    BY <2>2, <2>3, FractionNumber
  <2>5. Whole(y) > 0 => Whole(y) * r1 <= Part(q, y) * r2
    BY <2>2, FractionPart
  <2> HIDE DEF y
  <2>6. Whole(y) \in Nat /\ Part(q, y) \in Nat
    BY <2>4, PartType
  <2>7. Whole(y) > 0 => Bid(t, Whole(y), Part(q, y))
    <3> DEFINE n == Whole(y)
               d == Part(q, y)
    <3> HIDE DEF n, d
    <3>1. n \in Nat /\ d \in Nat
      BY <2>6 DEF n, d
    <3>2. n > 0 => r1 * n <= r2 * d
      <4>1. n * r1 = r1 * n /\ d * r2 = r2 * d
        BY <2>2, <3>1
      <4> QED
        BY <2>5, <4>1 DEF n, d
    <3>3. n > 0 => Bid(t, n, d)
      BY <3>1, <3>2, BidCovered DEF r1, r2
    <3> QED
      BY <3>3 DEF n, d
  <2> QED
    BY <2>1, <2>4, <2>7
<1> QED
  BY <1>3, <1>4

\* What a buyer is given and pays, and what becomes of what a seller gives.
Buys(t) ==
    \E delta \in Nat, n \in Nat \ {0} : Converts(t, delta, n) /\ Bid(t, n, delta)

Sells(t) ==
    \E delta \in Nat, n \in Nat \ {0} : Converts(t, -delta, -n) \/ Redeems(t, n)

LEMMA BuyStep ==
  ASSUME IInv, NEW t \in Token, NEW sender \in Holders, NEW from \in Nat, NEW auth,
         Buy(t, sender, from, auth)
  PROVE  IInv' /\ Buys(t)
<1> DEFINE fee == Fee(t, from)
           q == from - fee
           S == stat[t].supply
           C == connectors[t].balance
           i == connectors[t].root
           x == BuyPrice(t, S, C, i, q)
           delta == Part(q, x)
           part == FeePart(fee, q, delta, x)
<1>1. /\ config.there /\ connectors[t].there
      /\ q > 0 /\ C > 0
      /\ Bought(t, sender, delta, part, Whole(x))
  BY DEF Buy, CanConvert
<1>2. fee \in Nat /\ S \in Nat /\ C \in Int /\ i \in {1, 2}
  BY <1>1, FeeType, SupplyType, ConnectorFields DEF IInv
<1> HIDE DEF fee, S, C, i
<1>3. q \in Nat \ {0} /\ C \in Nat \ {0}
  BY <1>1, <1>2
<1> HIDE DEF q
<1>4. Number(x) /\ x.q <= x.p /\ (Whole(x) > 0 => Bid(t, Whole(x), delta))
  BY <1>2, <1>3, BuyPriceFair
<1> HIDE DEF x
<1>5. Whole(x) \in Nat /\ delta \in Nat
  BY <1>3, <1>4, PartType
<1>6. part \in Nat
  <2>1. Part(fee, x) \in Nat
    BY <1>2, <1>4, PartType
  <2> QED
    BY <1>2, <2>1 DEF FeePart
<1> HIDE DEF delta, part
<1>7. Whole(x) > 0
  BY <1>1 DEF Bought
<1>8. IInv' /\ Converts(t, delta, Whole(x))
  BY <1>1, <1>5, <1>6, BoughtStep
<1> QED
  BY <1>4, <1>5, <1>7, <1>8 DEF Buys

\* What is sold to a reserve, in whatever precision, is paid an amount.
LEMMA ReserveCoreNumber ==
  ASSUME IInv, NEW t \in Token, reserves[t].there, Rate(t)[1] \in Nat, NEW k \in Nat,
         NEW e, e.up \in Nat \ {0}, e.down \in Nat \ {0}
  PROVE  Number(ReserveCore(t, k, e)) /\ ReserveCore(t, k, e).q <= ReserveCore(t, k, e).p
<1> DEFINE n == k * Rate(t)[1] * e.up
           d == Rate(t)[2] * e.down
<1>1. n \in Nat
  <2>1. k * Rate(t)[1] \in Nat
    BY Product
  <2> QED
    BY <2>1, Product
<1>2. d \in Nat \ {0}
  <2> DEFINE r2 == Rate(t)[2]
             f == e.down
  <2>1. r2 \in Nat \ {0} /\ f \in Nat \ {0}
    BY RateFields
  <2> HIDE DEF r2, f
  <2>2. r2 * f \in Nat \ {0}
    <3>1. 1 * f <= r2 * f
      BY <2>1, ProductMono
    <3>2. r2 * f \in Nat
      BY <2>1, Product
    <3> QED
      BY <2>1, <3>1, <3>2
  <2> QED
    BY <2>2 DEF r2, f
<1>3. ReserveCore(t, k, e) = Fraction(n, d)
  BY DEF ReserveCore
<1> HIDE DEF n, d
<1> QED
  BY <1>1, <1>2, <1>3, FractionNumber

LEMMA SameFields == Same.up = 1 /\ Same.down = 1
  BY DEF Same

\* In the precision of the connected token it is the reserve's rate.
LEMMA ReserveCoreSame ==
  ASSUME IInv, NEW t \in Token, reserves[t].there, NEW k \in Nat
  PROVE  ReserveCore(t, k, Same) = Fraction(k * Rate(t)[1], Rate(t)[2])
<1> DEFINE r1 == Rate(t)[1]
           r2 == Rate(t)[2]
<1>1. r1 \in Int /\ r2 \in Nat \ {0}
  BY RateFields
<1>2. ReserveCore(t, k, Same) = Fraction(k * r1 * 1, r2 * 1)
  BY SameFields DEF ReserveCore
<1> HIDE DEF r1, r2
<1>3. k * r1 * 1 = k * r1 /\ r2 * 1 = r2
  BY <1>1
<1> QED
  BY <1>2, <1>3 DEF r1, r2

\* What is to be paid at the rate of a reserve.
LEMMA ReserveCoreFair ==
  ASSUME IInv, NEW t \in Token, reserves[t].there, Rate(t)[1] \in Nat, NEW k \in Nat
  PROVE  /\ Whole(ReserveCore(t, k, Same)) \in Nat
         /\ Bid(t, k, Whole(ReserveCore(t, k, Same)))
<1> DEFINE r1 == Rate(t)[1]
           r2 == Rate(t)[2]
           x == Fraction(k * r1, r2)
<1>1. r1 \in Nat /\ r2 \in Nat \ {0}
  BY RateFields
<1>2. x = ReserveCore(t, k, Same)
  BY ReserveCoreSame
<1> HIDE DEF r1, r2
<1>3. k * r1 \in Nat
  BY <1>1, Product
<1>4. Whole(x) \in Nat /\ k * r1 < (Whole(x) + 1) * r2
  BY <1>1, <1>3, FractionWhole
<1> HIDE DEF x
<1>5. Bid(t, k, Whole(x))
  BY <1>4 DEF Bid, r1, r2
<1> QED
  BY <1>2, <1>4, <1>5

LEMMA BuyExactStep ==
  ASSUME IInv, NEW t \in Token, NEW sender \in Holders, NEW to \in Nat, NEW auth,
         BuyExact(t, sender, to, auth)
  PROVE  IInv' /\ Buys(t)
<1> DEFINE S == stat[t].supply
           C == connectors[t].balance
           i == connectors[t].root
           worth == Worth(S, C, i, to)
           delta == IF ReserveBetter(t, to, worth) THEN Whole(ReserveCore(t, to, Same)) ELSE worth
           fee == RequiredFee(t, delta)
<1>1. /\ config.there /\ connectors[t].there
      /\ S > 0 \/ CurveChange(S, C, i, to) > 0
      /\ Defined(t)
      /\ Bought(t, sender, delta, fee, to)
  BY DEF BuyExact, CanConvert
<1>2. S \in Nat /\ C \in Int /\ i \in {1, 2}
  BY <1>1, SupplyType, ConnectorFields DEF IInv
<1> HIDE DEF S, C, i
<1>3. worth \in Nat
  BY <1>1, <1>2, WorthType
<1> HIDE DEF worth
<1>4. to > 0
  BY <1>1 DEF Bought
<1>5. delta \in Nat /\ Bid(t, to, delta)
  <2>1. CASE ReserveBetter(t, to, worth)
    <3>1. reserves[t].there /\ Rate(t)[1] * to > Rate(t)[2] * worth
      BY <2>1 DEF ReserveBetter
    <3>2. Rate(t)[1] \in Nat
      BY <1>3, <3>1, BetterRate
    <3> QED
      BY <2>1, <3>1, <3>2, ReserveCoreFair
  <2>2. CASE ~ReserveBetter(t, to, worth)
    BY <1>3, <1>4, <2>2, NotBetter
  <2> QED
    BY <2>1, <2>2
<1> HIDE DEF delta
<1>6. fee \in Nat
  BY <1>1, <1>5, RequiredFeeType DEF IInv
<1> HIDE DEF fee
<1>7. IInv' /\ Converts(t, delta, to)
  BY <1>1, <1>5, <1>6, BoughtStep
<1> QED
  BY <1>4, <1>5, <1>7 DEF Buys

\* Fewer units are not cheaper either.
LEMMA SellStep ==
  ASSUME IInv, NEW t \in Token, NEW sender \in Holders, NEW from \in Nat,
         NEW e \in Scales, NEW auth, Sell(t, sender, from, e, auth)
  PROVE  IInv' /\ Sells(t)
<1> DEFINE S == stat[t].supply
           C == connectors[t].balance
           i == connectors[t].root
           better == SellsToReserve(t, S, C, i, from)
           x == SellPrice(t, S, C, i, from, e)
           delta == Whole(x)
           n == Part(from, x)
           fee == Fee(t, delta)
<1>1. /\ config.there /\ connectors[t].there
      /\ S > 0
      /\ \/ ~better /\ Retired(t, sender, n, delta, fee)
         \/ better /\ Redeemed(t, sender, n, delta, fee)
  BY DEF Sell, CanConvert
<1>2. S \in Nat /\ C \in Int /\ i \in {1, 2}
  BY <1>1, SupplyType, ConnectorFields DEF IInv
<1> HIDE DEF S, C, i
<1>3. n > 0
  BY <1>1 DEF Retired, Redeemed
<1>4. Number(x) /\ x.q <= x.p
  <2>1. CASE ~better
    <3>1. S \in Nat \ {0}
      BY <1>1, <1>2
    <3>2. PICK k \in Nat : CurveCore(S, C, i, from) = Fraction(k, Power(S, i))
      BY <1>2, <3>1, CurveCoreFraction
    <3> DEFINE d == Power(S, i)
    <3>3. d \in Nat \ {0}
      BY <1>2, <3>1, PowerType
    <3>4. x = Fraction(k, d)
      BY <2>1, <3>2 DEF SellPrice
    <3> HIDE DEF x, d
    <3> QED
      BY <3>3, <3>4, FractionNumber
  <2>2. CASE better
    <3>1. x = ReserveCore(t, from, e) /\ reserves[t].there
      BY <2>2 DEF SellPrice, SellsToReserve
    <3>2. Rate(t)[1] \in Nat
      <4>1. Worth(S, C, i, from) \in Nat
        BY <1>1, <1>2, WorthType
      <4>2. Rate(t)[1] * from > Rate(t)[2] * Worth(S, C, i, from)
        BY <2>2 DEF SellsToReserve
      <4> QED
        BY <3>1, <4>1, <4>2, BetterRate
    <3>3. e.up \in Nat \ {0} /\ e.down \in Nat \ {0}
      BY BancorAssumption
    <3> HIDE DEF x
    <3> QED
      BY <3>1, <3>2, <3>3, ReserveCoreNumber
  <2> QED
    BY <2>1, <2>2
<1> HIDE DEF x
<1>5. n \in Nat /\ delta \in Nat
  BY <1>4, PartType
<1> HIDE DEF n, delta
<1>6. fee \in Nat
  BY <1>1, <1>5, FeeType DEF IInv
<1> HIDE DEF fee
<1>7. CASE ~better
  <2>1. IInv' /\ Converts(t, -delta, -n)
    BY <1>1, <1>5, <1>6, <1>7, RetiredStep
  <2> QED
    BY <1>3, <1>5, <2>1 DEF Sells
<1>8. CASE better
  <2>1. IInv' /\ Redeems(t, n)
    BY <1>1, <1>5, <1>6, <1>8, RedeemedStep
  <2> QED
    BY <1>3, <1>5, <2>1 DEF Sells
<1> QED
  BY <1>7, <1>8

LEMMA SellExactStep ==
  ASSUME IInv, NEW t \in Token, NEW sender \in Holders, NEW to \in Nat, NEW auth,
         SellExact(t, sender, to, auth)
  PROVE  IInv' /\ Sells(t)
<1> DEFINE fee == RequiredFee(t, to)
           S == stat[t].supply
           C == connectors[t].balance
           i == connectors[t].root
           x == CurveSmart(S, C, i, to + fee)
           y == ReserveSmart(t, to)
           better == ReserveBetter(t, Whole(x), Part(to + fee, x))
<1>1. /\ config.there /\ connectors[t].there /\ Defined(t) /\ C > 0
      /\ \/ ~better /\ Retired(t, sender, Whole(x), Part(to + fee, x), fee)
         \/ better /\ Redeemed(t, sender, Whole(y), Part(to, y), fee)
  BY DEF SellExact, CanConvert
<1>2. S \in Nat /\ C \in Nat \ {0} /\ i \in {1, 2} /\ fee \in Nat
  BY <1>1, SupplyType, ConnectorFields, RequiredFeeType DEF IInv
<1> HIDE DEF S, C, i, fee
<1>3. Number(x) /\ x.q <= x.p
  <2>1. to + fee \in Nat
    BY <1>2
  <2> QED
    BY <1>2, <2>1, CurveSmartNumber
<1> HIDE DEF x
<1>4. Whole(x) \in Nat /\ Part(to + fee, x) \in Nat
  BY <1>2, <1>3, PartType
<1>5. CASE ~better
  <2> DEFINE n == Whole(x)
             delta == Part(to + fee, x)
  <2>1. n > 0 /\ n \in Nat /\ delta \in Nat
    BY <1>1, <1>4, <1>5 DEF Retired
  <2>2. Retired(t, sender, n, delta, fee)
    BY <1>1, <1>5
  <2> HIDE DEF n, delta
  <2>3. IInv' /\ Converts(t, -delta, -n)
    BY <1>1, <1>2, <2>1, <2>2, RetiredStep
  <2> QED
    BY <2>1, <2>3 DEF Sells
<1>6. CASE better
  <2> DEFINE n == Whole(y)
             delta == Part(to, y)
  <2>1. Redeemed(t, sender, n, delta, fee)
    BY <1>1, <1>6
  <2>2. n > 0 /\ delta > fee
    BY <2>1 DEF Redeemed
  <2>3. reserves[t].there /\ Rate(t)[1] \in Nat \ {0} /\ Rate(t)[2] \in Nat \ {0}
    <3> DEFINE w == Whole(x)
               v == Part(to + fee, x)
    <3>1. reserves[t].there /\ Rate(t)[1] * w > Rate(t)[2] * v
      BY <1>6 DEF ReserveBetter
    <3> HIDE DEF w, v
    <3>2. w \in Nat /\ v \in Nat
      BY <1>4 DEF w, v
    <3> QED
      BY <3>1, <3>2, BetterRate
  <2>4. Number(y) /\ y.q <= y.p
    <3> DEFINE r1 == Rate(t)[1]
               r2 == Rate(t)[2]
    <3>1. y = Fraction(to * r2, r1) /\ r1 \in Nat \ {0} /\ r2 \in Nat
      BY <2>3 DEF ReserveSmart
    <3> HIDE DEF r1, r2, y
    <3>2. to * r2 \in Nat
      BY <3>1, Product
    <3> QED
      BY <3>1, <3>2, FractionNumber
  <2> HIDE DEF y
  <2>5. n \in Nat /\ delta \in Nat
    BY <2>4, PartType
  <2> HIDE DEF n, delta
  <2>6. IInv' /\ Redeems(t, n)
    BY <1>1, <1>2, <2>1, <2>5, RedeemedStep
  <2> QED
    BY <2>2, <2>5, <2>6 DEF Sells
<1> QED
  BY <1>1, <1>5, <1>6

-----------------------------------------------------------------------------
(* The invariant.                                                           *)

LEMMA ConvertStep ==
  ASSUME IInv, NEW t \in Token, NEW auth, Convert(t, auth)
  PROVE  IInv' /\ (Buys(t) \/ Sells(t))
<1>1. CoreAmounts \subseteq Nat /\ SmartAmounts \subseteq Nat
  BY BancorAssumption
<1> QED
  BY <1>1, BuyStep, BuyExactStep, SellStep, SellExactStep DEF Convert

LEMMA InitIInv == Init => IInv
<1> SUFFICES ASSUME Init PROVE IInv
  OBVIOUS
<1>1. AInv
  BY NoAccountType DEF Init, AccountInit, AInv, Sheet, Unique
<1>2. RInv
  BY ReserveInitInv DEF Init
<1>3. Rows
  BY DEF Init, Rows
<1> QED
  BY <1>1, <1>2, <1>3 DEF IInv

\* A charge of a policy that is explored.
LEMMA WithChargeType ==
  ASSUME NEW policy \in PolicyRow, NEW c \in Policies
  PROVE  WithCharge(policy, c.rate, c.fixed) \in PolicyRow
<1>1. c.rate \in Nat /\ c.rate <= 10000 /\ c.fixed \in Nat \cup {NoAmount}
  BY BancorAssumption
<1>2. c.fixed # NoAmount => c.fixed \in Nat
  BY <1>1
<1> QED
  BY <1>1, <1>2 DEF WithCharge, PolicyRow

LEMMA ExemptType == Exempt \in PolicyRow
  BY DEF Exempt, PolicyRow

LEMMA ConfigureStep ==
  ASSUME IInv, NEW admin \in Admins, NEW auth, Configure(admin, auth) \/ SetAdmin(admin, auth)
  PROVE  IInv' /\ UNCHANGED <<connectors, accounts, reserveVars>>
<1>1. UNCHANGED <<charges, connectors, accounts, reserveVars>>
  BY DEF Configure, SetAdmin
<1>2. config' \in ConfigRow
  <2>1. CASE Configure(admin, auth)
    BY <2>1, ExemptType DEF Configure, ConfigRow
  <2>2. CASE SetAdmin(admin, auth)
    <3>1. config \in ConfigRow
      BY <2>2, ConfigFields DEF SetAdmin, IInv
    <3> QED
      BY <2>2, <3>1 DEF SetAdmin, ConfigRow
  <2> QED
    BY <2>1, <2>2
<1>3. RInv'
  BY <1>1, RInvUnchanged DEF IInv
<1> QED
  BY <1>1, <1>2, <1>3 DEF IInv, AInv, Rows

LEMMA ChargeStep ==
  ASSUME IInv, NEW c \in Policies, NEW t \in Token, NEW auth,
         \/ SetCharge(c.rate, c.fixed, auth)
         \/ SetSmartCharge(t, c.rate, c.fixed, auth)
         \/ DropSmartCharge(t, auth)
  PROVE  IInv' /\ UNCHANGED <<connectors, accounts, reserveVars>>
<1>1. UNCHANGED <<connectors, accounts, reserveVars>> /\ config.there
  BY DEF SetCharge, SetSmartCharge, DropSmartCharge, CanSetCharge
<1>2. config \in ConfigRow /\ config.policy \in PolicyRow
  BY <1>1, ConfigFields DEF IInv
<1>3. config' \in ConfigRow /\ charges' \in [Token -> ChargeRow \cup {Unset}]
  <2>1. CASE SetCharge(c.rate, c.fixed, auth)
    <3> DEFINE policy == WithCharge(config.policy, c.rate, c.fixed)
    <3>1. policy \in PolicyRow
      BY <1>2, WithChargeType
    <3>2. config' = [config EXCEPT !.policy = policy] /\ charges' = charges
      BY <2>1 DEF SetCharge
    <3> HIDE DEF policy
    <3>3. config' \in ConfigRow
      BY <1>2, <3>1, <3>2 DEF ConfigRow
    <3> QED
      BY <3>2, <3>3 DEF IInv, Rows
  <2>2. CASE SetSmartCharge(t, c.rate, c.fixed, auth)
    <3> DEFINE before == IF charges[t].there THEN charges[t].policy ELSE Exempt
               row == [there |-> TRUE, policy |-> WithCharge(before, c.rate, c.fixed)]
    <3>1. before \in PolicyRow
      <4>1. charges[t].there => charges[t] \in ChargeRow
        BY NoRow DEF IInv, Rows
      <4> QED
        BY <4>1, ExemptType DEF ChargeRow
    <3>2. charges' = [charges EXCEPT ![t] = row] /\ config' = config
      BY <2>2 DEF SetSmartCharge, IInv, Rows
    <3> HIDE DEF before
    <3>3. row \in ChargeRow
      BY <3>1, WithChargeType DEF ChargeRow
    <3> HIDE DEF row
    <3> QED
      BY <1>2, <3>2, <3>3 DEF IInv, Rows
  <2>3. CASE DropSmartCharge(t, auth)
    BY <1>2, <2>3 DEF DropSmartCharge, IInv, Rows
  <2> QED
    BY <2>1, <2>2, <2>3
<1>4. RInv'
  BY <1>1, RInvUnchanged DEF IInv
<1> QED
  BY <1>1, <1>3, <1>4 DEF IInv, AInv, Rows

\* What is paid for a new connector.
Connects(t, v) ==
    /\ core'[BancorAccount] = core[BancorAccount] + v
    /\ connectors[t].balance = 0 /\ connectors'[t].balance = v
    /\ \A s \in Token \ {t} : connectors'[s] = connectors[s]
    /\ UNCHANGED <<stat, reserves>>

LEMMA ConnectStep ==
  ASSUME IInv, NEW t \in Token, NEW v \in Nat, NEW i \in Roots, NEW auth,
         Connect(t, v, i, auth)
  PROVE  IInv' /\ Connects(t, v)
<1> DEFINE row == [there |-> TRUE, balance |-> v, root |-> i]
<1>1. /\ config.there /\ ~connectors[t].there /\ v <= core[config.admin]
      /\ connectors' = [connectors EXCEPT ![t] = row]
      /\ core' = Moved(core, config.admin, BancorAccount, v)
      /\ UNCHANGED <<config, charges, accounts, minAmount, prepaid, reserves, stat, held>>
  BY DEF Connect
<1>2. /\ config.admin \in Account \ {BancorAccount, ReserveAccount}
      /\ BancorAccount \in Account /\ ReserveAccount \in Account
      /\ BancorAccount # ReserveAccount
      /\ core \in [Account -> Nat]
  BY <1>1, ConfigFields, BancorAssumption, ReserveAssumption DEF IInv, RInv, ReserveTypeOK
<1>3. /\ core' \in [Account -> Nat]
      /\ core'[BancorAccount] = core[BancorAccount] + v
  BY <1>1, <1>2, MovedType
<1>4. core'[ReserveAccount] = core[ReserveAccount]
  BY <1>1, <1>2 DEF Moved
<1>5. RInv'
  <2>1. ReserveTypeOK'
    BY <1>1, <1>3 DEF IInv, RInv, ReserveTypeOK
  <2>2. ReserveCovers'
    BY <1>1, <1>4 DEF IInv, RInv, ReserveCovers
  <2>3. Unminted' /\ ClaimsCovered' /\ UnitsHeld'
    BY <1>1 DEF IInv, RInv, Unminted, ClaimsCovered, UnitsHeld
  <2> QED
    BY <2>1, <2>2, <2>3 DEF RInv
<1>6. connectors[t] = NoConnector /\ connectors \in [Token -> ConnectorRow \cup {NoConnector}]
  BY <1>1 DEF IInv, Rows, ConnectorRow
<1>7. row \in ConnectorRow
  BY DEF ConnectorRow
<1>8. /\ connectors' \in [Token -> ConnectorRow \cup {NoConnector}]
      /\ connectors'[t] = row /\ row.balance = v
      /\ \A s \in Token \ {t} : connectors'[s] = connectors[s]
  BY <1>1, <1>6, <1>7
<1> HIDE DEF row
<1>9. AInv' /\ Rows'
  BY <1>1, <1>8 DEF IInv, AInv, Rows
<1> QED
  BY <1>1, <1>3, <1>5, <1>6, <1>8, <1>9, NoRow DEF IInv, Connects

\* A call of the administration either connects a token or moves nothing.
Steady == UNCHANGED <<connectors, accounts, reserveVars>>

LEMMA AdministerStep ==
  ASSUME IInv, NEW auth, Administer(auth)
  PROVE  IInv' /\ (Steady \/ \E t \in Token, v \in Nat : Connects(t, v))
<1>1. Deposits \subseteq Nat
  BY BancorAssumption
<1>2. ASSUME NEW admin \in Admins, Configure(admin, auth) \/ SetAdmin(admin, auth)
      PROVE  IInv' /\ Steady
  BY <1>2, ConfigureStep DEF Steady
<1>3. ASSUME NEW c \in Policies, SetCharge(c.rate, c.fixed, auth)
      PROVE  IInv' /\ Steady
  <2>1. CASE Token = {}
    <3>1. UNCHANGED <<charges, connectors, accounts, reserveVars>> /\ config.there
      BY <1>3 DEF SetCharge, CanSetCharge
    <3>2. config \in ConfigRow /\ config.policy \in PolicyRow
      BY <3>1, ConfigFields DEF IInv
    <3> DEFINE policy == WithCharge(config.policy, c.rate, c.fixed)
    <3>3. policy \in PolicyRow
      BY <3>2, WithChargeType
    <3>4. config' = [config EXCEPT !.policy = policy]
      BY <1>3 DEF SetCharge
    <3> HIDE DEF policy
    <3>5. config' \in ConfigRow
      BY <3>2, <3>3, <3>4 DEF ConfigRow
    <3>6. RInv'
      BY <3>1, RInvUnchanged DEF IInv
    <3> QED
      BY <3>1, <3>5, <3>6 DEF IInv, AInv, Rows, Steady
  <2>2. CASE Token # {}
    BY <1>3, <2>2, ChargeStep DEF Steady
  <2> QED
    BY <2>1, <2>2
<1>4. ASSUME NEW c \in Policies, NEW t \in Token, SetSmartCharge(t, c.rate, c.fixed, auth)
      PROVE  IInv' /\ Steady
  BY <1>4, ChargeStep DEF Steady
<1>5. ASSUME NEW t \in Token, DropSmartCharge(t, auth)
      PROVE  IInv' /\ Steady
  <2>1. UNCHANGED <<config, connectors, accounts, reserveVars>>
    BY <1>5 DEF DropSmartCharge
  <2>2. charges' \in [Token -> ChargeRow \cup {Unset}]
    BY <1>5 DEF DropSmartCharge, IInv, Rows
  <2>3. RInv'
    BY <2>1, RInvUnchanged DEF IInv
  <2> QED
    BY <2>1, <2>2, <2>3 DEF IInv, AInv, Rows, Steady
<1>6. ASSUME NEW t \in Token, NEW v \in Deposits, NEW i \in Roots, Connect(t, v, i, auth)
      PROVE  IInv' /\ \E s \in Token, u \in Nat : Connects(s, u)
  BY <1>1, <1>6, ConnectStep
<1> QED
  BY <1>2, <1>3, <1>4, <1>5, <1>6 DEF Administer

LEMMA NextIInv == IInv /\ [Next]_vars => IInv'
<1> SUFFICES ASSUME IInv, [Next]_vars PROVE IInv'
  OBVIOUS
<1>1. ASSUME NEW auth, AccountCall(auth), UNCHANGED <<reserveVars, bancorVars>>
      PROVE  IInv'
  BY <1>1, AccountCallInv, RInvUnchanged DEF IInv, Rows, bancorVars
<1>2. ASSUME NEW auth, ReserveCall(auth), UNCHANGED <<accounts, bancorVars>>
      PROVE  IInv'
  BY <1>2, ReserveCallInv DEF IInv, AInv, Rows, bancorVars
<1>3. ASSUME NEW t \in Token, NEW auth, Convert(t, auth)
      PROVE  IInv'
  BY <1>3, ConvertStep
<1>4. ASSUME NEW auth, Administer(auth)
      PROVE  IInv'
  BY <1>4, AdministerStep
<1>5. CASE UNCHANGED vars
  BY <1>5, RInvUnchanged DEF vars, bancorVars, IInv, AInv, Rows
<1> QED
  BY <1>1, <1>2, <1>3, <1>4, <1>5 DEF Next

LEMMA Invariance == Spec => []IInv
<1>1. Init => IInv
  BY InitIInv
<1>2. IInv /\ [Next]_vars => IInv'
  BY NextIInv
<1> QED
  BY <1>1, <1>2, PTL DEF Spec

\* The types of Bancor: every row of its tables is one the code may write.
THEOREM TypeCorrect == Spec => []TypeOK
<1>1. IInv => TypeOK
  <2> SUFFICES ASSUME IInv PROVE TypeOK
    OBVIOUS
  <2>1. AccountTypeOK /\ ReserveTypeOK
    BY DEF IInv, AInv, Sheet, AccountTypeOK, RInv
  <2>2. config = Unset \/ config.admin \in Account
    BY ConfigFields, NoRow DEF IInv, Rows, ConfigRow
  <2>3. ASSUME NEW t \in Token
        PROVE  /\ connectors[t] = NoConnector \/
                  connectors[t] \in [there : {TRUE}, balance : Int, root : Roots]
               /\ charges[t] = Unset \/ charges[t].there
    BY DEF IInv, Rows, ConnectorRow, ChargeRow
  <2> QED
    BY <2>1, <2>2, <2>3 DEF TypeOK
<1> QED
  BY <1>1, Invariance, PTL

\* Whatever is converted, sold to the reserve or bought at its rate, what the
\* reserve holds covers what is prepaid and what underlies its derivatives, but
\* for the debts of negative underlying assets.
THEOREM ReserveIsCovered == Spec => []ReserveCovers
<1>1. IInv => ReserveCovers
  BY DEF IInv, RInv
<1> QED
  BY <1>1, Invariance, PTL

\* Conversions that claim units, in any precision and with any rounding of the
\* claim, leave all the others their rate.
THEOREM ClaimsAreCovered == Spec => []ClaimsCovered
<1>1. IInv => ClaimsCovered
  BY DEF IInv, RInv
<1> QED
  BY <1>1, Invariance, PTL

\* The units that conversions issue and retire are the supply, and within the
\* maximum.
THEOREM UnitsAreHeld == Spec => []UnitsHeld
<1>1. IInv => UnitsHeld
  BY DEF IInv, RInv
<1> QED
  BY <1>1, Invariance, PTL

-----------------------------------------------------------------------------
(* The books.                                                               *)

\* Calls of the other contracts take nothing of what this one holds.
LEMMA ReserveCallSpares ==
  ASSUME IInv, NEW auth, ReserveCall(auth)
  PROVE  core'[BancorAccount] >= core[BancorAccount]
<1>1. /\ core \in [Account -> Nat] /\ core[BancorAccount] \in Nat
      /\ BancorAccount \in Account \ Holders /\ BancorAccount # ReserveAccount
      /\ Payees \subseteq Account
      /\ \A t \in Token : Issuer[t] # BancorAccount
  BY BancorAssumption, ReserveAssumption DEF IInv, RInv, ReserveTypeOK
<1>2. ASSUME NEW bank \in [Account -> Nat], NEW a, NEW b, NEW v,
             a # BancorAccount, b # BancorAccount
      PROVE  Moved(bank, a, b, v)[BancorAccount] = bank[BancorAccount]
  BY <1>1, <1>2 DEF Moved
<1>3. ASSUME core'[BancorAccount] = core[BancorAccount]
      PROVE  core'[BancorAccount] >= core[BancorAccount]
  BY <1>1, <1>3
<1>4. ASSUME NEW a \in Holders, NEW to \in Payees, NEW v \in Amounts, Send(a, to, v, auth)
      PROVE  core'[BancorAccount] >= core[BancorAccount]
  <2>1. v > 0 /\ v \in Int /\ core' = Moved(core, a, to, v) /\ a # BancorAccount
    BY <1>1, <1>4, ReserveAssumption DEF Send
  <2>2. CASE to # BancorAccount
    BY <1>1, <1>2, <1>3, <2>1, <2>2
  <2>3. CASE to = BancorAccount
    <3>1. core'[BancorAccount] = core[BancorAccount] + v
      BY <1>1, <2>1, <2>3 DEF Moved
    <3> QED
      BY <1>1, <2>1, <3>1
  <2> QED
    BY <2>2, <2>3
<1>5. ASSUME NEW creator \in Holders, NEW n \in PrepaidNames, NEW v \in Amounts,
             Prepay(creator, n, v, auth)
      PROVE  core'[BancorAccount] = core[BancorAccount]
  BY <1>1, <1>2, <1>5 DEF Prepay
<1>6. ASSUME NEW t \in Token, NEW d \in Maxima, NEW u \in Amounts, ReserveMint(t, d, u, auth)
      PROVE  core'[BancorAccount] = core[BancorAccount]
  BY <1>1, <1>2, <1>6 DEF ReserveMint
<1>7. ASSUME NEW t \in Token, NEW a \in Holders, NEW v \in Units, Claim(t, a, v, auth)
      PROVE  core'[BancorAccount] = core[BancorAccount]
  BY <1>1, <1>2, <1>7 DEF Claim
<1>8. ASSUME NEW v \in MinAmounts, SetMinAmount(v, auth)
      PROVE  core' = core
  BY <1>8 DEF SetMinAmount
<1>9. ASSUME NEW t \in Token, NEW d \in Maxima, NEW mintable \in BOOLEAN,
             MintToken(t, d, mintable, auth)
      PROVE  core' = core
  BY <1>9 DEF MintToken
<1>10. ASSUME NEW t \in Token, NEW a, NEW v \in Units, Issue(t, a, v, auth) \/ Burn(t, a, v, auth)
       PROVE  core' = core
  BY <1>10 DEF Issue, Burn
<1> QED
  BY <1>3, <1>4, <1>5, <1>6, <1>7, <1>8, <1>9, <1>10 DEF ReserveCall

\* What a step may do to what the contract holds and what it has booked.
Gained == core'[BancorAccount] - core[BancorAccount]
Difference(t) == connectors'[t].balance - connectors[t].balance

Booked(t) ==
    /\ \A s \in Token \ {t} : connectors'[s] = connectors[s]
    /\ Gained = Difference(t)

Unbooked ==
    /\ connectors' = connectors
    /\ Gained >= 0 \/ reserves' # reserves

LEMMA StepBooked == IInv /\ [Next]_vars => Unbooked \/ \E t \in Token : Booked(t)
<1> SUFFICES ASSUME IInv, [Next]_vars
             PROVE  Unbooked \/ \E t \in Token : Booked(t)
  OBVIOUS
<1>1. core[BancorAccount] \in Nat /\ \A t \in Token : connectors[t].balance \in Int
  BY BalanceType, BancorAssumption DEF IInv, RInv, ReserveTypeOK
<1>2. ASSUME NEW t \in Token, NEW delta \in Int, NEW n \in Int, Converts(t, delta, n)
      PROVE  Booked(t)
  <2> DEFINE held0 == core[BancorAccount]
             held1 == core'[BancorAccount]
             booked0 == connectors[t].balance
             booked1 == connectors'[t].balance
  <2>1. held0 \in Int /\ booked0 \in Int
    BY <1>1
  <2>2. /\ held1 = held0 + delta /\ booked1 = booked0 + delta
        /\ \A s \in Token \ {t} : connectors'[s] = connectors[s]
    BY <1>2 DEF Converts
  <2> HIDE DEF held0, held1, booked0, booked1
  <2>3. held1 - held0 = booked1 - booked0
    BY <2>1, <2>2
  <2>4. Gained = Difference(t)
    BY <2>3 DEF Gained, Difference, held0, held1, booked0, booked1
  <2> QED
    BY <2>2, <2>4 DEF Booked
<1>3. ASSUME core' = core, connectors' = connectors
      PROVE  Unbooked
  BY <1>1, <1>3 DEF Unbooked, Gained
<1>4. ASSUME NEW t \in Token, NEW v \in Nat, Connects(t, v)
      PROVE  Booked(t)
  <2>1. Gained = v
    BY <1>1, <1>4 DEF Connects, Gained
  <2>2. Difference(t) = v
    BY <1>4 DEF Connects, Difference
  <2>3. \A s \in Token \ {t} : connectors'[s] = connectors[s]
    BY <1>4 DEF Connects
  <2> QED
    BY <2>1, <2>2, <2>3 DEF Booked
<1>5. ASSUME NEW t \in Token, Buys(t) \/ Sells(t)
      PROVE  Unbooked \/ Booked(t)
  <2>1. ASSUME NEW delta \in Nat, NEW n \in Nat, Converts(t, -delta, -n)
        PROVE  Booked(t)
    <3>1. -delta \in Int /\ -n \in Int
      OBVIOUS
    <3> QED
      BY <1>2, <2>1, <3>1
  <2>2. ASSUME NEW n \in Nat, Redeems(t, n)
        PROVE  Unbooked
    BY <2>2 DEF Redeems, Unbooked
  <2> QED
    BY <1>2, <1>5, <2>1, <2>2 DEF Buys, Sells
<1>6. ASSUME NEW auth, AccountCall(auth), UNCHANGED <<reserveVars, bancorVars>>
      PROVE  Unbooked
  BY <1>3, <1>6 DEF reserveVars, bancorVars
<1>7. ASSUME NEW auth, ReserveCall(auth), UNCHANGED <<accounts, bancorVars>>
      PROVE  Unbooked
  <2>1. core'[BancorAccount] \in Nat
    <3>1. IInv'
      BY <1>7, NextIInv DEF Next
    <3> QED
      BY <3>1, BancorAssumption DEF IInv, RInv, ReserveTypeOK
  <2>2. core'[BancorAccount] >= core[BancorAccount]
    BY <1>7, ReserveCallSpares
  <2>3. Gained >= 0
    BY <1>1, <2>1, <2>2 DEF Gained
  <2> QED
    BY <1>7, <2>3 DEF Unbooked, bancorVars
<1>8. ASSUME NEW t \in Token, NEW auth, Convert(t, auth)
      PROVE  Unbooked \/ Booked(t)
  BY <1>5, <1>8, ConvertStep
<1>9. ASSUME NEW auth, Administer(auth)
      PROVE  Unbooked \/ \E t \in Token : Booked(t)
  BY <1>3, <1>4, <1>9, AdministerStep DEF Steady, reserveVars
<1>10. CASE UNCHANGED vars
  BY <1>3, <1>10 DEF vars, reserveVars, bancorVars
<1> QED
  BY <1>6, <1>7, <1>8, <1>9, <1>10 DEF Next

\* However the price of a conversion is found and its parts are rounded, and in
\* whatever precision it is paid, what the contract holds moves with the balance
\* of the one connector it is booked at; what moves it without is sent to it, or
\* is redeemed at the reserve.
THEOREM BooksAreBalanced == Spec => BooksBalance
<1>1. IInv /\ [Next]_vars =>
        [LET gained == core'[BancorAccount] - core[BancorAccount]
             booked(t) == connectors'[t].balance - connectors[t].balance
         IN  \/ /\ connectors' = connectors
                /\ gained >= 0 \/ reserves' # reserves
             \/ \E t \in Token :
                   /\ \A s \in Token \ {t} : connectors'[s] = connectors[s]
                   /\ gained = booked(t)]_vars
  BY StepBooked DEF Unbooked, Booked, Gained, Difference
<1> QED
  BY <1>1, Invariance, PTL DEF Spec, BooksBalance

-----------------------------------------------------------------------------
(* The rate of the reserve.                                                 *)

Issued(t) == stat'[t].supply - stat[t].supply

Paid == core'[BancorAccount] + core'[ReserveAccount]
          - (core[BancorAccount] + core[ReserveAccount])

FairStep(t) ==
    LET n == Issued(t)
        rate == reserves[t].rate
    IN  reserves[t].there /\ core' # core /\ n > 0 =>
          (Paid + 1) * rate[2] > n * rate[1]

\* A token of which no more are issued is not priced.
LEMMA QuietIsFair ==
  ASSUME IInv, NEW t \in Token, NEW n \in Nat, stat'[t].supply = stat[t].supply - n
  PROVE  FairStep(t)
<1>1. ~(Issued(t) > 0)
  BY SupplyType DEF Issued
<1> QED
  BY <1>1 DEF FairStep

LEMMA SameIsFair ==
  ASSUME IInv, NEW t \in Token, stat'[t].supply = stat[t].supply
  PROVE  FairStep(t)
<1>1. stat'[t].supply = stat[t].supply - 0
  BY SupplyType
<1> QED
  BY <1>1, QuietIsFair

LEMMA FundsType ==
  ASSUME IInv
  PROVE  core[BancorAccount] \in Nat /\ core[ReserveAccount] \in Nat
  BY BancorAssumption, ReserveAssumption DEF IInv, RInv, ReserveTypeOK

LEMMA BoughtIsFair ==
  ASSUME IInv, NEW t \in Token, NEW delta \in Nat, NEW n \in Nat \ {0},
         Paid = delta, Issued(t) = n, Bid(t, n, delta)
  PROVE  FairStep(t)
<1>1. ASSUME reserves[t].there
      PROVE  (Paid + 1) * reserves[t].rate[2] > n * reserves[t].rate[1]
  <2> DEFINE r1 == Rate(t)[1]
             r2 == Rate(t)[2]
  <2>1. r1 \in Int /\ r2 \in Nat /\ n * r1 < (delta + 1) * r2
    BY <1>1, RateFields DEF Bid
  <2>2. r1 = reserves[t].rate[1] /\ r2 = reserves[t].rate[2]
    BY DEF Rate
  <2> HIDE DEF r1, r2
  <2>3. n * r1 \in Int /\ (delta + 1) * r2 \in Int
    BY <2>1
  <2>4. (Paid + 1) * r2 > n * r1
    BY <2>1, <2>3
  <2> QED
    BY <2>2, <2>4
<1> QED
  BY <1>1 DEF FairStep

LEMMA ConvertIsFair ==
  ASSUME IInv, NEW s \in Token, Buys(s) \/ Sells(s), NEW t \in Token
  PROVE  FairStep(t)
<1>1. /\ core[BancorAccount] \in Nat /\ core[ReserveAccount] \in Nat
      /\ stat[t].supply \in Nat
  BY FundsType, SupplyType
<1>2. CASE s # t
  <2>1. stat'[t] = stat[t]
    BY <1>2 DEF Buys, Sells, Converts, Redeems
  <2> QED
    BY <2>1, SameIsFair
<1>3. CASE s = t
  <2>1. ASSUME NEW delta \in Nat, NEW n \in Nat \ {0}, Converts(t, delta, n), Bid(t, n, delta)
        PROVE  FairStep(t)
    <3>1. Paid = delta /\ Issued(t) = n
      BY <1>1, <2>1 DEF Converts, Paid, Issued
    <3> QED
      BY <2>1, <3>1, BoughtIsFair
  <2>2. ASSUME NEW delta \in Nat, NEW n \in Nat \ {0}, Converts(t, -delta, -n)
        PROVE  FairStep(t)
    <3>1. stat'[t].supply = stat[t].supply - n
      BY <1>1, <2>2 DEF Converts
    <3> QED
      BY <3>1, QuietIsFair
  <2>3. ASSUME NEW n \in Nat \ {0}, Redeems(t, n)
        PROVE  FairStep(t)
    BY <2>3, QuietIsFair DEF Redeems
  <2> QED
    BY <1>3, <2>1, <2>2, <2>3 DEF Buys, Sells
<1> QED
  BY <1>2, <1>3

LEMMA ReserveCallIsFair ==
  ASSUME IInv, NEW auth, ReserveCall(auth), NEW t \in Token
  PROVE  FairStep(t)
<1>1. Units \subseteq Nat /\ stat \in [Token -> StatRow]
  BY ReserveAssumption DEF IInv, RInv, ReserveTypeOK
<1>2. ASSUME core' = core PROVE FairStep(t)
  BY <1>2 DEF FairStep
<1>3. ASSUME stat' = stat PROVE FairStep(t)
  BY <1>3, SameIsFair
<1>4. ASSUME NEW s \in Token, NEW d \in Maxima, NEW u \in Amounts, ReserveMint(s, d, u, auth)
      PROVE  FairStep(t)
  <2>1. CASE s = t
    BY <1>4, <2>1 DEF ReserveMint, FairStep
  <2>2. CASE s # t
    <3>1. stat'[t] = stat[t]
      BY <1>1, <1>4, <2>2 DEF ReserveMint, Minted
    <3> QED
      BY <3>1, SameIsFair
  <2> QED
    BY <2>1, <2>2
<1>5. ASSUME NEW s \in Token, NEW d \in Maxima, NEW mintable \in BOOLEAN,
             MintToken(s, d, mintable, auth)
      PROVE  core' = core
  BY <1>5 DEF MintToken
<1>6. ASSUME NEW s \in Token, NEW a, NEW v \in Units, Issue(s, a, v, auth) \/ Burn(s, a, v, auth)
      PROVE  core' = core
  BY <1>6 DEF Issue, Burn
<1>7. ASSUME NEW s \in Token, NEW a \in Holders, NEW v \in Units, Claim(s, a, v, auth)
      PROVE  FairStep(t)
  <2>1. v \in Nat /\ stat' = Burned(s, v)
    BY <1>1, <1>7 DEF Claim
  <2>2. stat'[s].supply = stat[s].supply - v /\ \A x \in Token \ {s} : stat'[x] = stat[x]
    BY <1>1, <2>1 DEF Burned, StatRow
  <2> QED
    BY <2>1, <2>2, QuietIsFair, SameIsFair
<1>8. ASSUME NEW v \in MinAmounts, SetMinAmount(v, auth)
      PROVE  core' = core
  BY <1>8 DEF SetMinAmount
<1>9. ASSUME NEW a \in Holders, NEW n, NEW v \in Amounts,
             Send(a, n, v, auth) \/ Prepay(a, n, v, auth)
      PROVE  stat' = stat
  BY <1>9 DEF Send, Prepay
<1> QED
  BY <1>2, <1>3, <1>4, <1>5, <1>6, <1>7, <1>8, <1>9 DEF ReserveCall

LEMMA StepIsFair ==
  ASSUME IInv, [Next]_vars, NEW t \in Token
  PROVE  FairStep(t)
<1>1. ASSUME core' = core PROVE FairStep(t)
  BY <1>1 DEF FairStep
<1>2. ASSUME NEW auth, AccountCall(auth), UNCHANGED <<reserveVars, bancorVars>>
      PROVE  core' = core
  BY <1>2 DEF reserveVars
<1>3. ASSUME NEW auth, ReserveCall(auth)
      PROVE  FairStep(t)
  BY <1>3, ReserveCallIsFair
<1>4. ASSUME NEW s \in Token, NEW auth, Convert(s, auth)
      PROVE  FairStep(t)
  BY <1>4, ConvertStep, ConvertIsFair
<1>5. ASSUME NEW auth, Administer(auth)
      PROVE  FairStep(t)
  <2>1. CASE Steady
    BY <1>1, <2>1 DEF Steady, reserveVars
  <2>2. ASSUME NEW s \in Token, NEW v \in Nat, Connects(s, v)
        PROVE  FairStep(t)
    BY <2>2, SameIsFair DEF Connects
  <2> QED
    BY <1>5, <2>1, <2>2, AdministerStep
<1>6. CASE UNCHANGED vars
  BY <1>1, <1>6 DEF vars, reserveVars
<1> QED
  BY <1>1, <1>2, <1>3, <1>4, <1>5, <1>6 DEF Next

\* A token with a reserve is issued for no less than its rate, but for a unit: on
\* either branch of a purchase, of a given and of a required amount.
THEOREM RateIsKept == Spec => AtLeastTheRate
<1>1. IInv /\ [Next]_vars =>
        [\A t \in Token :
           LET n == stat'[t].supply - stat[t].supply
               funds == core[BancorAccount] + core[ReserveAccount]
               paid == core'[BancorAccount] + core'[ReserveAccount] - funds
               rate == reserves[t].rate
           IN  reserves[t].there /\ core' # core /\ n > 0 =>
                 (paid + 1) * rate[2] > n * rate[1]]_vars
  BY StepIsFair DEF FairStep, Issued, Paid
<1> QED
  BY <1>1, Invariance, PTL DEF Spec, AtLeastTheRate

-----------------------------------------------------------------------------
(* There and back.                                                          *)

\* What n units more add to a power of the supply.
Growth(S, i, n) == Power(S + n, i) - Power(S, i)

\* m connected tokens pay for n units of a supply S at the curve.
Pays(S, C, i, n, m) == C * Growth(S, i, n) <= m * Power(S, i)

LEMMA GrowthForm ==
  ASSUME NEW S \in Nat, NEW i \in {1, 2}, NEW n \in Nat
  PROVE  /\ i = 1 => Power(S, i) = S /\ Growth(S, i, n) = n
         /\ i = 2 => Power(S, i) = S * S /\ Growth(S, i, n) = (2 * S + n) * n
<1>1. CASE i = 1
  BY <1>1 DEF Power, Growth
<1>2. CASE i = 2
  <2>1. (S + n) * (S + n) = S * S + (2 * S + n) * n
    OBVIOUS
  <2>2. S * S \in Nat /\ (2 * S + n) * n \in Nat
    BY Product
  <2>3. Power(S, i) = S * S /\ Power(S + n, i) = (S + n) * (S + n)
    BY <1>2 DEF Power
  <2>4. Growth(S, i, n) = (2 * S + n) * n
    BY <2>1, <2>2, <2>3 DEF Growth
  <2> QED
    BY <1>2, <2>3, <2>4
<1> QED
  BY <1>1, <1>2

LEMMA GrowthType ==
  ASSUME NEW S \in Nat, NEW i \in {1, 2}, NEW n \in Nat
  PROVE  /\ Power(S, i) \in Nat /\ Growth(S, i, n) \in Nat
         /\ Power(S + n, i) = Power(S, i) + Growth(S, i, n)
<1>1. CASE i = 1
  BY <1>1 DEF Power, Growth
<1>2. CASE i = 2
  <2>1. Power(S, i) = S * S /\ Growth(S, i, n) = (2 * S + n) * n
    BY <1>2, GrowthForm
  <2>2. S * S \in Nat /\ (2 * S + n) * n \in Nat /\ (S + n) * (S + n) \in Nat
    BY Product
  <2>3. Power(S + n, i) = (S + n) * (S + n)
    BY <1>2 DEF Power
  <2>4. Power(S, i) \in Nat /\ Power(S + n, i) \in Nat /\ Growth(S, i, n) \in Nat
    BY <2>1, <2>2, <2>3
  <2> QED
    BY <2>4 DEF Growth
<1> QED
  BY <1>1, <1>2

\* The curve is steeper further out: fewer units grow it by a smaller share.
LEMMA GrowthShare ==
  ASSUME NEW S \in Nat, NEW i \in {1, 2}, NEW n \in Nat, NEW w \in Nat, n <= w
  PROVE  Growth(S, i, n) * w <= Growth(S, i, w) * n
<1>1. CASE i = 1
  <2>1. Growth(S, i, n) = n /\ Growth(S, i, w) = w
    BY <1>1, GrowthForm
  <2>2. n * w = w * n /\ n * w \in Nat
    BY Product
  <2> QED
    BY <2>1, <2>2
<1>2. CASE i = 2
  <2>1. Growth(S, i, n) = (2 * S + n) * n /\ Growth(S, i, w) = (2 * S + w) * w
    BY <1>2, GrowthForm
  <2>2. n * w \in Nat /\ 2 * S + n \in Nat /\ 2 * S + w \in Nat
    BY Product
  <2>3. (2 * S + n) * (n * w) <= (2 * S + w) * (n * w)
    BY <2>2, ProductMono
  <2>4. /\ ((2 * S + n) * n) * w = (2 * S + n) * (n * w)
        /\ ((2 * S + w) * w) * n = (2 * S + w) * (n * w)
    OBVIOUS
  <2> QED
    BY <2>1, <2>3, <2>4
<1> QED
  BY <1>1, <1>2

\* Of q connected tokens m buy n units where all of them would buy the curve's.
PartBuys(S, C, i, q, n, m) == AtLeast(CurveSmart(S, C, i, q), q * n, m)

\* The part of an amount that is paid for what it buys pays for it.
LEMMA PartPays ==
  ASSUME NEW S \in Nat, NEW C \in Nat \ {0}, NEW i \in {1, 2}, NEW q \in Nat \ {0},
         NEW n \in Nat, NEW m \in Nat \ {0}, m <= q,
         PartBuys(S, C, i, q, n, m)
  PROVE  Pays(S, C, i, n, m)
<1> DEFINE x == CurveSmart(S, C, i, q)
<1>1. Number(x) /\ x.s = S /\ x.i = i /\ x.p = C + q /\ x.q = C
  BY DEF CurveSmart, Number
<1>a. AtLeast(x, q * n, m)
  BY DEF PartBuys
<1> HIDE DEF x
<1>2. q * n \in Nat
  BY Product
<1>3. CASE i = 1
  <2>1. C * (S * m + q * n) <= S * (C + q) * m
    BY <1>1, <1>a, <1>2, <1>3, AtLeastLinear
  <2>2. /\ C * (S * m + q * n) = C * (S * m) + (C * n) * q
        /\ S * (C + q) * m = C * (S * m) + (m * S) * q
    OBVIOUS
  <2>3. C * n \in Nat /\ m * S \in Nat /\ S * m \in Nat
    BY Product
  <2>4. C * (S * m) \in Nat /\ (C * n) * q \in Nat /\ (m * S) * q \in Nat
    BY <2>3, Product
  <2>5. (C * n) * q <= (m * S) * q
    BY <2>1, <2>2, <2>4
  <2>6. C * n <= m * S
    BY <2>3, <2>5, FactorBelow
  <2> QED
    BY <1>3, <2>6, GrowthForm DEF Pays
<1>4. CASE i = 2
  <2> DEFINE B == C * (S * S) * (m * m)
             L == C * (2 * S * m + q * n) * n
             R == S * S * m * m
  <2>1. C * ((S * m + q * n) * (S * m + q * n)) <= S * S * (C + q) * (m * m)
    BY <1>1, <1>a, <1>2, <1>4, AtLeastSquare
  <2>2. S * S * (C + q) * (m * m) = B + R * q
    OBVIOUS
  <2>3. C * ((S * m + q * n) * (S * m + q * n)) = B + L * q
    <3>1. (S * m + q * n) * (S * m + q * n) = (S * S) * (m * m) + ((2 * S * m + q * n) * n) * q
      OBVIOUS
    <3> QED
      BY <3>1
  <2>4. S * m \in Nat /\ m * m \in Nat /\ S * S \in Nat
    BY Product
  <2>5. 2 * S * m + q * n \in Nat /\ C * (S * S) \in Nat /\ S * S * m \in Nat
    BY <1>2, <2>4, Product
  <2>6. B \in Nat /\ R \in Nat /\ C * (2 * S * m + q * n) \in Nat
    BY <2>4, <2>5, Product
  <2>7. L \in Nat
    BY <2>6, Product
  <2>8. R * q \in Nat /\ L * q \in Nat
    BY <2>6, <2>7, Product
  <2>9. L <= R
    <3> HIDE DEF B, L, R
    <3>1. L * q <= R * q
      BY <2>1, <2>2, <2>3, <2>6, <2>8
    <3> QED
      BY <2>6, <2>7, <3>1, FactorBelow
  <2> DEFINE g == (2 * S + n) * n
  <2>10. g \in Nat /\ C * g \in Nat /\ m * (S * S) \in Nat
    <3>1. g \in Nat
      BY Product
    <3> HIDE DEF g
    <3> QED
      BY <2>4, <3>1, Product
  <2>11. (C * g) * m <= L
    <3>1. m * n <= q * n /\ m * n \in Nat
      BY ProductMono, Product
    <3>2. 2 * S * m + m * n <= 2 * S * m + q * n /\ 2 * S * m + m * n \in Nat
      BY <1>2, <2>4, <3>1
    <3>3. C * (2 * S * m + m * n) <= C * (2 * S * m + q * n) /\ C * (2 * S * m + m * n) \in Nat
      BY <2>5, <3>2, ProductMono, Product
    <3>4. C * (2 * S * m + m * n) * n <= L
      BY <2>6, <3>3, ProductMono
    <3>5. (C * g) * m = C * (2 * S * m + m * n) * n
      OBVIOUS
    <3> QED
      BY <3>4, <3>5
  <2>12. (m * (S * S)) * m = R
    OBVIOUS
  <2>13. (C * g) * m <= (m * (S * S)) * m
    <3>1. (C * g) * m \in Nat
      BY <2>10, Product
    <3> HIDE DEF L, R
    <3> QED
      BY <2>6, <2>7, <2>9, <2>11, <2>12, <3>1
  <2>14. C * g <= m * (S * S)
    <3> HIDE DEF g
    <3> QED
      BY <2>10, <2>13, FactorBelow
  <2> QED
    BY <1>4, <2>14, GrowthForm DEF Pays
<1> QED
  BY <1>3, <1>4

\* What a number is at least is below what it is less than.
LEMMA AtLeastBelow ==
  ASSUME NEW x, Number(x), NEW a \in Nat, NEW b \in Nat \ {0}, NEW c \in Nat,
         AtLeast(x, a, b), ~AtLeast(x, c, 1)
  PROVE  a < c * b
<1> DEFINE s == x.s
           p == x.p
           q == x.q
           u == s * b + a
           v == s + c
<1>1. /\ s \in Nat /\ p \in Nat /\ q \in Nat /\ s * b \in Nat /\ u \in Nat /\ v \in Nat
      /\ s * p \in Nat /\ s * s * p \in Nat /\ c * b \in Nat /\ v * b \in Nat
  BY NumberFields, Product
<1>2. v * b = s * b + c * b /\ s * 1 + c = v
  BY <1>1
<1>3. u < v * b
  <2>1. CASE x.i = 1
    <3>1. q * u <= s * p * b /\ ~(q * v <= s * p * 1)
      BY <1>2, <2>1, AtLeastLinear
    <3>2. s * p * 1 = s * p
      BY <1>1
    <3> HIDE DEF u, v
    <3>3. q * v \in Nat /\ q * u \in Nat /\ (q * v) * b \in Nat /\ s * p * b \in Nat
      BY <1>1, Product
    <3> DEFINE k == s * p
    <3>4. k \in Nat /\ k < q * v /\ q * u <= k * b
      BY <1>1, <3>1, <3>2, <3>3
    <3> HIDE DEF k
    <3>5. k * b < (q * v) * b
      BY <3>3, <3>4, ProductStrict
    <3>6. k * b \in Nat /\ (q * v) * b = (v * b) * q /\ q * u = u * q
      BY <1>1, <3>4, Product
    <3>7. u * q < (v * b) * q
      BY <3>3, <3>4, <3>5, <3>6
    <3> QED
      BY <1>1, <3>7, FactorStrict
  <2>2. CASE x.i = 2
    <3> DEFINE k == s * s * p
    <3>1. q * (u * u) <= k * (b * b) /\ ~(q * (v * v) <= k * (1 * 1))
      BY <1>2, <2>2, AtLeastSquare
    <3>2. k \in Nat /\ k * (1 * 1) = k
      BY <1>1
    <3> HIDE DEF u, v, k
    <3>3. u * u \in Nat /\ v * v \in Nat /\ b * b \in Nat \ {0}
      BY <1>1, Product
    <3>4. q * (v * v) \in Nat /\ q * (u * u) \in Nat
      BY <1>1, <3>3, Product
    <3>5. k < q * (v * v)
      BY <3>1, <3>2, <3>4
    <3>6. k * (b * b) < (q * (v * v)) * (b * b)
      BY <3>2, <3>3, <3>4, <3>5, ProductStrict
    <3>7. k * (b * b) \in Nat /\ (q * (v * v)) * (b * b) \in Nat
      BY <3>2, <3>3, <3>4, Product
    <3>8. (q * (v * v)) * (b * b) = ((v * b) * (v * b)) * q /\ q * (u * u) = (u * u) * q
      BY <1>1
    <3>9. (u * u) * q < ((v * b) * (v * b)) * q
      BY <3>1, <3>4, <3>6, <3>7, <3>8
    <3>10. (v * b) * (v * b) \in Nat
      BY <1>1, Product
    <3>11. u * u < (v * b) * (v * b)
      BY <1>1, <3>3, <3>9, <3>10, FactorStrict
    <3> QED
      BY <1>1, <3>11, SquareBelow
  <2> QED
    BY <2>1, <2>2 DEF Number
<1> QED
  BY <1>1, <1>2, <1>3

\* What pays for units is the most they can be sold for at once.
LEMMA SoldBack ==
  ASSUME NEW S \in Nat, NEW C \in Nat \ {0}, NEW i \in {1, 2}, NEW n \in Nat \ {0},
         NEW m \in Nat, Pays(S, C, i, n, m)
  PROVE  Whole(CurveCore(S + n, C + m, i, n)) <= m
<1> DEFINE P == Power(S, i)
           G == Growth(S, i, n)
           T == Power(S + n, i)
           x == Fraction((C + m) * G, T)
           W == Whole(x)
<1>1. P \in Nat /\ G \in Nat /\ T = P + G /\ C * G <= m * P
  <2>1. n \in Nat /\ C * G <= m * P
    BY DEF Pays
  <2>2. P \in Nat /\ G \in Nat /\ T = P + G
    BY <2>1, GrowthType
  <2> QED
    BY <2>1, <2>2
<1>2. T \in Nat \ {0}
  <2>1. S + n \in Nat \ {0}
    OBVIOUS
  <2> QED
    BY <2>1, PowerType
<1>3. (C + m) * G \in Nat
  BY <1>1, Product
<1>4. CurveCore(S + n, C + m, i, n) = x
  <2> DEFINE dC == CurveChange(S + n, C + m, i, n)
  <2>1. dC = (C + m) * (P - T)
    <3>1. S + n - n = S
      OBVIOUS
    <3> QED
      BY <3>1 DEF CurveChange
  <2> HIDE DEF P, G, T
  <2>2. (C + m) * (P - T) = -((C + m) * G)
    BY <1>1
  <2>3. (IF dC > 0 THEN 0 ELSE -dC) = (C + m) * G
    <3> HIDE DEF dC
    <3> DEFINE k == (C + m) * G
    <3>1. k \in Nat /\ dC = -k
      BY <1>3, <2>1, <2>2
    <3> HIDE DEF k
    <3>2. ~(dC > 0) /\ -dC = k
      BY <3>1
    <3>3. (IF dC > 0 THEN 0 ELSE -dC) = k
      BY <3>2
    <3> QED
      BY <3>3 DEF k
  <2> QED
    BY <2>3 DEF CurveCore, T
<1> HIDE DEF P, G, T
<1>5. W \in Nat /\ W * T <= (C + m) * G
  BY <1>2, <1>3, FractionWhole
<1> HIDE DEF W, x
<1>6. C * G \in Nat /\ m * G \in Nat /\ m * P \in Nat /\ W * T \in Nat
  BY <1>1, <1>2, <1>5, Product
<1>7. (C + m) * G = C * G + m * G /\ m * T = m * P + m * G
  BY <1>1
<1>8. W * T <= m * T
  BY <1>1, <1>5, <1>6, <1>7
<1>9. W <= m
  BY <1>2, <1>5, <1>8, FactorBelow
<1> QED
  BY <1>4, <1>9 DEF W

\* What is bought at the curve is paid for at the curve.
LEMMA CurvePays ==
  ASSUME NEW S \in Nat, NEW C \in Nat \ {0}, NEW i \in {1, 2}, NEW q \in Nat \ {0},
         Whole(CurveSmart(S, C, i, q)) > 0
  PROVE  LET x == CurveSmart(S, C, i, q)
         IN  /\ Whole(x) \in Nat /\ Part(q, x) \in Nat \ {0}
             /\ Pays(S, C, i, Whole(x), Part(q, x))
             /\ q * Whole(x) < (Whole(x) + 1) * Part(q, x)
<1> DEFINE x == CurveSmart(S, C, i, q)
           n == Whole(x)
           m == Part(q, x)
<1>1. Number(x) /\ x.q <= x.p
  BY DEF CurveSmart, Number
<1>2. /\ n \in Nat /\ ~AtLeast(x, n + 1, 1)
      /\ m \in 1 .. q /\ AtLeast(x, q * n, m)
  <2> HIDE DEF x
  <2>1. n > 0
    BY DEF x
  <2> QED
    BY <1>1, <2>1, WholePart, PartExists
<1>3. Pays(S, C, i, n, m)
  <2>1. PartBuys(S, C, i, q, n, m)
    BY <1>2 DEF PartBuys
  <2> HIDE DEF n, m, x
  <2> QED
    BY <1>2, <2>1, PartPays
<1>4. q * n < (n + 1) * m
  <2> HIDE DEF n, m, x
  <2>1. q * n \in Nat /\ n + 1 \in Nat /\ m \in Nat \ {0}
    BY <1>2, Product
  <2> QED
    BY <1>1, <1>2, <2>1, AtLeastBelow
<1> QED
  BY <1>2, <1>3, <1>4

\* What is bought at a higher rate than the curve's is fewer units, which are
\* paid for at the curve all the more.
LEMMA FewerPaid ==
  ASSUME NEW S \in Nat, NEW C \in Nat \ {0}, NEW i \in {1, 2}, NEW q \in Nat \ {0},
         NEW w \in Nat, NEW m \in Nat \ {0}, Pays(S, C, i, w, m), q * w < (w + 1) * m,
         NEW r1 \in Nat \ {0}, NEW r2 \in Nat \ {0}, r2 * m < r1 * w,
         NEW n \in Nat, NEW d \in Nat, n * r1 <= q * r2, n * r1 <= d * r2
  PROVE  Pays(S, C, i, n, d)
<1> DEFINE P == Power(S, i)
           G == Growth(S, i, n)
           H == Growth(S, i, w)
<1>1. P \in Nat /\ G \in Nat /\ H \in Nat
  BY GrowthType
<1>2. C * H <= m * P
  BY DEF Pays
<1>3. n <= w
  <2>1. (n * r1) * m <= (q * r2) * m
    <3>1. n * r1 \in Nat /\ q * r2 \in Nat
      BY Product
    <3> QED
      BY <3>1, ProductMono
  <2>2. q * (r2 * m) < q * (r1 * w)
    <3>1. r2 * m \in Nat /\ r1 * w \in Nat
      BY Product
    <3> QED
      BY <3>1, ProductStrict
  <2>3. /\ (n * r1) * m = (n * m) * r1 /\ (q * r2) * m = q * (r2 * m)
        /\ q * (r1 * w) = (q * w) * r1
    OBVIOUS
  <2>4. n * m \in Nat /\ q * w \in Nat /\ r2 * m \in Nat
    BY Product
  <2>5. (n * m) * r1 \in Nat /\ (q * w) * r1 \in Nat /\ q * (r2 * m) \in Nat
    BY <2>4, Product
  <2>6. (n * m) * r1 < (q * w) * r1
    BY <2>1, <2>2, <2>3, <2>5
  <2>7. n * m < q * w
    BY <2>4, <2>6, FactorStrict
  <2>8. n * m < (w + 1) * m
    <3>1. (w + 1) * m \in Nat
      BY Product
    <3> QED
      BY <2>4, <2>7, <3>1
  <2>9. n < w + 1
    BY <2>8, FactorStrict
  <2> QED
    BY <2>9
<1>4. G * w <= H * n
  BY <1>3, GrowthShare
<1> HIDE DEF P, G, H
<1>5. w * r1 \in Nat \ {0}
  <2>1. r2 * m \in Nat /\ r1 * w = w * r1 /\ w * r1 \in Nat
    BY Product
  <2> QED
    BY <2>1
<1> DEFINE k == w * r1
<1>6. (C * G) * k <= (m * P) * (n * r1)
  <2>1. G * w \in Nat /\ H * n \in Nat /\ C * H \in Nat /\ m * P \in Nat
    BY <1>1, Product
  <2>2. C * (G * w) <= C * (H * n)
    BY <1>4, <2>1, ProductMono
  <2>3. (C * H) * n <= (m * P) * n
    BY <1>2, <2>1, ProductMono
  <2>4. C * (H * n) = (C * H) * n /\ C * (G * w) = (C * G) * w
    BY <1>1
  <2>5. (C * G) * w \in Nat /\ (C * H) * n \in Nat /\ (m * P) * n \in Nat
    BY <1>1, <2>1, Product
  <2>6. (C * G) * w <= (m * P) * n
    BY <2>2, <2>3, <2>4, <2>5
  <2>7. ((C * G) * w) * r1 <= ((m * P) * n) * r1
    BY <2>5, <2>6, ProductMono
  <2>8. ((C * G) * w) * r1 = (C * G) * k /\ ((m * P) * n) * r1 = (m * P) * (n * r1)
    BY <1>1
  <2> QED
    BY <2>7, <2>8
<1>7. (m * P) * (n * r1) <= (d * P) * k
  <2>1. /\ n * r1 \in Nat /\ d * r2 \in Nat /\ m * P \in Nat
        /\ m * r2 \in Nat /\ d * P \in Nat /\ r2 * m = m * r2 /\ r1 * w = k
    BY <1>1, Product
  <2>2. (m * P) * (n * r1) <= (m * P) * (d * r2)
    BY <2>1, ProductMono
  <2>3. m * r2 <= k
    <3> HIDE DEF k
    <3> QED
      BY <1>5, <2>1 DEF k
  <2>4. (d * P) * (m * r2) <= (d * P) * k
    <3>1. k \in Nat
      BY <1>5
    <3> HIDE DEF k
    <3> QED
      BY <2>1, <2>3, <3>1, ProductMono
  <2>5. (m * P) * (d * r2) = (d * P) * (m * r2)
    BY <1>1
  <2>6. (m * P) * (n * r1) \in Nat /\ (d * P) * (m * r2) \in Nat /\ (d * P) * k \in Nat
    BY <1>5, <2>1, Product
  <2> QED
    BY <2>2, <2>4, <2>5, <2>6
<1>8. C * G <= d * P
  <2>1. k \in Nat \ {0}
    BY <1>5
  <2> HIDE DEF k
  <2>2. /\ C * G \in Nat /\ d * P \in Nat /\ m * P \in Nat /\ n * r1 \in Nat
    BY <1>1, Product
  <2>3. (C * G) * k \in Nat /\ (m * P) * (n * r1) \in Nat /\ (d * P) * k \in Nat
    BY <2>1, <2>2, Product
  <2>4. (C * G) * k <= (d * P) * k
    BY <1>6, <1>7, <2>3
  <2> QED
    BY <2>1, <2>2, <2>4, FactorBelow
<1> QED
  BY <1>8 DEF Pays, P, G

\* Whatever is bought is paid for at the curve.
LEMMA BuyPays ==
  ASSUME IInv, NEW t \in Token, NEW S \in Nat, NEW C \in Nat \ {0}, NEW i \in {1, 2},
         NEW q \in Nat \ {0}, Whole(BuyPrice(t, S, C, i, q)) > 0
  PROVE  LET x == BuyPrice(t, S, C, i, q)
         IN  Pays(S, C, i, Whole(x), Part(q, x))
<1> DEFINE curve == CurveSmart(S, C, i, q)
           w == Whole(curve)
           m == Part(q, curve)
           y == ReserveSmart(t, q)
           x == BuyPrice(t, S, C, i, q)
<1>1. CASE ~ReserveBetter(t, w, m)
  <2>1. x = curve
    BY <1>1 DEF BuyPrice
  <2> HIDE DEF x
  <2>2. Whole(curve) > 0
    BY <2>1 DEF x
  <2>3. Pays(S, C, i, w, m)
    BY <2>2, CurvePays
  <2> QED
    BY <2>1, <2>3 DEF x
<1>2. CASE ReserveBetter(t, w, m)
  <2> DEFINE r1 == Rate(t)[1]
             r2 == Rate(t)[2]
             n == Whole(y)
             d == Part(q, y)
  <2>1. x = y /\ reserves[t].there /\ w > 0 /\ r1 * w > r2 * m
    BY <1>2 DEF BuyPrice, ReserveBetter
  <2>2. /\ w \in Nat /\ m \in Nat \ {0} /\ Pays(S, C, i, w, m)
        /\ q * w < (w + 1) * m
    BY <2>1, CurvePays
  <2> HIDE DEF curve, w, m
  <2>3. r1 \in Nat \ {0} /\ r2 \in Nat \ {0}
    BY <2>1, <2>2, BetterRate
  <2>4. r2 * m < r1 * w
    <3> HIDE DEF r1, r2
    <3>1. r2 * m \in Nat /\ r1 * w \in Nat
      BY <2>2, <2>3, Product
    <3> QED
      BY <2>1, <3>1
  <2>5. y = Fraction(q * r2, r1)
    BY DEF ReserveSmart
  <2>6. n > 0
    BY <2>1
  <2> HIDE DEF r1, r2, x, y
  <2>7. q * r2 \in Nat
    BY <2>3, Product
  <2>8. n \in Nat /\ n * r1 <= q * r2
    BY <2>3, <2>5, <2>7, FractionWhole
  <2>9. d \in Nat /\ n * r1 <= d * r2
    BY <2>3, <2>5, <2>6, FractionPart
  <2> HIDE DEF n, d
  <2>10. Pays(S, C, i, n, d)
    BY <2>2, <2>3, <2>4, <2>8, <2>9, FewerPaid
  <2> QED
    BY <2>1, <2>10 DEF n, d, x
<1> QED
  BY <1>1, <1>2

LEMMA CurveCoreWhole ==
  ASSUME NEW S \in Nat \ {0}, NEW C \in Int, NEW i \in {1, 2}, NEW k \in Nat
  PROVE  Whole(CurveCore(S, C, i, k)) \in Nat
<1>1. PICK m \in Nat : CurveCore(S, C, i, k) = Fraction(m, Power(S, i))
  BY CurveCoreFraction
<1>2. Power(S, i) \in Nat \ {0}
  BY PowerType
<1> QED
  BY <1>1, <1>2, FractionWhole

\* What is taken back at once: not more than was paid for it.
LEMMA BackIsLess ==
  ASSUME IInv, NEW t \in Token, NEW S \in Nat, NEW C \in Nat \ {0}, NEW i \in {1, 2},
         NEW n \in Nat \ {0}, NEW delta \in Nat, Pays(S, C, i, n, delta), Bid(t, n, delta)
  PROVE  LET x == SellPrice(t, S + n, C + delta, i, n, Same)
         IN  Whole(x) \in Nat /\ Whole(x) <= delta
<1> DEFINE T == S + n
           K == C + delta
           x == SellPrice(t, T, K, i, n, Same)
<1>1. T \in Nat \ {0} /\ K \in Int
  OBVIOUS
<1>2. CASE ~SellsToReserve(t, T, K, i, n)
  <2>1. x = CurveCore(T, K, i, n)
    BY <1>2 DEF SellPrice
  <2>2. Whole(CurveCore(T, K, i, n)) <= delta
    BY SoldBack
  <2>3. Whole(CurveCore(T, K, i, n)) \in Nat
    <3> HIDE DEF T, K, x
    <3>1. n \in Nat
      OBVIOUS
    <3> QED
      BY <1>1, <3>1, CurveCoreWhole
  <2> HIDE DEF T, K, x
  <2> QED
    BY <2>1, <2>2, <2>3 DEF T, K, x
<1>3. CASE SellsToReserve(t, T, K, i, n)
  <2> DEFINE r1 == Rate(t)[1]
             r2 == Rate(t)[2]
             y == Fraction(n * r1, r2)
             W == Whole(y)
  <2>1. x = y /\ reserves[t].there
    BY <1>3, ReserveCoreSame DEF SellPrice, SellsToReserve
  <2>2. r1 \in Nat /\ r2 \in Nat \ {0}
    <3> DEFINE worth == Worth(T, K, i, n)
    <3>1. reserves[t].there /\ r1 * n > r2 * worth
      BY <1>3 DEF SellsToReserve
    <3>2. worth \in Nat
      <4> HIDE DEF T, K
      <4>1. n \in Nat /\ T \in Nat /\ T > 0
        BY <1>1
      <4> QED
        BY <1>1, <4>1, WorthType
    <3> HIDE DEF worth
    <3> QED
      BY <3>1, <3>2, BetterRate
  <2>3. n * r1 < (delta + 1) * r2
    BY <2>1 DEF Bid
  <2> HIDE DEF r1, r2, x
  <2>4. n * r1 \in Nat /\ (delta + 1) * r2 \in Nat
    BY <2>2, Product
  <2>5. W \in Nat /\ W * r2 <= n * r1
    BY <2>2, <2>4, FractionWhole
  <2> HIDE DEF y, W
  <2>6. W * r2 \in Nat
    BY <2>2, <2>5, Product
  <2>7. W * r2 < (delta + 1) * r2
    BY <2>3, <2>4, <2>5, <2>6
  <2>8. W < delta + 1
    BY <2>2, <2>5, <2>7, FactorStrict
  <2>9. W <= delta
    BY <2>5, <2>8
  <2> QED
    BY <2>1, <2>5, <2>9 DEF W, x
<1> QED
  BY <1>2, <1>3

\* At every supply, balance and charge that can be reached, smart tokens that
\* are bought for a given amount and sold again at once, for the connected token
\* in its own precision, bring no more than was paid: on the curve, at the rate of
\* the reserve, and bought at the one and sold to the other.
THEOREM NoGain == Spec => []NoRoundTripGain
<1>1. IInv => NoRoundTripGain
  <2> SUFFICES ASSUME IInv, NEW t \in Token, NEW v \in CoreAmounts,
                      config.there, connectors[t].there
               PROVE  LET S == stat[t].supply
                          C == connectors[t].balance
                          i == connectors[t].root
                          fee == Fee(t, v)
                          q == v - fee
                          x == BuyPrice(t, S, C, i, q)
                          delta == Part(q, x)
                          n == Whole(x)
                          back == Whole(SellPrice(t, S + n, C + delta, i, n, Same))
                      IN  C > 0 /\ q > 0 /\ n > 0
                          => back - Fee(t, back) <= delta + FeePart(fee, q, delta, x)
    BY DEF NoRoundTripGain
  <2> DEFINE S == stat[t].supply
             C == connectors[t].balance
             i == connectors[t].root
             fee == Fee(t, v)
             q == v - fee
             x == BuyPrice(t, S, C, i, q)
             delta == Part(q, x)
             n == Whole(x)
             back == Whole(SellPrice(t, S + n, C + delta, i, n, Same))
             part == FeePart(fee, q, delta, x)
             tax == Fee(t, back)
  <2> SUFFICES ASSUME C > 0, q > 0, n > 0
               PROVE  back - tax <= delta + part
    OBVIOUS
  <2>1. v \in Nat
    BY BancorAssumption
  <2>2. S \in Nat /\ C \in Int /\ i \in {1, 2} /\ fee \in Nat
    BY <2>1, SupplyType, ConnectorFields, FeeType DEF IInv
  <2> HIDE DEF S, C, i, fee
  <2>3. C \in Nat \ {0} /\ q \in Nat \ {0}
    BY <2>1, <2>2
  <2> HIDE DEF q
  <2>4. Number(x) /\ x.q <= x.p /\ Bid(t, n, delta)
    BY <2>2, <2>3, BuyPriceFair
  <2>5. Pays(S, C, i, n, delta)
    BY <2>2, <2>3, BuyPays
  <2> HIDE DEF x
  <2>6. n \in Nat \ {0} /\ delta \in Nat /\ Part(fee, x) \in Nat
    BY <2>2, <2>3, <2>4, PartType
  <2>7. part \in Nat
    BY <2>2, <2>6 DEF FeePart
  <2> HIDE DEF n, delta, part
  <2>8. back \in Nat /\ back <= delta
    BY <2>2, <2>3, <2>4, <2>5, <2>6, BackIsLess
  <2> HIDE DEF back
  <2>9. tax \in Nat
    BY <2>8, FeeType DEF IInv
  <2> HIDE DEF tax
  <2> QED
    BY <2>6, <2>7, <2>8, <2>9
<1> QED
  BY <1>1, Invariance, PTL

=============================================================================
