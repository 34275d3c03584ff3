---------------------------- MODULE DatesProofs ----------------------------
(***************************************************************************)
(* Proof that dates compared as texts pass on time, for any base, any number  *)
(* of decimals on either side and any hours.                                *)
(*                                                                         *)
(* Each induction is over the numbers of one set, by its least element: what  *)
(* holds below the least exception holds of it.                              *)
(***************************************************************************)
EXTENDS SendDates, WellFoundedInduction, TLAPS

\* A set of natural numbers has a least element.
LEMMA LeastNat ==
  ASSUME NEW T, T \subseteq Nat, T # {}
  PROVE \E x \in T : \A y \in T : x <= y
<1>. DEFINE R == {ss \in Nat \X Nat : ss[1] < ss[2]}
<1>1. IsWellFoundedOn(R, Nat)
  BY NatLessThanWellFounded DEF OpToRel
<1>. HIDE DEF R
<1>2. \E x \in T : \A y \in T : ~(<<y, x>> \in R)
  BY <1>1, WFMin
<1>3. \A x, y \in Nat : ~(<<y, x>> \in R) => x <= y
  BY DEF R
<1>. QED BY <1>2, <1>3

-----------------------------------------------------------------------------
(* Powers.  Pow is defined by its equation, which has to be seen to have a    *)
(* solution: it is put together from the beginnings of one.                  *)

Beginnings(n) == {f \in [0 .. n -> Nat] :
                    f[0] = 1 /\ \A i \in 1 .. n : f[i] = Base * f[i - 1]}

LEMMA BeginningsExist == ASSUME NEW n \in Nat PROVE Beginnings(n) # {}
<1>. DEFINE Bad == {m \in Nat : Beginnings(m) = {}}
<1>1. SUFFICES ASSUME Bad # {} PROVE FALSE
  OBVIOUS
<1>2. PICK m \in Bad : \A k \in Bad : m <= k
  BY <1>1, LeastNat
<1>3. m # 0
  <2>1. [i \in 0 .. 0 |-> 1] \in Beginnings(0)
    BY DEF Beginnings
  <2>. QED BY <2>1
<1>4. m - 1 \in Nat /\ m - 1 \notin Bad
  BY <1>2, <1>3
<1>5. PICK f : f \in Beginnings(m - 1)
  BY <1>4
<1>. DEFINE g == [i \in 0 .. m |-> IF i = m THEN Base * f[m - 1] ELSE f[i]]
<1>6. /\ f \in [0 .. m - 1 -> Nat] /\ f[0] = 1
      /\ \A i \in 1 .. m - 1 : f[i] = Base * f[i - 1]
  BY <1>5 DEF Beginnings
<1>7. g \in [0 .. m -> Nat]
  BY <1>4, <1>6, DatesAssumption
<1>8. g[0] = 1
  BY <1>3, <1>6
<1>9. \A i \in 1 .. m : g[i] = Base * g[i - 1]
  BY <1>3, <1>4, <1>6
<1>10. g \in Beginnings(m)
  BY <1>7, <1>8, <1>9 DEF Beginnings
<1>. QED BY <1>10

LEMMA BeginningsAgree ==
  ASSUME NEW m \in Nat, NEW n \in Nat, NEW f \in Beginnings(m),
         NEW g \in Beginnings(n), NEW i \in Nat, i <= m, i <= n
  PROVE f[i] = g[i]
<1>. DEFINE Bad == {k \in Nat : k <= m /\ k <= n /\ f[k] # g[k]}
<1>1. SUFFICES ASSUME Bad # {} PROVE FALSE
  OBVIOUS
<1>2. PICK k \in Bad : \A j \in Bad : k <= j
  BY <1>1, LeastNat
<1>3. k # 0
  BY <1>2 DEF Beginnings
<1>4. k - 1 \in Nat /\ k - 1 \notin Bad
  BY <1>2, <1>3
<1>5. f[k - 1] = g[k - 1]
  BY <1>2, <1>4
<1>6. f[k] = Base * f[k - 1] /\ g[k] = Base * g[k - 1]
  BY <1>2, <1>3 DEF Beginnings
<1>. QED BY <1>2, <1>5, <1>6

LEMMA PowUnfold ==
  Pow = [n \in Nat |-> IF n = 0 THEN 1 ELSE Base * Pow[n - 1]]
<1>. DEFINE begin == [n \in Nat |-> CHOOSE f : f \in Beginnings(n)]
            F == [n \in Nat |-> begin[n][n]]
<1>1. \A n \in Nat : begin[n] \in Beginnings(n)
  BY BeginningsExist
<1>. HIDE DEF begin
<1>2. F[0] = 1
  BY <1>1 DEF Beginnings
<1>3. ASSUME NEW n \in Nat, n # 0 PROVE F[n] = Base * F[n - 1]
  <2>1. n - 1 \in Nat /\ n \in 1 .. n
    BY <1>3
  <2>2. begin[n][n] = Base * begin[n][n - 1]
    BY <1>1, <2>1 DEF Beginnings
  <2>3. begin[n][n - 1] = begin[n - 1][n - 1]
    BY <1>1, <2>1, BeginningsAgree
  <2>. QED BY <2>1, <2>2, <2>3
<1>4. F = [n \in Nat |-> IF n = 0 THEN 1 ELSE Base * F[n - 1]]
  BY <1>2, <1>3
<1>. HIDE DEF F
<1>5. \E P : P = [n \in Nat |-> IF n = 0 THEN 1 ELSE Base * P[n - 1]]
  BY <1>4
<1>. QED BY <1>5 DEF Pow

LEMMA PowZero == Pow[0] = 1
BY PowUnfold

LEMMA PowSucc == ASSUME NEW n \in Nat PROVE Pow[n + 1] = Base * Pow[n]
<1>1. n + 1 \in Nat /\ n + 1 # 0 /\ (n + 1) - 1 = n
  OBVIOUS
<1>. QED BY <1>1, PowUnfold

\* Powers are positive numbers.
LEMMA PowType == ASSUME NEW n \in Nat PROVE Pow[n] \in Nat /\ Pow[n] >= 1
<1>. DEFINE Bad == {m \in Nat : ~(Pow[m] \in Nat /\ Pow[m] >= 1)}
<1>1. SUFFICES ASSUME Bad # {} PROVE FALSE
  OBVIOUS
<1>2. PICK m \in Bad : \A k \in Bad : m <= k
  BY <1>1, LeastNat
<1>3. m # 0
  BY <1>2, PowZero
<1>4. m - 1 \in Nat /\ m - 1 \notin Bad /\ (m - 1) + 1 = m
  BY <1>2, <1>3
<1>5. Pow[m - 1] \in Nat /\ Pow[m - 1] >= 1
  BY <1>4
<1>6. Pow[m] = Base * Pow[m - 1]
  BY <1>4, PowSucc
<1>7. \A p \in Nat : p >= 1 => Base * p \in Nat /\ Base * p >= 1
  BY DatesAssumption
<1>. QED BY <1>2, <1>5, <1>6, <1>7

LEMMA PowAdd ==
  ASSUME NEW m \in Nat, NEW n \in Nat PROVE Pow[m + n] = Pow[m] * Pow[n]
<1>. DEFINE Bad == {k \in Nat : Pow[m + k] # Pow[m] * Pow[k]}
<1>1. SUFFICES ASSUME Bad # {} PROVE FALSE
  OBVIOUS
<1>2. PICK k \in Bad : \A j \in Bad : k <= j
  BY <1>1, LeastNat
<1>3. k # 0
  BY <1>2, PowZero, PowType
<1>4. k - 1 \in Nat /\ k - 1 \notin Bad /\ (k - 1) + 1 = k
  BY <1>2, <1>3
<1>5. Pow[m + (k - 1)] = Pow[m] * Pow[k - 1]
  BY <1>4
<1>6. Pow[k] = Base * Pow[k - 1]
  BY <1>4, PowSucc
<1>7. Pow[m + k] = Base * Pow[m + (k - 1)]
  <2>1. m + (k - 1) \in Nat /\ (m + (k - 1)) + 1 = m + k
    BY <1>4
  <2>. QED BY <2>1, PowSucc
<1>8. \A a, b, c \in Nat : a * (b * c) = b * (a * c)
  OBVIOUS
<1>9. Base * (Pow[m] * Pow[k - 1]) = Pow[m] * (Base * Pow[k - 1])
  BY <1>4, <1>8, PowType, DatesAssumption
<1>. QED BY <1>2, <1>5, <1>6, <1>7, <1>9

-----------------------------------------------------------------------------
(* Readings.                                                                *)

\* A quotient is between its bounds.
LEMMA DivBounds ==
  ASSUME NEW a \in Nat, NEW p \in Nat, p >= 1
  PROVE /\ a \div p \in Nat
        /\ (a \div p) * p <= a
        /\ a < (a \div p + 1) * p
OBVIOUS

\* The quotient is the only number between these bounds.
LEMMA DivUnique ==
  ASSUME NEW a \in Nat, NEW p \in Nat, p >= 1, NEW q \in Nat,
         q * p <= a, a < (q + 1) * p
  PROVE a \div p = q
<1>1. \A c, d \in Nat : c < d => (c + 1) * p <= d * p
  OBVIOUS
<1>2. ~(a \div p < q) /\ ~(q < a \div p)
  BY <1>1, DivBounds
<1>. QED BY <1>2, DivBounds

\* Dividing twice is dividing by the product.
LEMMA DivTwice ==
  ASSUME NEW a \in Nat, NEW p \in Nat, p >= 1, NEW b \in Nat, b >= 1
  PROVE (a \div p) \div b = a \div (b * p)
<1>. DEFINE q == a \div p
            r == q \div b
<1>1. q \in Nat /\ q * p <= a /\ a < (q + 1) * p
  BY DivBounds
<1>2. r \in Nat /\ r * b <= q /\ q < (r + 1) * b
  BY <1>1, DivBounds
<1>. HIDE DEF q, r
<1>3. r * (b * p) <= a
  <2>1. (r * b) * p <= q * p
    BY <1>1, <1>2
  <2>2. r * (b * p) = (r * b) * p
    BY <1>2
  <2>. QED BY <1>1, <1>2, <2>1, <2>2
<1>4. a < (r + 1) * (b * p)
  <2>1. (q + 1) * p <= ((r + 1) * b) * p
    BY <1>1, <1>2
  <2>2. (r + 1) * (b * p) = ((r + 1) * b) * p
    BY <1>2
  <2>. QED BY <1>1, <1>2, <2>1, <2>2
<1>5. b * p \in Nat /\ b * p >= 1
  OBVIOUS
<1>6. a \div (b * p) = r
  BY <1>2, <1>3, <1>4, <1>5, DivUnique
<1>. QED BY <1>6 DEF r, q

LEMMA CutType ==
  ASSUME NEW x \in Nat, NEW n \in Nat, NEW k \in 0 .. n + 1
  PROVE Cut(x, n, k) \in Nat
<1>1. n + 1 - k \in Nat
  OBVIOUS
<1>. QED BY <1>1, PowType, DivBounds DEF Cut

\* Nothing is cut from the last field.
LEMMA CutWhole ==
  ASSUME NEW x \in Nat, NEW n \in Nat PROVE Cut(x, n, n + 1) = x
<1>1. Cut(x, n, n + 1) = x \div 1
  BY PowZero DEF Cut
<1>. QED BY <1>1

\* A field more is a digit more.
LEMMA CutStep ==
  ASSUME NEW x \in Nat, NEW n \in Nat, NEW k \in 1 .. n + 1
  PROVE /\ Cut(x, n, k) = Cut(x, n, k - 1) * Base + Field(x, n, k)
        /\ Field(x, n, k) \in 0 .. Base - 1
<1>. DEFINE p == Pow[n + 1 - k]
<1>1. n + 1 - k \in Nat /\ (n + 1 - k) + 1 = n + 1 - (k - 1)
  OBVIOUS
<1>2. p \in Nat /\ p >= 1 /\ Pow[n + 1 - (k - 1)] = Base * p
  BY <1>1, PowType, PowSucc
<1>3. Cut(x, n, k) = x \div p /\ x \div p \in Nat
  BY <1>1, <1>2, DivBounds DEF Cut
<1>4. Cut(x, n, k - 1) = (x \div p) \div Base
  BY <1>2, DivTwice, DatesAssumption DEF Cut
<1>5. Field(x, n, k) = (x \div p) % Base
  BY <1>3 DEF Field
<1>6. \A c \in Nat : /\ c = (c \div Base) * Base + (c % Base)
                     /\ c % Base \in 0 .. Base - 1
  BY DatesAssumption
<1>. QED BY <1>3, <1>4, <1>5, <1>6

\* What a field weighs in an instant.
Weight(k) == Pow[Finest + 1 - k]

LEMMA WeightType ==
  ASSUME NEW k \in 0 .. Finest + 1 PROVE Weight(k) \in Nat /\ Weight(k) >= 1
<1>1. Finest + 1 - k \in Nat
  BY DatesAssumption
<1>. QED BY <1>1, PowType DEF Weight

LEMMA UnitType ==
  ASSUME NEW n \in 0 .. Finest PROVE Unit(n) \in Nat /\ Unit(n) >= 1
<1>1. Finest - n \in Nat
  BY DatesAssumption
<1>. QED BY <1>1, PowType DEF Unit

\* A reading that was cut is the instant but for less than the last field's weight.
LEMMA CutBounds ==
  ASSUME NEW x \in Nat, NEW n \in 0 .. Finest, NEW k \in 0 .. n + 1
  PROVE /\ Unit(n) \in Nat
        /\ Cut(x, n, k) * Weight(k) <= x * Unit(n)
        /\ x * Unit(n) < (Cut(x, n, k) + 1) * Weight(k)
<1>. DEFINE p == Pow[n + 1 - k]
            u == Unit(n)
            c == Cut(x, n, k)
<1>1. n + 1 - k \in Nat /\ Finest - n \in Nat
      /\ (n + 1 - k) + (Finest - n) = Finest + 1 - k
  BY DatesAssumption
<1>2. p \in Nat /\ p >= 1 /\ u \in Nat /\ u >= 1
  BY <1>1, PowType DEF Unit
<1>3. Weight(k) = p * u
  BY <1>1, PowAdd DEF Weight, Unit
<1>4. c \in Nat /\ c * p <= x /\ x < (c + 1) * p
  BY <1>2, DivBounds DEF Cut
<1>. HIDE DEF p, u, c
<1>5. (c * p) * u <= x * u /\ x * u < ((c + 1) * p) * u
  BY <1>2, <1>4
<1>6. (c * p) * u = c * (p * u) /\ ((c + 1) * p) * u = (c + 1) * (p * u)
  BY <1>2, <1>4
<1>7. u \in Nat /\ c * Weight(k) <= x * u /\ x * u < (c + 1) * Weight(k)
  BY <1>2, <1>3, <1>5, <1>6
<1>. QED BY <1>7 DEF u, c

-----------------------------------------------------------------------------
(* Comparing two texts.                                                     *)

LEMMA FieldType ==
  ASSUME NEW x \in Nat, NEW n \in Nat, NEW k \in 0 .. n + 1
  PROVE Field(x, n, k) \in Int
<1>1. CASE k = 0
  BY <1>1, CutType DEF Field
<1>2. CASE k # 0
  <2>1. Field(x, n, k) \in 0 .. Base - 1
    BY <1>2, CutStep
  <2>. QED BY <2>1, DatesAssumption
<1>. QED BY <1>1, <1>2

\* What stands where in a text.
LEMMA SpellAt ==
  ASSUME NEW x \in Nat, NEW n \in Nat, NEW z \in Seq(Int)
  PROVE LET a == Spell(x, n) \o z
        IN /\ a \in Seq(Int)
           /\ Len(a) \in Nat /\ DOMAIN a = 1 .. Len(a) /\ Place(n + 1) <= Len(a)
           /\ \A k \in 0 .. n + 1 : a[Place(k)] = 48 + Field(x, n, k)
           /\ n > 0 => a[3] = Dot
<1>. DEFINE l == Place(n + 1)
            b == Spell(x, n)
            a == b \o z
<1>1. l \in Nat /\ l >= 2 /\ (n > 0 => l = n + 3) /\ (n = 0 => l = 2)
  BY DEF Place
<1>2. b = [i \in 1 .. l |-> IF i = 3 THEN Dot
             ELSE Code(Field(x, n, IF i < 3 THEN i - 1 ELSE i - 2))]
  BY DEF Spell
<1>. HIDE DEF l
<1>3. \A k \in 0 .. n + 1 : Place(k) \in 1 .. l /\ b[Place(k)] = 48 + Field(x, n, k)
  <2>. TAKE k \in 0 .. n + 1
  <2>1. /\ Place(k) \in 1 .. l /\ Place(k) # 3
        /\ (IF Place(k) < 3 THEN Place(k) - 1 ELSE Place(k) - 2) = k
    BY <1>1 DEF Place
  <2>. QED BY <1>2, <2>1 DEF Code
<1>4. n > 0 => 3 \in 1 .. l /\ b[3] = Dot
  BY <1>1, <1>2
<1>5. b \in Seq(Int)
  <2>1. ASSUME NEW i \in 1 .. l, i # 3
        PROVE (IF i < 3 THEN i - 1 ELSE i - 2) \in 0 .. n + 1
    BY <1>1, <2>1
  <2>2. ASSUME NEW i \in 1 .. l PROVE b[i] \in Int
    <3>1. CASE i = 3
      BY <1>2, <3>1 DEF Dot
    <3>2. CASE i # 3
      <4>1. Field(x, n, IF i < 3 THEN i - 1 ELSE i - 2) \in Int
        BY <2>1, <3>2, FieldType
      <4>. QED BY <1>2, <3>2, <4>1 DEF Code
    <3>. QED BY <3>1, <3>2
  <2>3. b \in [1 .. l -> Int]
    BY <1>2, <2>2
  <2>. QED BY <1>1, <2>3
<1>6. Len(b) = l
  BY <1>1, <1>2
<1>. HIDE DEF b
<1>7. /\ a \in Seq(Int) /\ Len(a) = l + Len(z)
      /\ \A i \in 1 .. l : a[i] = b[i]
  BY <1>1, <1>5, <1>6
<1>8. a \in Seq(Int) /\ Len(a) \in Nat /\ DOMAIN a = 1 .. Len(a) /\ l <= Len(a)
  BY <1>1, <1>7
<1>. HIDE DEF a
<1>9. /\ \A k \in 0 .. n + 1 : a[Place(k)] = 48 + Field(x, n, k)
      /\ n > 0 => a[3] = Dot
  BY <1>3, <1>4, <1>7
<1>. QED BY <1>8, <1>9 DEF l, a, b

\* While the fields agree, so do the readings cut after them.
LEMMA CutsAgree ==
  ASSUME NEW x \in Nat, NEW n \in Nat, NEW t \in Nat, NEW d \in Nat, NEW k \in Nat,
         k <= n + 1, k <= d + 1,
         \A i \in 0 .. k : Field(x, n, i) = Field(t, d, i)
  PROVE Cut(x, n, k) = Cut(t, d, k)
<1>. DEFINE Bad == {i \in 0 .. k : Cut(x, n, i) # Cut(t, d, i)}
<1>1. SUFFICES ASSUME Bad # {} PROVE FALSE
  OBVIOUS
<1>2. PICK i \in Bad : \A j \in Bad : i <= j
  <2>1. Bad \subseteq Nat
    OBVIOUS
  <2>. QED BY <1>1, <2>1, LeastNat
<1>3. i # 0
  BY <1>2 DEF Field
<1>4. i - 1 \in 0 .. k /\ i - 1 \notin Bad /\ i \in 1 .. n + 1 /\ i \in 1 .. d + 1
  BY <1>2, <1>3
<1>5. Cut(x, n, i - 1) = Cut(t, d, i - 1)
  BY <1>4
<1>6. /\ Cut(x, n, i) = Cut(x, n, i - 1) * Base + Field(x, n, i)
      /\ Cut(t, d, i) = Cut(t, d, i - 1) * Base + Field(t, d, i)
  BY <1>4, CutStep
<1>. QED BY <1>2, <1>5, <1>6

\* The first field in which they differ decides which instant is the earlier one.
LEMMA FirstDecides ==
  ASSUME NEW x \in Nat, NEW n \in 0 .. Finest, NEW t \in Nat, NEW d \in 0 .. Finest,
         NEW k \in Nat, k <= n + 1, k <= d + 1,
         \A i \in 0 .. k - 1 : Field(x, n, i) = Field(t, d, i),
         Field(x, n, k) < Field(t, d, k)
  PROVE x * Unit(n) < t * Unit(d)
<1>. DEFINE cx == Cut(x, n, k)
            ct == Cut(t, d, k)
            w == Weight(k)
<1>0. n \in Nat /\ d \in Nat /\ k \in 0 .. n + 1 /\ k \in 0 .. d + 1
      /\ k \in 0 .. Finest + 1
  BY DatesAssumption
<1>1. cx \in Nat /\ ct \in Nat
  BY <1>0, CutType
<1>2. w \in Nat /\ w >= 1
  BY <1>0, WeightType
<1>3. cx < ct
  <2>1. CASE k = 0
    BY <2>1 DEF Field
  <2>2. CASE k # 0
    <3>1. k - 1 \in Nat /\ k \in 1 .. n + 1 /\ k \in 1 .. d + 1
      BY <2>2
    <3>2. Cut(x, n, k - 1) = Cut(t, d, k - 1)
      BY <1>0, <3>1, CutsAgree
    <3>3. /\ cx = Cut(x, n, k - 1) * Base + Field(x, n, k)
          /\ ct = Cut(t, d, k - 1) * Base + Field(t, d, k)
      BY <1>0, <3>1, CutStep
    <3>4. Cut(t, d, k - 1) * Base \in Nat
      <4>1. Cut(t, d, k - 1) \in Nat
        <5>1. k - 1 \in 0 .. d + 1
          BY <3>1
        <5>. QED BY <1>0, <5>1, CutType
      <4>. QED BY <4>1, DatesAssumption
    <3>5. Field(x, n, k) \in Int /\ Field(t, d, k) \in Int
      BY <1>0, FieldType
    <3>. QED BY <3>2, <3>3, <3>4, <3>5
  <2>. QED BY <2>1, <2>2
<1>4. x * Unit(n) < (cx + 1) * w /\ ct * w <= t * Unit(d)
      /\ Unit(n) \in Nat /\ Unit(d) \in Nat
  BY <1>0, CutBounds
<1>. HIDE DEF cx, ct, w
<1>5. (cx + 1) * w <= ct * w
  BY <1>1, <1>2, <1>3
<1>6. x * Unit(n) \in Nat /\ t * Unit(d) \in Nat
      /\ (cx + 1) * w \in Nat /\ ct * w \in Nat
  BY <1>1, <1>2, <1>4
<1>. QED BY <1>4, <1>5, <1>6

\* If they differ in none, the instants are within a unit of the coarser one.
LEMMA AgreeClose ==
  ASSUME NEW x \in Nat, NEW n \in 0 .. Finest, NEW t \in Nat, NEW d \in 0 .. Finest,
         n <= d,
         \A i \in 0 .. n + 1 : Field(x, n, i) = Field(t, d, i)
  PROVE x * Unit(n) <= t * Unit(d) /\ t * Unit(d) < x * Unit(n) + Unit(n)
<1>0. n \in Nat /\ d \in Nat /\ n + 1 \in Nat /\ n + 1 <= d + 1
      /\ n + 1 \in 0 .. n + 1 /\ n + 1 \in 0 .. d + 1
  BY DatesAssumption
<1>1. Cut(x, n, n + 1) = x
  BY <1>0, CutWhole
<1>2. Cut(t, d, n + 1) = x
  <2>1. PICK k \in Nat : k = n + 1
    BY <1>0
  <2>2. k <= n + 1 /\ k <= d + 1 /\ \A i \in 0 .. k : Field(x, n, i) = Field(t, d, i)
    BY <1>0, <2>1
  <2>3. Cut(x, n, k) = Cut(t, d, k)
    BY <1>0, <2>2, CutsAgree
  <2>. QED BY <1>1, <2>1, <2>3
<1>3. Weight(n + 1) = Unit(n)
  <2>1. Finest + 1 - (n + 1) = Finest - n
    BY DatesAssumption
  <2>. QED BY <2>1 DEF Weight, Unit
<1>4. x * Unit(n) <= t * Unit(d) /\ t * Unit(d) < (x + 1) * Unit(n)
  <2>1. x * Weight(n + 1) <= t * Unit(d) /\ t * Unit(d) < (x + 1) * Weight(n + 1)
    BY <1>0, <1>2, CutBounds
  <2>. QED BY <1>3, <2>1
<1>5. (x + 1) * Unit(n) = x * Unit(n) + Unit(n)
  BY UnitType
<1>. QED BY <1>4, <1>5

\* Which text is the smaller one is decided by that field.
LEMMA TextsCompared ==
  ASSUME NEW x \in Nat, NEW n \in Nat, NEW t \in Nat, NEW d \in Nat,
         NEW y \in Seq(Int), NEW z \in Seq(Int),
         NEW k \in Nat, k <= n + 1, k <= d + 1,
         \A i \in 0 .. k - 1 : Field(x, n, i) = Field(t, d, i),
         Field(x, n, k) # Field(t, d, k)
  PROVE TextLeq(Spell(x, n) \o y, Spell(t, d) \o z)
          <=> Field(x, n, k) < Field(t, d, k)
<1>. DEFINE a == Spell(x, n) \o y
            b == Spell(t, d) \o z
<1>1. /\ a \in Seq(Int) /\ Len(a) \in Nat /\ DOMAIN a = 1 .. Len(a) /\ Place(n + 1) <= Len(a)
      /\ \A j \in 0 .. n + 1 : a[Place(j)] = 48 + Field(x, n, j)
      /\ n > 0 => a[3] = Dot
  BY SpellAt
<1>2. /\ Len(b) \in Nat /\ DOMAIN b = 1 .. Len(b) /\ Place(d + 1) <= Len(b)
      /\ \A j \in 0 .. d + 1 : b[Place(j)] = 48 + Field(t, d, j)
      /\ d > 0 => b[3] = Dot
  BY SpellAt
<1>. HIDE DEF a, b
<1>3. Place(k) \in DOMAIN a \cap DOMAIN b
  <2>1. Place(k) \in Nat /\ Place(k) >= 1 /\ Place(k) <= Place(n + 1)
        /\ Place(k) <= Place(d + 1) /\ Place(n + 1) \in Nat /\ Place(d + 1) \in Nat
    BY DEF Place
  <2>. QED BY <1>1, <1>2, <2>1
<1>4. ASSUME NEW j \in 1 .. Place(k) - 1 PROVE a[j] = b[j]
  <2>1. CASE j = 3
    <3>1. n > 0 /\ d > 0
      BY <2>1 DEF Place
    <3>. QED BY <1>1, <1>2, <2>1, <3>1
  <2>2. CASE j # 3
    <3>1. PICK i \in 0 .. k - 1 : j = Place(i)
      <4>1. CASE j < 3
        <5>1. j - 1 \in 0 .. k - 1 /\ j = Place(j - 1)
          BY <4>1 DEF Place
        <5>. QED BY <5>1
      <4>2. CASE j > 3
        <5>1. j - 2 \in 0 .. k - 1 /\ j = Place(j - 2)
          BY <4>2 DEF Place
        <5>. QED BY <5>1
      <4>. QED BY <2>2, <4>1, <4>2 DEF Place
    <3>. QED BY <1>1, <1>2, <3>1
  <2>. QED BY <2>1, <2>2
<1>5. /\ Field(x, n, k) \in Int /\ Field(t, d, k) \in Int
      /\ a[Place(k)] = 48 + Field(x, n, k) /\ b[Place(k)] = 48 + Field(t, d, k)
  BY <1>1, <1>2, FieldType
<1>6. ASSUME Field(x, n, k) < Field(t, d, k) PROVE TextLeq(a, b)
  BY <1>3, <1>4, <1>5, <1>6 DEF TextLeq
<1>7. ASSUME TextLeq(a, b) PROVE Field(x, n, k) < Field(t, d, k)
  <2>1. CASE \A i \in DOMAIN a : a[i] = b[i]
    BY <1>3, <1>5, <2>1
  <2>2. ASSUME NEW i \in DOMAIN a \cap DOMAIN b, a[i] < b[i],
               \A j \in 1 .. i - 1 : a[j] = b[j]
        PROVE Field(x, n, k) < Field(t, d, k)
    <3>1. Place(k) \in 1 .. Len(a) /\ i \in 1 .. Len(a)
      BY <1>1, <1>3, <2>2
    <3>2. a[Place(k)] # b[Place(k)]
      BY <1>5
    <3>3. ~(Place(k) < i)
      BY <2>2, <3>1, <3>2
    <3>4. CASE i = Place(k)
      BY <1>5, <2>2, <3>4
    <3>5. CASE i < Place(k)
      <4>1. i \in 1 .. Place(k) - 1
        BY <3>1, <3>5
      <4>2. a[i] \in Int
        BY <1>1, <3>1
      <4>. QED BY <1>4, <2>2, <4>1, <4>2
    <3>. QED BY <3>1, <3>3, <3>4, <3>5
  <2>. QED BY <1>7, <2>1, <2>2 DEF TextLeq
<1>8. TextLeq(a, b) <=> Field(x, n, k) < Field(t, d, k)
  BY <1>6, <1>7
<1>. QED BY <1>8 DEF a, b

LEMMA TextsTell ==
  ASSUME NEW x \in Nat, NEW n \in 0 .. Finest, NEW t \in Nat, NEW d \in 0 .. Finest,
         NEW y \in Seq(Int), NEW z \in Seq(Int)
  PROVE IF TextLeq(Spell(x, n) \o y, Spell(t, d) \o z)
          THEN x * Unit(n) < t * Unit(d) + Unit(d)
          ELSE t * Unit(d) < x * Unit(n) + Unit(n)
<1>. DEFINE leq == TextLeq(Spell(x, n) \o y, Spell(t, d) \o z)
            Differ == {k \in Nat : k <= n + 1 /\ k <= d + 1
                                     /\ Field(x, n, k) # Field(t, d, k)}
<1>1. n \in Nat /\ d \in Nat
  BY DatesAssumption
<1>2. /\ Unit(n) \in Nat /\ Unit(n) >= 1 /\ Unit(d) \in Nat /\ Unit(d) >= 1
      /\ x * Unit(n) \in Nat /\ t * Unit(d) \in Nat
  BY UnitType
<1>3. CASE Differ = {}
  <2>1. CASE n <= d
    <3>1. \A i \in 0 .. n + 1 : Field(x, n, i) = Field(t, d, i)
      BY <1>1, <1>3, <2>1
    <3>2. x * Unit(n) <= t * Unit(d) /\ t * Unit(d) < x * Unit(n) + Unit(n)
      BY <2>1, <3>1, AgreeClose
    <3>. QED BY <1>2, <3>2
  <2>2. CASE d <= n
    <3>1. \A i \in 0 .. d + 1 : Field(t, d, i) = Field(x, n, i)
      BY <1>1, <1>3, <2>2
    <3>2. t * Unit(d) <= x * Unit(n) /\ x * Unit(n) < t * Unit(d) + Unit(d)
      BY <2>2, <3>1, AgreeClose
    <3>. QED BY <1>2, <3>2
  <2>. QED BY <1>1, <2>1, <2>2
<1>4. CASE Differ # {}
  <2>1. PICK k \in Differ : \A j \in Differ : k <= j
    BY <1>4, LeastNat
  <2>2. k \in Nat /\ k <= n + 1 /\ k <= d + 1 /\ Field(x, n, k) # Field(t, d, k)
    BY <2>1
  <2>3. \A i \in 0 .. k - 1 : Field(x, n, i) = Field(t, d, i)
    BY <1>1, <2>1, <2>2
  <2>4. Field(x, n, k) \in Int /\ Field(t, d, k) \in Int
    BY <1>1, <2>2, FieldType
  <2>. HIDE DEF Differ
  <2>5. leq <=> Field(x, n, k) < Field(t, d, k)
    BY <1>1, <2>2, <2>3, TextsCompared
  <2>6. CASE Field(x, n, k) < Field(t, d, k)
    <3>1. x * Unit(n) < t * Unit(d)
      BY <2>2, <2>3, <2>6, FirstDecides
    <3>. QED BY <1>2, <2>5, <2>6, <3>1
  <2>7. CASE Field(t, d, k) < Field(x, n, k)
    <3>1. \A i \in 0 .. k - 1 : Field(t, d, i) = Field(x, n, i)
      BY <2>3
    <3>2. t * Unit(d) < x * Unit(n)
      BY <2>2, <2>7, <3>1, FirstDecides
    <3>. QED BY <1>2, <2>4, <2>5, <2>7, <3>2
  <2>. QED BY <2>2, <2>4, <2>6, <2>7
<1>. QED BY <1>3, <1>4

-----------------------------------------------------------------------------
(* The theorems.                                                            *)

\* What now_utc reads from its clock at an instant of an hour.
LEMMA ClockReads ==
  ASSUME NEW hour \in Nat, NEW t \in InstantsOf(hour)
  PROVE /\ t \div Unit(Decimals) \in Nat
        /\ t = (t \div Unit(Decimals)) * Unit(Decimals)
<1>. DEFINE u == Unit(Decimals)
            p == Pow[Decimals + 1]
<1>1. PICK m \in 0 .. p - 1 : t = hour * Hour + m * u
  BY DEF InstantsOf
<1>2. u \in Nat /\ u >= 1 /\ p \in Nat /\ p >= 1
  BY UnitType, PowType, DatesAssumption
<1>3. Hour = p * u
  <2>1. /\ Decimals + 1 \in Nat /\ Finest - Decimals \in Nat
        /\ (Decimals + 1) + (Finest - Decimals) = Finest + 1
        /\ Finest \in Nat /\ Finest - 0 = Finest
    BY DatesAssumption
  <2>2. Pow[Finest + 1] = p * u
    BY <2>1, PowAdd DEF Unit
  <2>3. Pow[Finest + 1] = Base * Pow[Finest]
    BY <2>1, PowSucc
  <2>. QED BY <2>1, <2>2, <2>3 DEF Hour, Second, Unit
<1>. DEFINE q == hour * p + m
<1>. HIDE DEF u, p
<1>4. q \in Nat
  BY <1>1, <1>2
<1>5. t = q * u
  <2>1. hour * (p * u) = (hour * p) * u
    BY <1>2
  <2>2. (hour * p) * u + m * u = (hour * p + m) * u
    BY <1>1, <1>2
  <2>. QED BY <1>1, <1>3, <2>1, <2>2
<1>. HIDE DEF q
<1>6. t \div u = q
  <2>1. t \in Nat /\ q * u <= t /\ t < (q + 1) * u
    BY <1>2, <1>4, <1>5
  <2>. QED BY <1>2, <1>4, <2>1, DivUnique
<1>. QED BY <1>4, <1>5, <1>6 DEF u

\* The dates of clients are readings of some clock.
LEMMA DateReads ==
  ASSUME NEW date \in Dates
  PROVE \E n \in 0 .. Finest, x \in Nat, zone \in Int, z \in Seq(Int) :
          /\ date.zone = zone /\ date.decimals = n
          /\ date.text = Spell(x, n) \o z
          /\ date.instant = x * Unit(n) - zone * Hour
<1>0. PICK n \in 0 .. Finest, zone \in Zone :
        \E x \in Readings(n), z \in Spelt(zone) :
          date = [zone |-> zone, decimals |-> n, text |-> Spell(x, n) \o z,
                  instant |-> x * Unit(n) - zone * Hour]
  BY DEF Dates
<1>1. PICK x \in Readings(n), z \in Spelt(zone) :
        date = [zone |-> zone, decimals |-> n, text |-> Spell(x, n) \o z,
                instant |-> x * Unit(n) - zone * Hour]
  BY <1>0
<1>2. zone \in Int
  BY DEF Zone
<1>3. x \in Nat
  <2>1. PICK h \in Hours, m \in 0 .. Pow[n + 1] - 1 : x = h * Pow[n + 1] + m
    BY DEF Readings
  <2>2. h \in Nat /\ n + 1 \in Nat
    BY DatesAssumption
  <2>3. Pow[n + 1] \in Nat
    BY <2>2, PowType
  <2>. QED BY <2>1, <2>2, <2>3
<1>4. z \in Seq(Int)
  <2>1. CASE zone = 0
    <3>1. Spelt(zone) = {Zulu, <<43, Code(0)>>}
      BY <2>1 DEF Spelt
    <3>2. CASE z = Zulu
      BY <3>2 DEF Zulu
    <3>3. CASE z = <<43, Code(0)>>
      BY <3>3 DEF Code
    <3>. QED BY <1>1, <3>1, <3>2, <3>3
  <2>2. CASE zone = 1
    <3>1. z = <<43, 48 + 1>>
      BY <1>1, <2>2 DEF Spelt, Code
    <3>. QED BY <3>1
  <2>3. CASE zone = -1
    <3>1. z = <<45, 48 + 1>>
      BY <1>1, <2>3 DEF Spelt, Code
    <3>. QED BY <3>1
  <2>. QED BY <2>1, <2>2, <2>3 DEF Zone
<1>. QED BY <1>1, <1>2, <1>3, <1>4

\* A date passes at its instant, but for less than a unit of the coarser spelling
\* and its distance from UTC: check_send_available and purge_expired_sends.
THEOREM OnTimeAlways == \A hour \in Nat : OnTimeIn(hour)
<1>. SUFFICES ASSUME NEW hour \in Nat, NEW date \in Dates, NEW t \in InstantsOf(hour)
              PROVE IF Passed(date, t)
                      THEN -(t - date.instant) < Unit(Decimals) - date.zone * Hour
                      ELSE t - date.instant < Unit(date.decimals) + date.zone * Hour
  BY DEF OnTimeIn
<1>1. PICK n \in 0 .. Finest, x \in Nat, zone \in Int, z \in Seq(Int) :
        /\ date.zone = zone /\ date.decimals = n
        /\ date.text = Spell(x, n) \o z
        /\ date.instant = x * Unit(n) - zone * Hour
  BY DateReads
<1>. DEFINE q == t \div Unit(Decimals)
            u == Unit(Decimals)
            east == zone * Hour
<1>2. q \in Nat /\ t = q * u
  BY ClockReads
<1>3. Decimals \in 0 .. Finest /\ Zulu \in Seq(Int)
  BY DatesAssumption DEF Zulu
<1>4. IF Passed(date, t) THEN x * Unit(n) < q * u + u
                         ELSE q * u < x * Unit(n) + Unit(n)
  BY <1>1, <1>2, <1>3, TextsTell DEF Passed, now_utc
<1>5. u \in Nat /\ Unit(n) \in Nat /\ east \in Int /\ x * Unit(n) \in Nat
  <2>1. Hour \in Nat
    BY UnitType, DatesAssumption DEF Hour, Second
  <2>. QED BY <1>3, <2>1, UnitType
<1>. HIDE DEF q, u, east
<1>6. CASE Passed(date, t)
  <2>1. -(t - (x * Unit(n) - east)) < u - east
    BY <1>2, <1>4, <1>5, <1>6
  <2>. QED BY <1>1, <1>6, <2>1 DEF u, east
<1>7. CASE ~Passed(date, t)
  <2>1. t - (x * Unit(n) - east) < Unit(n) + east
    BY <1>2, <1>4, <1>5, <1>7
  <2>. QED BY <1>1, <1>7, <2>1 DEF east
<1>. QED BY <1>6, <1>7

-----------------------------------------------------------------------------
(* The clock of Sends stays within its bound, so that each of its readings has *)
(* an hour.                                                                  *)

Clock == now \in 0 .. MaxTime

LEMMA ClockStep == ASSUME Clock, [Next]_vars PROVE Clock'
<1>1. CASE Tick
  BY <1>1, BoundAssumption DEF Clock, Tick
<1>2. ASSUME NEW s \in Send, Create(s) PROVE Clock'
  BY <1>2 DEF Clock, Create
<1>3. ASSUME NEW r \in Request, Begin(r) PROVE Clock'
  BY <1>3 DEF Clock, Begin, BeginPut, BeginRemovePassword, BeginUpload,
              BeginVisit, BeginDelete, BeginErase, BeginPurge
<1>4. ASSUME NEW e \in edits, WriteEdit(e) \/ AbandonEdit(e) PROVE Clock'
  BY <1>4 DEF Clock, WriteEdit, AbandonEdit
<1>5. ASSUME NEW u \in uploads, PutBlob(u) \/ AbandonUpload(u) PROVE Clock'
  BY <1>5 DEF Clock, PutBlob, AbandonUpload
<1>6. ASSUME NEW v \in visits, CountVisit(v) \/ Serve(v) \/ AbandonVisit(v)
      PROVE Clock'
  BY <1>6 DEF Clock, CountVisit, Serve, AbandonVisit
<1>7. ASSUME NEW m \in removals, RemovalStep(m) PROVE Clock'
  BY <1>7 DEF Clock, RemovalStep, DropFile, DropRows, DropUser, AbandonRemoval
<1>8. CASE UNCHANGED vars
  BY <1>8 DEF vars, Clock
<1>. QED BY <1>1, <1>2, <1>3, <1>4, <1>5, <1>6, <1>7, <1>8 DEF Next

\* Whenever check_send_available or the purge compares two texts, it finds what
\* comparing the instants would: for any base, decimals and hours.
THEOREM SendsPassOnTime == Spec => []PassesOnTime
<1>1. Init => Clock
  BY BoundAssumption DEF Init, Clock
<1>2. Clock => PassesOnTime
  <2>. SUFFICES ASSUME Clock PROVE PassesOnTime
    OBVIOUS
  <2>1. now \in 0 .. MaxTime /\ now + 1 \in Nat
    BY BoundAssumption DEF Clock
  <2>. QED BY <2>1, OnTimeAlways DEF PassesOnTime, OnTime
<1>. QED BY <1>1, <1>2, ClockStep, PTL DEF Spec
=============================================================================
