------------------------- MODULE Algorithms_proofs -------------------------
(***************************************************************************)
(* The pure functions on every input, not only on the small ones that TLC  *)
(* is given: each theorem names the property of MCParts and says of which  *)
(* inputs it holds.                                                        *)
(***************************************************************************)
EXTENDS MCParts, TLAPS, WellFoundedInduction, SequenceTheorems

\* What holds of no number unless it holds of a smaller one holds of none.
LEMMA NoLeast ==
    ASSUME NEW S \in SUBSET Nat, \A n \in S : \E m \in S : m < n
    PROVE  S = {}
<1> DEFINE R == {p \in Nat \X Nat : p[1] < p[2]}
<1>1. R = OpToRel(<, Nat)
  BY DEF OpToRel
<1>2. IsWellFoundedOn(R, Nat)
  BY <1>1, NatLessThanWellFounded
<1>3. S # {} => \E n \in S : \A m \in S : ~ (<<m, n>> \in R)
  BY <1>2, WFMin, Zenon
<1>4. \A m, n \in S : <<m, n>> \in R <=> m < n
  OBVIOUS
<1> QED
  BY <1>3, <1>4, Zenon

\* The smallest element of a set of numbers is in it and no larger than the others.
LEMMA MinIn ==
    ASSUME NEW S \in SUBSET Nat, S # {}
    PROVE  Alg!C!Min(S) \in S /\ \A n \in S : Alg!C!Min(S) <= n
<1>1. \E n \in S : \A m \in S : ~ (m < n)
  BY NoLeast, Zenon
<1>2. \A m, n \in S : ~ (m < n) => n <= m
  OBVIOUS
<1>3. \E n \in S : \A m \in S : n <= m
  BY <1>1, <1>2
<1> QED
  BY <1>3 DEF Alg!C!Min

-----------------------------------------------------------------------------
(* Catalog: the order of versions *)

\* A version's parts start with a number.
IsVersion(v) == Alg!C!SplitVer(v) \in Seq(Nat)

\* The numbers of a version, from 1 on, and 0 where it has ended: a version that
\* goes on is then ahead at its next part.
Numbers(v) == [m \in Nat |-> IF m \in DOMAIN v THEN v[m][1] + 1 ELSE 0]

\* The first place where two differ decides.
AheadAt(p, q, m) == p[m] > q[m] /\ \A j \in Nat : j < m => p[j] = q[j]
Ahead(p, q)      == \E m \in Nat : AheadAt(p, q, m)

LEMMA NumbersOrdered ==
    \A a, b \in Nat : /\ a > b => a # b /\ ~ (b > a)
                      /\ a = b \/ a > b \/ b > a
                      /\ \A c \in Nat : a > b /\ b > c => a > c
OBVIOUS

LEMMA AheadIsOrder ==
    ASSUME NEW p \in [Nat -> Nat], NEW q \in [Nat -> Nat], NEW r \in [Nat -> Nat]
    PROVE  /\ ~ (Ahead(p, q) /\ Ahead(q, p))
           /\ Ahead(p, q) /\ Ahead(q, r) => Ahead(p, r)
           /\ ~Ahead(p, q) /\ ~Ahead(q, p) => p = q
<1> USE DEF AheadAt
<1>1. \A m \in Nat : p[m] \in Nat /\ q[m] \in Nat /\ r[m] \in Nat
  OBVIOUS
<1>2. ASSUME NEW m \in Nat, AheadAt(p, q, m), NEW n \in Nat, AheadAt(q, p, n) PROVE FALSE
  <2>1. CASE m = n
    BY <1>1, <1>2, <2>1, NumbersOrdered, Zenon
  <2>2. CASE m < n
    <3>1. p[m] = q[m] /\ p[m] > q[m]
      BY <1>2, <2>2
    <3> QED
      BY <1>1, <3>1, NumbersOrdered, Zenon
  <2>3. CASE n < m
    <3>1. p[n] = q[n] /\ q[n] > p[n]
      BY <1>2, <2>3
    <3> QED
      BY <1>1, <3>1, NumbersOrdered, Zenon
  <2> QED
    BY <2>1, <2>2, <2>3
<1>3. ASSUME NEW m \in Nat, AheadAt(p, q, m), NEW n \in Nat, AheadAt(q, r, n) PROVE Ahead(p, r)
  <2>1. CASE m = n
    <3>1. p[m] > r[m]
      BY <1>1, <1>3, <2>1, NumbersOrdered, Zenon
    <3>2. \A j \in Nat : j < m => p[j] = r[j]
      BY <1>3, <2>1, Zenon
    <3> QED
      BY <3>1, <3>2, Zenon DEF Ahead
  <2>2. CASE m < n
    <3>1. p[m] > q[m] /\ q[m] = r[m]
      BY <1>3, <2>2, Zenon
    <3>2. \A j \in Nat : j < m => j < n
      BY <2>2
    <3>3. \A j \in Nat : j < m => p[j] = r[j]
      BY <1>3, <3>2, Zenon
    <3> QED
      BY <3>1, <3>3, Zenon DEF Ahead
  <2>3. CASE n < m
    <3>1. q[n] > r[n] /\ p[n] = q[n]
      BY <1>3, <2>3, Zenon
    <3>2. \A j \in Nat : j < n => j < m
      BY <2>3
    <3>3. \A j \in Nat : j < n => p[j] = r[j]
      BY <1>3, <3>2, Zenon
    <3> QED
      BY <3>1, <3>3, Zenon DEF Ahead
  <2> QED
    BY <2>1, <2>2, <2>3
<1>4. ASSUME ~Ahead(p, q), ~Ahead(q, p) PROVE p = q
  <2> DEFINE Apart == {m \in Nat : p[m] # q[m]}
  <2>1. ASSUME NEW n \in Apart PROVE \E m \in Apart : m < n
    <3> SUFFICES ASSUME \A m \in Nat : m < n => p[m] = q[m] PROVE FALSE
      OBVIOUS
    <3>1. p[n] > q[n] \/ q[n] > p[n]
      BY <1>1, <2>1, NumbersOrdered, Zenon
    <3>2. AheadAt(p, q, n) \/ AheadAt(q, p, n)
      BY <3>1, Zenon
    <3> QED
      BY <1>4, <2>1, <3>2, Zenon DEF Ahead
  <2> HIDE DEF Apart
  <2>2. Apart = {}
    BY <2>1, NoLeast DEF Apart
  <2>3. \A m \in Nat : p[m] = q[m]
    BY <2>2, SMTT(30) DEF Apart
  <2> QED
    BY <2>3
<1> QED
  BY <1>2, <1>3, <1>4, Zenon DEF Ahead

LEMMA VersionIs ==
    ASSUME NEW v, IsVersion(v)
    PROVE  \E n \in Nat : /\ Len(Alg!C!SplitVer(v)) = n /\ DOMAIN v = 1..n
                          /\ Alg!C!SplitVer(v) \in [1..n -> Nat]
                          /\ \A i \in 1..n : Alg!C!SplitVer(v)[i] = v[i][1]
                          /\ Numbers(v) = [m \in Nat |-> IF m \in 1..n THEN Alg!C!SplitVer(v)[m] + 1 ELSE 0]
                          /\ Numbers(v) \in [Nat -> Nat]
<1> DEFINE s == Alg!C!SplitVer(v)
<1>1. s = [i \in DOMAIN v |-> v[i][1]]
  BY DEF Alg!C!SplitVer
<1>2. s \in Seq(Nat)
  BY DEF IsVersion
<1> HIDE DEF s
<1>3. Len(s) \in Nat /\ s \in [1..Len(s) -> Nat]
  BY <1>2
<1>4. DOMAIN v = 1..Len(s) /\ \A i \in 1..Len(s) : s[i] = v[i][1]
  BY <1>1, <1>3
<1>5. Numbers(v) = [m \in Nat |-> IF m \in 1..Len(s) THEN s[m] + 1 ELSE 0]
  BY <1>4 DEF Numbers
<1>6. Numbers(v) \in [Nat -> Nat]
  BY <1>3, <1>5
<1> QED
  BY <1>3, <1>4, <1>5, <1>6, Zenon DEF s

\* The first part that differs decides, and where none does the longer version.
LEMMA GreaterIs ==
    ASSUME NEW a, NEW b, IsVersion(a), IsVersion(b)
    PROVE  Alg!C!Greater(a, b) <=> Ahead(Numbers(a), Numbers(b))
<1> DEFINE as == Alg!C!SplitVer(a)
           bs == Alg!C!SplitVer(b)
           p  == Numbers(a)
           q  == Numbers(b)
           differ == {i \in DOMAIN as \cap DOMAIN bs : as[i] # bs[i]}
<1>1. PICK k \in Nat : /\ Len(as) = k /\ as \in [1..k -> Nat]
                       /\ p = [m \in Nat |-> IF m \in 1..k THEN as[m] + 1 ELSE 0]
                       /\ p \in [Nat -> Nat]
  BY VersionIs
<1>2. PICK n \in Nat : /\ Len(bs) = n /\ bs \in [1..n -> Nat]
                       /\ q = [m \in Nat |-> IF m \in 1..n THEN bs[m] + 1 ELSE 0]
                       /\ q \in [Nat -> Nat]
  BY VersionIs
<1>3. Alg!C!Greater(a, b) <=> IF differ # {} THEN as[Alg!C!Min(differ)] > bs[Alg!C!Min(differ)] ELSE k > n
  BY <1>1, <1>2 DEF Alg!C!Greater
<1> HIDE DEF as, bs, p, q
<1>4. differ = {i \in (1..k) \cap (1..n) : as[i] # bs[i]}
  BY <1>1, <1>2
<1> HIDE DEF differ
<1>5. CASE differ # {}
  <2> DEFINE d == Alg!C!Min(differ)
  <2>1. d \in differ /\ \A i \in differ : d <= i
    <3>1. differ \in SUBSET Nat
      <4>1. \A i \in differ : i \in 1..k
        BY <1>4
      <4> QED
        BY <4>1
    <3> QED
      BY <1>5, <3>1, MinIn, Zenon
  <2>2. Alg!C!Greater(a, b) <=> as[d] > bs[d]
    BY <1>3, <1>5
  <2> HIDE DEF d
  <2>3. d \in 1..k /\ d \in 1..n /\ as[d] # bs[d]
    BY <1>4, <2>1
  <2>4. \A j \in Nat : j < d => p[j] = q[j]
    <3> SUFFICES ASSUME NEW j \in Nat, j < d PROVE p[j] = q[j]
      OBVIOUS
    <3>1. CASE j = 0
      BY <1>1, <1>2, <3>1
    <3>2. CASE j # 0
      <4>1. j \in 1..k /\ j \in 1..n /\ ~ (d <= j)
        BY <2>3, <3>2
      <4>2. as[j] = bs[j]
        BY <1>4, <2>1, <4>1
      <4> QED
        BY <1>1, <1>2, <4>1, <4>2
    <3> QED
      BY <3>1, <3>2
  <2>5. as[d] \in Nat /\ bs[d] \in Nat /\ d \in Nat
    <3>1. d \in Nat
      BY <2>3
    <3>2. as[d] \in Nat
      BY <1>1, <2>3
    <3>3. bs[d] \in Nat
      BY <1>2, <2>3
    <3> QED
      BY <3>1, <3>2, <3>3
  <2> DEFINE x == as[d]
             y == bs[d]
  <2>6a. p[d] = x + 1 /\ q[d] = y + 1
    BY <1>1, <1>2, <2>3, <2>5
  <2>6b. x \in Nat /\ y \in Nat /\ x # y
    BY <2>3, <2>5
  <2> HIDE DEF x, y
  <2>6c. (x > y <=> x + 1 > y + 1) /\ (y > x <=> y + 1 > x + 1) /\ (x > y \/ y > x) /\ (x > y => ~ (y > x))
    BY <2>6b
  <2>6. as[d] > bs[d] => AheadAt(p, q, d)
    BY <2>4, <2>6a, <2>6c, Zenon DEF AheadAt, x, y
  <2>7. bs[d] > as[d] => AheadAt(q, p, d)
    BY <2>4, <2>6a, <2>6c, Zenon DEF AheadAt, x, y
  <2>8. as[d] > bs[d] \/ bs[d] > as[d]
    BY <2>6c, Zenon DEF x, y
  <2>9. p \in [Nat -> Nat] /\ q \in [Nat -> Nat]
    BY <1>1, <1>2
  <2>10. ~ (Ahead(p, q) /\ Ahead(q, p))
    BY <2>9, AheadIsOrder
  <2>11. as[d] > bs[d] => ~ (bs[d] > as[d])
    BY <2>6c, Zenon DEF x, y
  <2> QED
    BY Zenon, <2>2, <2>5, <2>6, <2>7, <2>8, <2>10, <2>11 DEF Ahead, p, q
<1>6. CASE differ = {}
  <2>1. Alg!C!Greater(a, b) <=> k > n
    BY <1>3, <1>6
  <2>2. \A i \in Nat : (i \in 1..k <=> i \in 1..n) => p[i] = q[i]
    <3> SUFFICES ASSUME NEW i \in Nat, i \in 1..k <=> i \in 1..n PROVE p[i] = q[i]
      OBVIOUS
    <3>1. CASE i \in 1..k
      <4>1. as[i] = bs[i]
        BY <1>4, <1>6, <3>1, Zenon
      <4> QED
        BY <1>1, <1>2, <3>1, <4>1, Zenon
    <3>2. CASE i \notin 1..k
      BY <1>1, <1>2, <3>2
    <3> QED
      BY <3>1, <3>2
  <2>3. ASSUME k > n PROVE AheadAt(p, q, n + 1)
    <3>1. n + 1 \in 1..k /\ n + 1 \notin 1..n /\ n + 1 \in Nat
      BY <2>3
    <3> DEFINE x == as[n + 1]
    <3>2. p[n + 1] = x + 1 /\ q[n + 1] = 0 /\ x \in Nat
      BY <1>1, <1>2, <3>1
    <3> HIDE DEF x
    <3>3. x + 1 > 0
      BY <3>2
    <3>4. \A j \in Nat : j < n + 1 => (j \in 1..k <=> j \in 1..n)
      BY <2>3
    <3> QED
      BY <2>2, <3>1, <3>2, <3>3, <3>4, Zenon DEF AheadAt
  <2>4. ASSUME NEW m \in Nat, AheadAt(p, q, m) PROVE k > n
    <3> DEFINE x == p[m]
               y == q[m]
    <3>1. x > y /\ x \in Nat /\ y \in Nat
      <4>1. p \in [Nat -> Nat] /\ q \in [Nat -> Nat]
        BY <1>1, <1>2
      <4>2. p[m] \in Nat /\ q[m] \in Nat
        BY <4>1
      <4> QED
        BY <2>4, <4>2, Zenon DEF AheadAt
    <3> HIDE DEF x, y
    <3>2. x # y /\ x # 0
      BY <3>1
    <3>3. ~ (m \in 1..k <=> m \in 1..n)
      BY <2>2, <3>2, Zenon DEF x, y
    <3>4. m \in 1..k
      <4>1. m \notin 1..k => p[m] = 0
        BY <1>1
      <4> QED
        BY <3>2, <4>1, Zenon DEF x
    <3> QED
      BY <3>3, <3>4
  <2>5. n + 1 \in Nat
    OBVIOUS
  <2> QED
    BY <2>1, <2>3, <2>4, <2>5 DEF Ahead, p, q
<1> QED
  BY <1>5, <1>6

\* Versions are strictly ordered, and those not told apart have the same numbers.
THEOREM VersionsOrdered ==
    ASSUME NEW a, NEW b, NEW c, IsVersion(a), IsVersion(b), IsVersion(c)
    PROVE  Alg!C!GreaterIsOrder(a, b, c)
<1>1. \A v : IsVersion(v) => Numbers(v) \in [Nat -> Nat]
  BY VersionIs, Zenon
<1>2. \A v, w : IsVersion(v) /\ IsVersion(w) => (Alg!C!Greater(v, w) <=> Ahead(Numbers(v), Numbers(w)))
  BY GreaterIs
<1>3. ~ (Alg!C!Greater(a, b) /\ Alg!C!Greater(b, a))
  BY <1>1, <1>2, AheadIsOrder
<1>4. Alg!C!Greater(a, b) /\ Alg!C!Greater(b, c) => Alg!C!Greater(a, c)
  BY <1>1, <1>2, AheadIsOrder
<1>5. ASSUME ~Alg!C!Greater(a, b), ~Alg!C!Greater(b, a) PROVE Numbers(a) = Numbers(b)
  BY <1>1, <1>2, <1>5, AheadIsOrder
<1>6. ASSUME Numbers(a) = Numbers(b) PROVE Alg!C!SplitVer(a) = Alg!C!SplitVer(b)
  <2> DEFINE as == Alg!C!SplitVer(a)
             bs == Alg!C!SplitVer(b)
             p  == Numbers(a)
             q  == Numbers(b)
  <2>1. PICK k \in Nat : /\ Len(as) = k /\ as \in [1..k -> Nat]
                         /\ p = [m \in Nat |-> IF m \in 1..k THEN as[m] + 1 ELSE 0]
    BY VersionIs
  <2>2. PICK n \in Nat : /\ Len(bs) = n /\ bs \in [1..n -> Nat]
                         /\ q = [m \in Nat |-> IF m \in 1..n THEN bs[m] + 1 ELSE 0]
    BY VersionIs
  <2>3. p = q
    BY <1>6
  <2> HIDE DEF as, bs, p, q
  <2>4. ASSUME NEW m \in Nat PROVE m \in 1..k <=> p[m] # 0
    <3>1. m \in 1..k => p[m] = as[m] + 1 /\ as[m] \in Nat
      BY <2>1
    <3>2. m \notin 1..k => p[m] = 0
      BY <2>1
    <3>3. \A x \in Nat : x + 1 # 0
      OBVIOUS
    <3> QED
      BY <3>1, <3>2, <3>3, Zenon
  <2>5. ASSUME NEW m \in Nat PROVE m \in 1..n <=> q[m] # 0
    <3>1. m \in 1..n => q[m] = bs[m] + 1 /\ bs[m] \in Nat
      BY <2>2
    <3>2. m \notin 1..n => q[m] = 0
      BY <2>2
    <3>3. \A x \in Nat : x + 1 # 0
      OBVIOUS
    <3> QED
      BY <3>1, <3>2, <3>3, Zenon
  <2>6. \A m \in Nat : m \in 1..k <=> m \in 1..n
    BY <2>3, <2>4, <2>5, Zenon
  <2>7. ASSUME NEW m \in 1..k PROVE as[m] = bs[m]
    <3>1. m \in 1..n /\ m \in Nat
      BY <2>6
    <3>2. p[m] = as[m] + 1 /\ as[m] \in Nat
      BY <2>1, <3>1
    <3>3. q[m] = bs[m] + 1 /\ bs[m] \in Nat
      BY <2>2, <3>1
    <3>4. \A x, y \in Nat : x + 1 = y + 1 => x = y
      OBVIOUS
    <3> QED
      BY <2>3, <3>2, <3>3, <3>4, Zenon
  <2>8. k = n
    <3>1. k >= 1 => k \in 1..n
      BY <2>6
    <3>2. n >= 1 => n \in 1..k
      BY <2>6
    <3> QED
      BY <3>1, <3>2
  <2>9. as = bs
    <3>1. as \in [1..k -> Nat] /\ bs \in [1..k -> Nat]
      BY <2>1, <2>2, <2>8, Zenon
    <3>2. as = [m \in 1..k |-> as[m]] /\ bs = [m \in 1..k |-> bs[m]]
      BY <3>1
    <3>3. [m \in 1..k |-> as[m]] = [m \in 1..k |-> bs[m]]
      BY <2>7
    <3> QED
      BY <3>2, <3>3, Zenon
  <2> QED
    BY <2>9 DEF as, bs
<1>7. ASSUME Alg!C!SplitVer(a) = Alg!C!SplitVer(b) PROVE Numbers(a) = Numbers(b)
  <2>1. PICK k \in Nat : /\ Len(Alg!C!SplitVer(a)) = k
                         /\ Numbers(a) = [m \in Nat |-> IF m \in 1..k THEN Alg!C!SplitVer(a)[m] + 1 ELSE 0]
    BY VersionIs, Zenon
  <2>2. PICK n \in Nat : /\ Len(Alg!C!SplitVer(b)) = n
                         /\ Numbers(b) = [m \in Nat |-> IF m \in 1..n THEN Alg!C!SplitVer(b)[m] + 1 ELSE 0]
    BY VersionIs
  <2>3. k = n
    BY <1>7, <2>1, <2>2
  <2> QED
    BY <1>7, <2>1, <2>2, <2>3
<1>8. ASSUME Numbers(a) = Numbers(b)
      PROVE  ~Alg!C!Greater(a, b) /\ ~Alg!C!Greater(b, a) /\ (Alg!C!Greater(a, c) <=> Alg!C!Greater(b, c))
  BY <1>1, <1>2, <1>8, AheadIsOrder
<1> QED
  BY <1>3, <1>4, <1>5, <1>6, <1>7, <1>8 DEF Alg!C!GreaterIsOrder

-----------------------------------------------------------------------------
(* Catalog: the entries of the host and the offers of an update *)

\* A catalog is a sequence of entries with versions, and hosts of two parts.
IsCatalog(packages) ==
    /\ DOMAIN packages \in SUBSET Nat
    /\ \A i \in DOMAIN packages : /\ IsVersion(packages[i].version)
                                  /\ packages[i].host = <<packages[i].host[1], packages[i].host[2]>>

\* find returns an entry exactly where one fits.
LEMMA FindIs ==
    ASSUME NEW packages, IsCatalog(packages), NEW wanted, NEW own
    PROVE  LET fits  == {i \in DOMAIN packages : packages[i].path = wanted
                                                   /\ Alg!C!Contains(packages[i].host, own)}
               got == Alg!C!Find(packages, wanted, own) IN
           /\ fits = {} <=> got = << >>
           /\ got # << >> => \E i \in fits : got[1] = packages[i]
<1> DEFINE fits == {i \in DOMAIN packages : packages[i].path = wanted
                                            /\ Alg!C!Contains(packages[i].host, own)}
           got == Alg!C!Find(packages, wanted, own)
<1>1. fits \in SUBSET Nat
  BY DEF IsCatalog
<1>2. got = IF fits = {} THEN << >> ELSE <<packages[Alg!C!Min(fits)]>>
  BY DEF Alg!C!Find
<1> HIDE DEF fits, got
<1>3. fits # {} => Alg!C!Min(fits) \in fits
  BY <1>1, MinIn, Zenon
<1>4. \A x : <<x>> # << >> /\ <<x>>[1] = x
  OBVIOUS
<1>5. fits = {} <=> got = << >>
  BY <1>2, <1>4
<1>6. got # << >> => \E i \in fits : got[1] = packages[i]
  BY <1>2, <1>3, <1>4
<1> QED
  BY <1>5, <1>6 DEF fits, got

\* A host is given an archive of its own, or of 64-bit Arm on 32-bit Arm.
THEOREM OwnHostFound ==
    ASSUME NEW packages, IsCatalog(packages), NEW wanted, NEW goos, NEW goarch
    PROVE  Alg!C!FindsOwnHost(packages, wanted, goos, goarch)
<1> DEFINE own   == Alg!C!HostTag(goos, goarch)
           fits  == {i \in DOMAIN packages : packages[i].path = wanted
                                             /\ Alg!C!Contains(packages[i].host, own)}
           got == Alg!C!Find(packages, wanted, own)
<1>1. /\ fits = {} <=> got = << >>
      /\ got # << >> => \E i \in fits : got[1] = packages[i]
  BY FindIs
<1> HIDE DEF got, own
<1>2. ASSUME got = << >>, NEW i \in DOMAIN packages
      PROVE  packages[i].path # wanted \/ packages[i].host # own
  BY <1>1, <1>2 DEF Alg!C!Contains
<1>3. ASSUME got # << >>
      PROVE  got[1].host = own \/ (own[2] = "arm" /\ got[1].host = <<own[1], "arm64">>)
  <2>1. PICK i \in fits : got[1] = packages[i]
    BY <1>1, <1>3
  <2>2. packages[i].host = <<packages[i].host[1], packages[i].host[2]>>
    BY <2>1 DEF IsCatalog
  <2> QED
    BY <2>1, <2>2 DEF Alg!C!Contains
<1> QED
  BY <1>2, <1>3 DEF Alg!C!FindsOwnHost, got, own

\* What an update has reached and installed it does not offer again, and it never
\* goes back, where the entry of the host has the latest version.
THEOREM UpdatesSettle ==
    ASSUME NEW packages, IsCatalog(packages), NEW installed,
           \A i \in DOMAIN installed : IsVersion(installed[i].version), NEW own
    PROVE  Alg!C!UpdateSettles(packages, installed, own)
<1> DEFINE Found(i)   == Alg!C!Find(packages, installed[i].path, own)
           Current(i) == \A p \in DOMAIN packages : packages[p].path = installed[i].path =>
                           Found(i) # << >> /\ ~Alg!C!Greater(packages[p].version, Found(i)[1].version)
           updated    == Alg!C!Updated(packages, installed, own)
           Goes(i)    == Alg!C!Reached(packages, installed, own, i)
<1>1. /\ DOMAIN updated = DOMAIN installed
      /\ \A i \in DOMAIN installed :
           /\ updated[i].path = installed[i].path
           /\ updated[i].version = IF i \in Alg!C!Offers(packages, installed) /\ Found(i) # << >> /\ Goes(i)
                                   THEN Found(i)[1].version ELSE installed[i].version
  BY DEF Alg!C!Updated
<1>2. ASSUME NEW i, Found(i) # << >> PROVE IsVersion(Found(i)[1].version)
  <2>1. \E p \in DOMAIN packages : Found(i)[1] = packages[p]
    BY <1>2, FindIs
  <2> QED
    BY <2>1 DEF IsCatalog
<1> HIDE DEF Found, updated, Goes
<1>3. ASSUME NEW i \in Alg!C!Offers(packages, updated), Current(i), Goes(i) PROVE FALSE
  <2>1. PICK p \in DOMAIN packages :
          packages[p].path = updated[i].path /\ Alg!C!Greater(packages[p].version, updated[i].version)
    BY DEF Alg!C!Offers
  <2>2. i \in DOMAIN installed /\ packages[p].path = installed[i].path
    BY <1>1, <2>1 DEF Alg!C!Offers
  <2>3. Found(i) # << >> /\ ~Alg!C!Greater(packages[p].version, Found(i)[1].version)
    BY <1>3, <2>2
  <2>4. CASE i \in Alg!C!Offers(packages, installed)
    BY <1>1, <1>3, <2>1, <2>2, <2>3, <2>4
  <2>5. CASE i \notin Alg!C!Offers(packages, installed)
    <3>1. Alg!C!Greater(packages[p].version, installed[i].version)
      BY <1>1, <2>1, <2>2, <2>5
    <3> QED
      BY <2>2, <2>5, <3>1 DEF Alg!C!Offers
  <2> QED
    BY <2>4, <2>5
<1>4. ASSUME NEW i \in DOMAIN installed, Current(i)
      PROVE  ~Alg!C!Greater(installed[i].version, updated[i].version)
  <2>1. CASE i \in Alg!C!Offers(packages, installed) /\ Goes(i)
    <3>1. PICK p \in DOMAIN packages :
            packages[p].path = installed[i].path /\ Alg!C!Greater(packages[p].version, installed[i].version)
      BY <2>1 DEF Alg!C!Offers
    <3>2. Found(i) # << >> /\ ~Alg!C!Greater(packages[p].version, Found(i)[1].version)
      BY <1>4, <3>1
    <3>3. IsVersion(packages[p].version) /\ IsVersion(installed[i].version) /\ IsVersion(Found(i)[1].version)
      BY <1>2, <3>2 DEF IsCatalog
    <3>4. Alg!C!Greater(packages[p].version, installed[i].version) /\ Alg!C!Greater(installed[i].version, Found(i)[1].version)
          => Alg!C!Greater(packages[p].version, Found(i)[1].version)
      <4>1. Alg!C!GreaterIsOrder(packages[p].version, installed[i].version, Found(i)[1].version)
        BY <3>3, VersionsOrdered
      <4> QED
        BY <4>1 DEF Alg!C!GreaterIsOrder
    <3> QED
      BY <1>1, <2>1, <3>1, <3>2, <3>4
  <2>2. CASE ~(i \in Alg!C!Offers(packages, installed) /\ Goes(i))
    <3>1. ~Alg!C!Greater(installed[i].version, installed[i].version)
      BY VersionsOrdered, Zenon DEF Alg!C!GreaterIsOrder
    <3> QED
      BY <1>1, <2>2, <3>1
  <2> QED
    BY <2>1, <2>2
<1> QED
  BY <1>3, <1>4 DEF Alg!C!UpdateSettles, Found, updated, Goes

\* The inputs that TLC is given are among these, whatever their size.
CatalogInput ==
    /\ input[1] = "versions" => IsVersion(input[2][1]) /\ IsVersion(input[2][2]) /\ IsVersion(input[2][3])
    /\ input[1] = "find" => IsCatalog(input[2][1])
    /\ input[1] = "update" =>
         IsCatalog(input[2][1]) /\ \A i \in DOMAIN input[2][2] : IsVersion(input[2][2][i].version)

\* Catalog: for versions of any length, catalogs of any size and any host the
\* order is strict, the entry is the host's own, and an update settles.
THEOREM CatalogAlwaysAnswers == CatalogInput => CatalogAnswers
<1> SUFFICES ASSUME CatalogInput PROVE CatalogAnswers
  OBVIOUS
<1>1. ASSUME input[1] = "versions" PROVE Alg!C!GreaterIsOrder(input[2][1], input[2][2], input[2][3])
  BY <1>1, VersionsOrdered DEF CatalogInput
<1>2. ASSUME input[1] = "find" PROVE Alg!C!FindsOwnHost(input[2][1], "p", input[2][2], input[2][3])
  BY <1>2, OwnHostFound DEF CatalogInput
<1>3. ASSUME input[1] = "update"
      PROVE  Alg!C!UpdateSettles(input[2][1], input[2][2], <<"linux", "arm64">>)
  BY <1>3, UpdatesSettle DEF CatalogInput
<1> QED
  BY <1>1, <1>2, <1>3 DEF CatalogAnswers, Alg!CatalogAnswers, Alg!OnIn

-----------------------------------------------------------------------------
(* CmCurl: sequences that are joined *)

Joins(f, parts) == f = [i \in 1..Len(parts) |-> IF i = 1 THEN parts[i] ELSE f[i - 1] \o parts[i]]

LEMMA JoinExists ==
    ASSUME NEW parts, NEW n \in Nat
    PROVE  \E f : f = [i \in 1..n |-> IF i = 1 THEN parts[i] ELSE f[i - 1] \o parts[i]]
<1> DEFINE Upto(f, k) == f = [i \in 1..k |-> IF i = 1 THEN parts[i] ELSE f[i - 1] \o parts[i]]
           S == {k \in Nat : ~ \E f : Upto(f, k)}
<1>1. ASSUME NEW k \in S PROVE \E m \in S : m < k
  <2>1. CASE k = 0
    <3> DEFINE g == [i \in 1..0 |-> << >>]
    <3>1. g = [i \in 1..0 |-> IF i = 1 THEN parts[i] ELSE g[i - 1] \o parts[i]]
      OBVIOUS
    <3> QED
      BY <2>1, <3>1
  <2>2. CASE k # 0
    <3>1. k - 1 \in Nat /\ k - 1 < k
      BY <2>2
    <3>2. ASSUME NEW f, Upto(f, k - 1) PROVE FALSE
      <4> DEFINE g == [i \in 1..k |-> IF i = 1 THEN parts[1] ELSE IF i = k THEN f[k - 1] \o parts[k] ELSE f[i]]
      <4>1. \A i \in 1..(k - 1) : f[i] = IF i = 1 THEN parts[i] ELSE f[i - 1] \o parts[i]
        BY <3>2, Zenon
      <4>2. ASSUME NEW i \in 1..k PROVE g[i] = IF i = 1 THEN parts[i] ELSE g[i - 1] \o parts[i]
        <5>1. CASE i = 1
          BY <5>1
        <5>2. CASE i # 1
          <6>1. i - 1 \in 1..k /\ i - 1 \in 1..(k - 1) /\ i - 1 # k
            BY <5>2
          <6>2. g[i - 1] = f[i - 1]
            <7>1. CASE i - 1 = 1
              BY <4>1, <6>1, <7>1
            <7>2. CASE i - 1 # 1
              BY <6>1, <7>2
            <7> QED
              BY <7>1, <7>2
          <6>3. CASE i = k
            BY <5>2, <6>2, <6>3
          <6>4. CASE i # k
            <7>1. i \in 1..(k - 1)
              BY <6>4
            <7>2. f[i] = f[i - 1] \o parts[i]
              BY <4>1, <5>2, <7>1
            <7> QED
              BY <5>2, <6>2, <6>4, <7>2
          <6> QED
            BY <6>3, <6>4
        <5> QED
          BY <5>1, <5>2
      <4>3. g = [i \in 1..k |-> g[i]]
        OBVIOUS
      <4> HIDE DEF g
      <4>4. g = [i \in 1..k |-> IF i = 1 THEN parts[i] ELSE g[i - 1] \o parts[i]]
        BY <4>2, <4>3, Zenon
      <4>5. Upto(g, k)
        BY <4>4, Zenon
      <4> QED
        BY <4>5, Zenon
    <3>3. k - 1 \in S
      BY <3>1, <3>2
    <3> QED
      BY <3>1, <3>3, Zenon
  <2> QED
    BY <2>1, <2>2, Zenon
<1> HIDE DEF S
<1>2. S = {}
  BY <1>1, NoLeast DEF S
<1> QED
  BY <1>2 DEF S

\* What FlattenSeq returns, of sequences that are not empty.
LEMMA Joined ==
    ASSUME NEW S, NEW n \in Nat \ {0}, NEW parts \in [1..n -> Seq(S)], \A i \in 1..n : Len(parts[i]) >= 1
    PROVE  LET joined == Alg!U!FlattenSeq(parts) IN
           /\ joined \in Seq(S)
           /\ Len(joined) >= n
           /\ (\A i \in 1..n : Len(parts[i]) = 1) => joined = [i \in 1..n |-> parts[i][1]]
<1> DEFINE Upto(f) == f = [i \in 1..n |-> IF i = 1 THEN parts[i] ELSE f[i - 1] \o parts[i]]
           g == CHOOSE f : Upto(f)
           joined == Alg!U!FlattenSeq(parts)
           Single == \A i \in 1..n : Len(parts[i]) = 1
<1>1. parts \in Seq(Seq(S)) /\ Len(parts) = n
  BY SMTT(30)
<1>2. Upto(g)
  BY JoinExists, Zenon
<1>3. joined = g[n]
  BY <1>1 DEF Alg!U!FlattenSeq
<1> HIDE DEF g, joined, Single
<1>4. \A i \in 1..n : g[i] = IF i = 1 THEN parts[i] ELSE g[i - 1] \o parts[i]
  BY <1>2, Zenon
<1> HIDE DEF Upto
<1> DEFINE Good(i) == /\ g[i] \in Seq(S) /\ Len(g[i]) >= i
                      /\ Single => Len(g[i]) = i /\ \A j \in 1..i : g[i][j] = parts[j][1]
           Bad == {i \in Nat : i \in 1..n /\ ~Good(i)}
<1>5. ASSUME NEW k \in Bad PROVE \E m \in Bad : m < k
  <2>1. CASE k = 1
    <3>1. g[1] = parts[1] /\ parts[1] \in Seq(S) /\ Len(parts[1]) >= 1
      BY <1>4, <2>1
    <3>2. Single => Len(parts[1]) = 1
      BY DEF Single
    <3>3. Good(1)
      BY <3>1, <3>2
    <3> QED
      BY <2>1, <3>3
  <2>2. CASE k # 1
    <3>1. k - 1 \in 1..n /\ k \in 1..n /\ k - 1 < k /\ k - 1 \in Nat
      BY <2>2
    <3>2. ASSUME Good(k - 1) PROVE FALSE
      <4> DEFINE a == g[k - 1]
                 b == parts[k]
      <4>1. a \in Seq(S) /\ b \in Seq(S) /\ Len(a) >= k - 1 /\ Len(b) >= 1
        BY <3>1, <3>2
      <4>2. g[k] = a \o b
        BY <1>4, <2>2, <3>1
      <4>3. Single => Len(a) = k - 1 /\ Len(b) = 1 /\ \A j \in 1..(k - 1) : a[j] = parts[j][1]
        BY <3>1, <3>2 DEF Single
      <4>3b. b[1] = parts[k][1]
        OBVIOUS
      <4> HIDE DEF a, b
      <4>4. a \o b \in Seq(S) /\ Len(a \o b) >= k
        BY <3>1, <4>1
      <4>5. ASSUME Single PROVE Len(a \o b) = k /\ \A j \in 1..k : (a \o b)[j] = parts[j][1]
        <5>1. Len(a) = k - 1 /\ Len(b) = 1 /\ \A j \in 1..(k - 1) : a[j] = parts[j][1]
          BY <4>3, <4>5
        <5>2. Len(a \o b) = k
          <6>1. Len(a \o b) = Len(a) + Len(b)
            BY <4>1
          <6> QED
            BY <3>1, <5>1, <6>1
        <5>3. ASSUME NEW j \in 1..(k - 1) PROVE (a \o b)[j] = parts[j][1]
          <6>1. j \in 1..Len(a)
            BY <5>1
          <6>2. (a \o b)[j] = a[j]
            BY <4>1, <6>1
          <6> QED
            BY <5>1, <6>2
        <5>4. (a \o b)[k] = b[1]
          <6>1. (a \o b)[Len(a) + 1] = b[1]
            BY <4>1
          <6>2. Len(a) + 1 = k
            BY <3>1, <5>1
          <6> QED
            BY <6>1, <6>2, Zenon
        <5> QED
          BY <3>1, <4>3b, <5>2, <5>3, <5>4
      <4>6. Good(k)
        BY <4>2, <4>4, <4>5
      <4> QED
        BY <4>6
    <3> QED
      BY <3>1, <3>2, Zenon
  <2> QED
    BY <2>1, <2>2
<1> HIDE DEF Bad, Good
<1>6. Bad = {}
  BY <1>5, NoLeast DEF Bad
<1>7. Good(n)
  BY <1>6 DEF Bad
<1>8. ASSUME Single PROVE joined = [i \in 1..n |-> parts[i][1]]
  <2>1. joined \in Seq(S) /\ Len(joined) = n /\ \A j \in 1..n : joined[j] = parts[j][1]
    BY <1>3, <1>7, <1>8 DEF Good
  <2>2. joined = [i \in 1..n |-> joined[i]]
    BY <2>1
  <2> QED
    BY <2>1, <2>2
<1> QED
  BY <1>3, <1>7, <1>8 DEF Good, joined, Single

-----------------------------------------------------------------------------
(* CmCurl: the address of a file *)

\* Windows has the characters of an encoded space in every code page.
KeepsAscii(lost) == {"%", "2", "0"} \cap lost = {}

\* The characters that stay as they are.
IsBlank(c)     == c = " "
Printed(Chars) == {c \in Chars : ~IsBlank(c)}

LEMMA EncodedOne ==
    /\ ~IsBlank("%") /\ ~IsBlank("2") /\ ~IsBlank("0")
    /\ \A c : Alg!U!Encoded(c) = IF IsBlank(c) THEN <<"%", "2", "0">> ELSE <<c>>
<1>1. ~IsBlank("%") /\ ~IsBlank("2") /\ ~IsBlank("0")
  BY Zenon DEF IsBlank
<1>2. \A c : Alg!U!Encoded(c) = IF IsBlank(c) THEN <<"%", "2", "0">> ELSE <<c>>
  BY Zenon DEF IsBlank, Alg!U!Encoded
<1> QED
  BY <1>1, <1>2

LEMMA EncodedIs ==
    ASSUME NEW n \in Nat, NEW Chars, {"%", "2", "0"} \subseteq Chars, NEW path1 \in [1..n -> Chars]
    PROVE  LET encoded == Alg!U!FlattenSeq([i \in DOMAIN path1 |-> Alg!U!Encoded(path1[i])]) IN
           /\ encoded \in Seq(Printed(Chars))
           /\ Len(encoded) >= n
           /\ (\A i \in 1..n : ~IsBlank(path1[i])) => encoded = path1
<1> DEFINE parts == [i \in 1..n |-> Alg!U!Encoded(path1[i])]
           encoded == Alg!U!FlattenSeq(parts)
           P == Printed(Chars)
<1>1. [i \in DOMAIN path1 |-> Alg!U!Encoded(path1[i])] = parts
  OBVIOUS
<1>2. "%" \in P /\ "2" \in P /\ "0" \in P
  BY EncodedOne DEF Printed
<1>3. \A c \in Chars : ~IsBlank(c) => c \in P
  BY DEF Printed
<1> HIDE DEF P
<1>6. \A c, d, e \in P : /\ <<c, d, e>> \in Seq(P) /\ Len(<<c, d, e>>) = 3
                        /\ <<c>> \in Seq(P) /\ Len(<<c>>) = 1 /\ <<c>>[1] = c
  OBVIOUS
<1>7. ASSUME NEW c \in Chars
      PROVE  /\ Alg!U!Encoded(c) \in Seq(P) /\ Len(Alg!U!Encoded(c)) >= 1
             /\ ~IsBlank(c) => Len(Alg!U!Encoded(c)) = 1 /\ Alg!U!Encoded(c)[1] = c
  <2>1. CASE IsBlank(c)
    <3>1. Alg!U!Encoded(c) \in Seq(P) /\ Len(Alg!U!Encoded(c)) = 3
      BY <1>2, <1>6, <2>1, EncodedOne
    <3> QED
      BY <2>1, <3>1
  <2>2. CASE ~IsBlank(c)
    <3>1. Alg!U!Encoded(c) \in Seq(P) /\ Len(Alg!U!Encoded(c)) = 1 /\ Alg!U!Encoded(c)[1] = c
      BY <1>3, <1>6, <2>2, EncodedOne
    <3> QED
      BY <3>1
  <2> QED
    BY <2>1, <2>2
<1>8. CASE n = 0
  <2>1. Len(parts) = 0 /\ parts \in Seq(P) /\ path1 = parts
    BY <1>8
  <2> HIDE DEF parts
  <2>2. encoded = parts
    BY <2>1 DEF Alg!U!FlattenSeq
  <2>3. encoded \in Seq(P) /\ Len(encoded) >= n /\ encoded = path1
    BY <1>8, <2>1, <2>2
  <2> HIDE DEF encoded
  <2>4. encoded = Alg!U!FlattenSeq([i \in DOMAIN path1 |-> Alg!U!Encoded(path1[i])])
    BY <1>1 DEF encoded
  <2> QED
    BY <2>3, <2>4 DEF P
<1>9. CASE n # 0
  <2>1. parts \in [1..n -> Seq(P)] /\ \A i \in 1..n : parts[i] = Alg!U!Encoded(path1[i])
    BY <1>7
  <2>2. \A i \in 1..n : Len(parts[i]) >= 1
    BY <1>7, <2>1
  <2> HIDE DEF parts
  <2>3. n \in Nat \ {0}
    BY <1>9
  <2>4. /\ encoded \in Seq(P) /\ Len(encoded) >= n
        /\ (\A i \in 1..n : Len(parts[i]) = 1) => encoded = [i \in 1..n |-> parts[i][1]]
    <3>1. parts \in [1..n -> Seq(P)]
      BY <2>1
    <3> QED
      BY <2>2, <2>3, <3>1, Joined
  <2>5. ASSUME \A i \in 1..n : ~IsBlank(path1[i]) PROVE encoded = path1
    <3>1. \A i \in 1..n : path1[i] \in Chars
      OBVIOUS
    <3>2. ASSUME NEW i \in 1..n PROVE Len(parts[i]) = 1 /\ parts[i][1] = path1[i]
      <4>1. parts[i] = Alg!U!Encoded(path1[i]) /\ ~IsBlank(path1[i]) /\ path1[i] \in Chars
        BY <2>1, <2>5, <3>1
      <4> QED
        BY <1>7, <4>1, Zenon
    <3>3. encoded = [i \in 1..n |-> parts[i][1]]
      BY <2>4, <3>2
    <3>4. encoded = [i \in 1..n |-> path1[i]]
      BY <3>2, <3>3
    <3> QED
      BY <3>4
  <2> QED
    BY <1>1, <2>4, <2>5 DEF P
<1> QED
  BY <1>8, <1>9

\* A URL, of characters among Chars.
IsURL(url, Chars) ==
    /\ url.file \in BOOLEAN
    /\ \E n \in Nat : url.path \in [1..n -> Chars]
    /\ url = [file |-> url.file, path |-> url.path]

\* Encoding the spaces of a path a second time changes nothing.
THEOREM FileURLFound ==
    ASSUME NEW Chars, {"%", "2", "0", "?"} \subseteq Chars, NEW url, IsURL(url, Chars),
           NEW lost, KeepsAscii(lost), NEW windows \in BOOLEAN
    PROVE  Alg!U!FileURLNamesFile(url, windows, lost)
<1> DEFINE fixed == Alg!U!FixFileURL(url, windows, lost)
           Spaces(p) == Alg!U!FlattenSeq([i \in DOMAIN p |-> Alg!U!Encoded(p[i])])
           spaced == Spaces(url.path)
           page   == Alg!U!ToCodePage(spaced, windows, lost)
<1>1. PICK n \in Nat : url.path \in [1..n -> Chars]
  BY DEF IsURL
<1>2. /\ spaced \in Seq(Printed(Chars)) /\ Len(spaced) >= n
      /\ (\A i \in 1..n : ~IsBlank(url.path[i])) => spaced = url.path
  BY <1>1, EncodedIs
<1>3. PICK k \in Nat : k >= n /\ spaced \in [1..k -> Printed(Chars)]
  BY <1>2
<1>4. url.file => fixed = [url EXCEPT !.path = page]
  BY Zenon DEF Alg!U!FixFileURL
<1>5. ~url.file => fixed = url
  BY DEF Alg!U!FixFileURL
<1> HIDE DEF spaced, page, fixed
<1>6. url.file => fixed.path = page
  BY <1>4 DEF IsURL
<1>7. page = IF windows THEN [i \in DOMAIN spaced |-> IF spaced[i] \in lost THEN "?" ELSE spaced[i]] ELSE spaced
  BY DEF page, Alg!U!ToCodePage
<1>8. ~IsBlank("?")
  BY Zenon DEF IsBlank
<1>9. page \in [1..k -> Printed(Chars)]
  BY <1>3, <1>7, <1>8 DEF Printed
<1>10. \A i \in DOMAIN page : ~IsBlank(page[i])
  BY <1>9 DEF Printed
<1>11. Spaces(page) = page
  <2>1. page \in [1..k -> Chars] /\ \A i \in 1..k : ~IsBlank(page[i])
    BY <1>9 DEF Printed
  <2> QED
    BY <2>1, EncodedIs
<1>12. ASSUME Alg!U!ToSet(url.path) \cap lost = {} PROVE page = spaced
  <2>1. \A i \in 1..n : url.path[i] \in Chars \ lost
    BY <1>1, <1>12 DEF Alg!U!ToSet
  <2>2. url.path \in [1..n -> Chars \ lost] /\ {"%", "2", "0"} \subseteq Chars \ lost
    BY <1>1, <2>1 DEF KeepsAscii
  <2>3. spaced \in Seq(Printed(Chars \ lost))
    BY <2>2, EncodedIs DEF spaced
  <2>4. \A i \in DOMAIN spaced : spaced[i] \notin lost
    BY <2>3 DEF Printed
  <2> QED
    BY <1>3, <1>7, <2>4
<1>13. Len(page) = k
  BY <1>9
<1>14. Len(url.path) = n
  BY <1>1
<1>15. \A i \in DOMAIN page : page[i] # " "
  BY <1>10, Zenon DEF IsBlank
<1>16. url.file => \A i \in DOMAIN fixed.path : fixed.path[i] # " "
  BY <1>6, <1>15, Zenon
<1>17. url.file => (Alg!U!ToSet(url.path) \cap lost = {} => Spaces(fixed.path) = Spaces(url.path))
  BY <1>6, <1>11, <1>12, Zenon DEF spaced
<1>18. url.file => (~windows => Len(fixed.path) >= Len(url.path))
  BY <1>3, <1>6, <1>13, <1>14
<1> QED
  BY <1>5, <1>16, <1>17, <1>18, Zenon DEF Alg!U!FileURLNamesFile, fixed

-----------------------------------------------------------------------------
(* CmCurl: certificates, logins, versions *)

Unnamed(s) == s = ""

\* One origin decides, whatever certificates there are and libcurl answers.
THEOREM OneOriginDecides ==
    ASSUME NEW cafile, NEW env, NEW find \in BOOLEAN, NEW answers
    PROVE  Alg!U!OneOrigin(cafile, env, find, answers)
<1> DEFINE r      == Alg!U!SetCAInfo(cafile, env, find, answers)
           order  == <<"SSL_CERT_FILE", "SSL_CERT_DIR", "cert_pem", "fedora", "common_file", "common_directory">>
           usable == IF find THEN env ELSE env \ {"fedora", "common_file", "common_directory"}
           places == {i \in DOMAIN order : order[i] \in usable}
           First(source) == \E i \in places : order[i] = source /\ \A j \in places : i <= j
           tried  == IF ~Unnamed(cafile) THEN {Alg!U!CAFile(cafile)} ELSE Alg!U!FromSystem(env, find)
<1>1. ASSUME "HOME" \in env
      PROVE  r = [outcome |-> IF \E t \in tried : Alg!U!Refused(answers[t.option]) THEN "error" ELSE "ok",
                  set     |-> {t \in tried : answers[t.option] = "OK"}]
  BY <1>1, Zenon DEF Alg!U!SetCAInfo, Unnamed
<1> HIDE DEF r, tried
<1>2. ASSUME "HOME" \in env
      PROVE  /\ r.set = {t \in tried : answers[t.option] = "OK"}
             /\ r.outcome = IF \E t \in tried : Alg!U!Refused(answers[t.option]) THEN "error" ELSE "ok"
  BY <1>1, <1>2
<1>3. /\ DOMAIN order = 1..6
      /\ order[1] = "SSL_CERT_FILE" /\ order[2] = "SSL_CERT_DIR" /\ order[3] = "cert_pem"
      /\ order[4] = "fedora" /\ order[5] = "common_file" /\ order[6] = "common_directory"
  OBVIOUS
<1>4. \A i : i \in 1..6 <=> i \in {1, 2, 3, 4, 5, 6}
  OBVIOUS
<1> HIDE DEF order
<1>5. /\ 1 \in places <=> "SSL_CERT_FILE" \in env
      /\ 2 \in places <=> "SSL_CERT_DIR" \in env
      /\ 3 \in places <=> "cert_pem" \in env
      /\ 4 \in places <=> find /\ "fedora" \in env
      /\ 5 \in places <=> find /\ "common_file" \in env
      /\ 6 \in places <=> find /\ "common_directory" \in env
  BY <1>3
<1>6. places \subseteq {1, 2, 3, 4, 5, 6}
  BY <1>3
<1> HIDE DEF places, usable
<1>7. ASSUME Unnamed(cafile)
      PROVE  /\ tried = {} => places = {}
             /\ \A t \in tried : First(t.source) \/ (First("common_file") /\ t.source = "common_directory")
  <2>1. tried = Alg!U!FromSystem(env, find)
    BY <1>7 DEF tried
  <2>2. CASE 1 \in places
    <3>1. First("SSL_CERT_FILE")
      BY <1>3, <1>6, <2>2
    <3>2. tried = {[option |-> "CAINFO", source |-> "SSL_CERT_FILE"]}
      BY <1>5, <2>1, <2>2 DEF Alg!U!FromSystem, Alg!U!CAFile
    <3>9. tried # {} /\ \A t \in tried : t.source = "SSL_CERT_FILE"
      BY <3>2
    <3> HIDE DEF First
    <3> QED
      BY <3>1, <3>9
  <2>3. CASE 1 \notin places /\ 2 \in places
    <3>1. First("SSL_CERT_DIR")
      BY <1>3, <1>6, <2>3
    <3>2. env \cap {"SSL_CERT_FILE", "SSL_CERT_DIR"} = {"SSL_CERT_DIR"}
      BY <1>5, <2>3
    <3>3. tried = {[option |-> "CAPATH", source |-> "SSL_CERT_DIR"]}
      BY <1>5, <2>1, <2>3, <3>2 DEF Alg!U!FromSystem, Alg!U!CAPath
    <3>9. tried # {} /\ \A t \in tried : t.source = "SSL_CERT_DIR"
      BY <3>3
    <3> HIDE DEF First
    <3> QED
      BY <3>1, <3>9
  <2>4. CASE 1 \notin places /\ 2 \notin places
    <3>1. tried = IF "cert_pem" \in env THEN {Alg!U!CAFile("cert_pem")}
                  ELSE IF ~find THEN {}
                  ELSE IF "fedora" \in env THEN {Alg!U!CAFile("fedora")}
                  ELSE {Alg!U!CAFile(s) : s \in env \cap {"common_file"}}
                       \cup {Alg!U!CAPath(s) : s \in env \cap {"common_directory"}}
      BY <1>5, <2>1, <2>4 DEF Alg!U!FromSystem
    <3>2. CASE 3 \in places
      <4>1. First("cert_pem")
        BY <1>3, <1>6, <2>4, <3>2
      <4>2. tried = {[option |-> "CAINFO", source |-> "cert_pem"]}
        BY <1>5, <3>1, <3>2 DEF Alg!U!CAFile
      <4>9. tried # {} /\ \A t \in tried : t.source = "cert_pem"
        BY <4>2
      <4> HIDE DEF First
      <4> QED
        BY <4>1, <4>9
    <3>3. CASE 3 \notin places /\ 4 \in places
      <4>1. First("fedora")
        BY <1>3, <1>6, <2>4, <3>3
      <4>2. tried = {[option |-> "CAINFO", source |-> "fedora"]}
        BY <1>5, <3>1, <3>3 DEF Alg!U!CAFile
      <4>9. tried # {} /\ \A t \in tried : t.source = "fedora"
        BY <4>2
      <4> HIDE DEF First
      <4> QED
        BY <4>1, <4>9
    <3>4. CASE 3 \notin places /\ ~find
      <4>1. tried = {} /\ places = {}
        BY <1>5, <1>6, <2>4, <3>1, <3>4
      <4> QED
        BY <4>1
    <3>5. CASE 3 \notin places /\ 4 \notin places /\ find
      <4>1. tried = {Alg!U!CAFile(s) : s \in env \cap {"common_file"}}
                    \cup {Alg!U!CAPath(s) : s \in env \cap {"common_directory"}}
        BY <1>5, <3>1, <3>5
      <4>2. \A t \in tried : \/ t.source = "common_file" /\ "common_file" \in env
                             \/ t.source = "common_directory" /\ "common_directory" \in env
        BY <4>1 DEF Alg!U!CAFile, Alg!U!CAPath
      <4>3. 5 \in places => First("common_file")
        BY <1>3, <1>6, <2>4, <3>5
      <4>4. 5 \notin places /\ 6 \in places => First("common_directory")
        BY <1>3, <1>6, <2>4, <3>5
      <4>5. tried = {} => 5 \notin places /\ 6 \notin places
        BY <1>5, <4>1
      <4>6. tried = {} => places = {}
        BY <1>6, <2>4, <3>5, <4>5
      <4> HIDE DEF First
      <4>7. ASSUME NEW t \in tried PROVE First(t.source) \/ (First("common_file") /\ t.source = "common_directory")
        BY <1>5, <3>5, <4>2, <4>3, <4>4
      <4> QED
        BY <4>6, <4>7
    <3> QED
      BY <3>2, <3>3, <3>4, <3>5
  <2> QED
    BY <2>2, <2>3, <2>4
<1>8. ASSUME ~Unnamed(cafile) PROVE tried = {[option |-> "CAINFO", source |-> cafile]}
  BY <1>8 DEF tried, Alg!U!CAFile
<1> HIDE DEF First
<1>9. ASSUME "HOME" \in env
      PROVE  /\ \A a \in r.set : \/ ~Unnamed(cafile) /\ a.source = cafile
                                 \/ Unnamed(cafile) /\ First(a.source)
                                 \/ Unnamed(cafile) /\ First("common_file") /\ a.source = "common_directory"
             /\ (~Unnamed(cafile) \/ places # {}) /\ r.set = {} =>
                  r.outcome = "error" \/ "NOT_BUILT_IN" \in Alg!U!CAAnswers(answers)
             /\ (\A a \in Alg!U!CAAnswers(answers) : ~Alg!U!Refused(a)) => r.outcome = "ok"
  <2>1. r.set \subseteq tried
    BY <1>2, <1>9
  <2>o. \A t \in tried : t.option \in {"CAINFO", "CAPATH"}
    BY DEF tried, Alg!U!FromSystem, Alg!U!CAFile, Alg!U!CAPath
  <2>2. ASSUME tried # {}, r.set = {}
        PROVE  r.outcome = "error" \/ "NOT_BUILT_IN" \in Alg!U!CAAnswers(answers)
    <3>1. PICK t \in tried : answers[t.option] # "OK"
      BY <1>2, <1>9, <2>2
    <3>2. r.outcome = "error" \/ answers[t.option] = "NOT_BUILT_IN"
      BY <1>2, <1>9, <3>1 DEF Alg!U!Refused
    <3> QED
      BY <2>o, <3>2 DEF Alg!U!CAAnswers
  <2>3. (\A a \in Alg!U!CAAnswers(answers) : ~Alg!U!Refused(a)) => r.outcome = "ok"
    BY <1>2, <1>9, <2>o DEF Alg!U!CAAnswers
  <2>4. \A a \in r.set : \/ ~Unnamed(cafile) /\ a.source = cafile
                         \/ Unnamed(cafile) /\ First(a.source)
                         \/ Unnamed(cafile) /\ First("common_file") /\ a.source = "common_directory"
    BY <1>7, <1>8, <2>1
  <2>5. (~Unnamed(cafile) \/ places # {}) => tried # {}
    BY <1>7, <1>8
  <2> QED
    BY <2>2, <2>3, <2>4, <2>5
<1> QED
  BY <1>9, Zenon DEF Alg!U!OneOrigin, Unnamed, First, places, usable, order, r

LEMMA ListsOfOne == \A x, y : <<x>> \o << >> = <<x>> /\ <<x>> \o <<y>> = <<x, y>>
<1> SUFFICES ASSUME NEW x, NEW y PROVE <<x>> \o << >> = <<x>> /\ <<x>> \o <<y>> = <<x, y>>
  OBVIOUS
<1> DEFINE S == {x, y}
           s == <<x>>
           t == <<y>>
<1>1. x \in S /\ y \in S
  OBVIOUS
<1> HIDE DEF S
<1>2. s \in Seq(S) /\ t \in Seq(S) /\ Len(s) = 1 /\ Len(t) = 1 /\ s[1] = x /\ t[1] = y
  BY <1>1
<1> HIDE DEF s, t
<1>3. s \o << >> = s
  BY <1>2, ConcatEmptySeq
<1>4. s \o t \in Seq(S) /\ Len(s \o t) = 2 /\ (s \o t)[1] = x /\ (s \o t)[2] = y
  <2>1. /\ s \o t \in Seq(S) /\ Len(s \o t) = Len(s) + Len(t)
        /\ \A i \in 1..(Len(s) + Len(t)) : (s \o t)[i] = IF i <= Len(s) THEN s[i] ELSE t[i - Len(s)]
    BY <1>2, ConcatProperties
  <2> QED
    BY <1>2, <2>1
<1> DEFINE u == s \o t
<1>5. u \in Seq(S) /\ Len(u) = 2 /\ u[1] = x /\ u[2] = y
  BY <1>4
<1> HIDE DEF u
<1>6. u = <<x, y>>
  BY <1>5
<1> QED
  BY <1>3, <1>6 DEF s, t, u

\* A login is read only at a level that reads it.
THEOREM LoginNeedsLevel ==
    ASSUME NEW level, NEW file1, NEW answers
    PROVE  Alg!U!FileNeedsLevel(level, file1, answers)
<1> DEFINE r      == Alg!U!SetNETRCOption(level, file1, answers)
           Reads  == level \in {"OPTIONAL", "REQUIRED"}
           toLevel == answers["NETRC"]
           toFile  == answers["NETRC_FILE"]
           levels == IF toLevel = "OK" THEN <<level>> ELSE << >>
           files  == IF ~Unnamed(file1) /\ toFile = "OK" THEN <<file1>> ELSE << >>
<1>1. r = [outcome |-> CASE Unnamed(level) -> "ok"
                         [] ~Unnamed(level) /\ level \notin {"OPTIONAL", "REQUIRED", "IGNORED"} -> "error"
                         [] level = "IGNORED" -> "ok"
                         [] OTHER -> IF Alg!U!Refused(toLevel) \/ (~Unnamed(file1) /\ Alg!U!Refused(toFile))
                                     THEN "error" ELSE "ok",
           set |-> Alg!U!NetrcOptions(level, file1, answers)]
  BY Zenon DEF Alg!U!SetNETRCOption, Alg!U!Levels, Unnamed
<1>2. Alg!U!NetrcOptions(level, file1, answers) = IF ~Reads \/ Alg!U!Refused(toLevel) THEN << >> ELSE levels \o files
  BY Zenon DEF Alg!U!NetrcOptions, Alg!U!LevelSet, Alg!U!FileSet, Unnamed
<1>3. ~Unnamed("OPTIONAL") /\ ~Unnamed("REQUIRED") /\ ~Unnamed("IGNORED")
  BY Zenon DEF Unnamed
<1> HIDE DEF r
<1>4. <<level>> \o << >> = <<level>> /\ <<level>> \o <<file1>> = <<level, file1>>
  BY ListsOfOne, Zenon
<1>5. toLevel = "OK" /\ Reads => r.set = IF ~Unnamed(file1) /\ toFile = "OK" THEN <<level, file1>> ELSE <<level>>
  BY <1>1, <1>2, <1>4 DEF Alg!U!Refused
<1>6. ASSUME r.set # << >> PROVE Reads /\ toLevel \in {"OK", "NOT_BUILT_IN"}
  BY <1>1, <1>2, <1>6 DEF Alg!U!Refused
<1>7. ASSUME toLevel = "OK", Reads
      PROVE  r.set = IF Unnamed(file1) \/ toFile # "OK" THEN <<level>> ELSE <<level, file1>>
  BY <1>5, <1>7
<1>8. ASSUME level \notin {"OPTIONAL", "REQUIRED", "IGNORED"}, ~Unnamed(level) PROVE r.outcome = "error"
  BY <1>1, <1>8
<1>9. /\ r.set # << >> => level \in Alg!U!Levels \ {"IGNORED"} /\ toLevel \in {"OK", "NOT_BUILT_IN"}
      /\ toLevel = "OK" /\ r.set # << >> => r.set[1] = level
  BY <1>5, <1>6 DEF Alg!U!Levels
<1>10. level \notin Alg!U!Levels \cup {""} => r.outcome = "error"
  BY <1>8, Zenon DEF Alg!U!Levels, Unnamed
<1>11. toLevel = "OK" /\ r.outcome = "ok" /\ level \in {"OPTIONAL", "REQUIRED"} =>
         r.set = IF file1 = "" \/ toFile # "OK" THEN <<level>> ELSE <<level, file1>>
  BY <1>7, Zenon DEF Unnamed
<1> QED
  BY <1>9, <1>10, <1>11, Zenon DEF Alg!U!FileNeedsLevel, r

\* Each part of a version of curl is a byte.
IsByte(n) == n \in Nat /\ n < 256
IsCurlVersion(v) == v = <<v[1], v[2], v[3]>> /\ IsByte(v[1]) /\ IsByte(v[2]) /\ IsByte(v[3])

\* A number of three bytes lies between two of the eighth version exactly if its second byte does.
LEMMA MinorBetween ==
    ASSUME NEW a \in Nat, NEW b \in Nat, NEW c \in Nat, b < 256, c < 256,
           NEW low \in Nat, NEW high \in Nat, low < high, high < 256,
           NEW x, NEW m, NEW n, x = a * 65536 + b * 256 + c,
           m = 8 * 65536 + low * 256, n = 8 * 65536 + high * 256
    PROVE  (x >= m /\ x < n) <=> (a = 8 /\ low <= b /\ b < high)
<1>1. x \in Nat /\ m \in Nat /\ n \in Nat
  OBVIOUS
<1> QED
  OBVIOUS

Between(v, low, high) == Alg!U!From(v, <<8, low, 0>>, <<8, high, 0>>)

LEMMA FromIs ==
    ASSUME NEW v, NEW a \in Nat, NEW b \in Nat, NEW c \in Nat, v = <<a, b, c>>, b < 256, c < 256,
           NEW low \in Nat, NEW high \in Nat, low < high, high < 256
    PROVE  Between(v, low, high) <=> (a = 8 /\ low <= b /\ b < high)
<1> DEFINE x == Alg!U!Number(v)
           m == Alg!U!Number(<<8, low, 0>>)
           n == Alg!U!Number(<<8, high, 0>>)
<1>1. Between(v, low, high) <=> (x >= m /\ x < n)
  BY Zenon DEF Alg!U!From, Between
<1>2. x = a * 65536 + b * 256 + c
  BY DEF Alg!U!Number
<1>3. m = 8 * 65536 + low * 256
  BY DEF Alg!U!Number
<1>4. n = 8 * 65536 + high * 256
  BY DEF Alg!U!Number
<1> HIDE DEF x, m, n
<1>5. (x >= m /\ x < n) <=> (a = 8 /\ low <= b /\ b < high)
  BY <1>2, <1>3, <1>4
<1> QED
  BY <1>1, <1>5, Zenon

\* The remedies are for their versions.
THEOREM RemediesMatch ==
    ASSUME NEW v, IsCurlVersion(v), NEW backend, NEW systemMac \in BOOLEAN
    PROVE  Alg!U!RemediesInRange(v, backend, systemMac)
<1>1. PICK a \in Nat, b \in Nat, c \in Nat : v = <<a, b, c>> /\ b < 256 /\ c < 256
  BY DEF IsCurlVersion, IsByte
<1>2. v[1] = a /\ v[2] = b
  BY <1>1
<1>3. Alg!U!From(v, <<8, 7, 0>>, <<8, 8, 0>>) <=> v[1] = 8 /\ v[2] = 7
  <2>1. Between(v, 7, 8) <=> (a = 8 /\ 7 <= b /\ b < 8)
    <3>1. 7 \in Nat /\ 8 \in Nat /\ 7 < 8 /\ 8 < 256
      OBVIOUS
    <3> QED
      BY <1>1, <3>1, FromIs
  <2>2. (a = 8 /\ 7 <= b /\ b < 8) <=> a = 8 /\ b = 7
    OBVIOUS
  <2> QED
    BY <1>1, <1>2, <2>1, <2>2, Zenon DEF Between
<1>4. Alg!U!From(v, <<8, 3, 0>>, <<8, 6, 0>>) <=> v[1] = 8 /\ v[2] \in 3..5
  <2>1. Between(v, 3, 6) <=> (a = 8 /\ 3 <= b /\ b < 6)
    <3>1. 3 \in Nat /\ 6 \in Nat /\ 3 < 6 /\ 6 < 256
      OBVIOUS
    <3> QED
      BY <1>1, <3>1, FromIs
  <2>2. (a = 8 /\ 3 <= b /\ b < 6) <=> a = 8 /\ b \in 3..5
    OBVIOUS
  <2> QED
    BY <1>1, <1>2, <2>1, <2>2, Zenon DEF Between
<1>5. Alg!U!EasyInit(v) = "HTTP/1.1" <=> v[1] = 8 /\ v[2] = 7
  BY <1>3, Zenon DEF Alg!U!EasyInit
<1>6. Alg!U!GlobalInit(systemMac, backend, v) # "default" <=> systemMac /\ backend = "" /\ v[1] = 8 /\ v[2] \in 3..5
  BY <1>4, Zenon DEF Alg!U!GlobalInit
<1> QED
  BY <1>5, <1>6, Zenon DEF Alg!U!RemediesInRange

T10 == "1.0"
T11 == "1.1"
T12 == "1.2"
T13 == "1.3"

\* What was read can be shown.
THEOREM VersionsAreShown ==
    ASSUME NEW a, NEW b, NEW result
    PROVE  Alg!U!VersionsShown(a, b, result)
<1> DEFINE Shown(t) == Alg!U!PrintTLSVersion(Alg!U!ParseTLSVersion(t))
           Known == {T10, T11, T12, T13}
<1>1. /\ T10 # T11 /\ T10 # T12 /\ T10 # T13 /\ T11 # T12 /\ T11 # T13 /\ T12 # T13
      /\ Known = {T10, T11, T12, T13}
      /\ \A t : Alg!U!ParseTLSVersion(t) =
                  CASE t = T10 -> "TLSv1_0" [] t = T11 -> "TLSv1_1"
                    [] t = T12 -> "TLSv1_2" [] t = T13 -> "TLSv1_3" [] OTHER -> "none"
  BY Zenon DEF Alg!U!ParseTLSVersion, T10, T11, T12, T13
<1> HIDE DEF Known
<1>2. /\ Alg!U!ParseTLSVersion(T10) = "TLSv1_0" /\ Alg!U!ParseTLSVersion(T11) = "TLSv1_1"
      /\ Alg!U!ParseTLSVersion(T12) = "TLSv1_2" /\ Alg!U!ParseTLSVersion(T13) = "TLSv1_3"
      /\ \A t : t \notin Known => Alg!U!ParseTLSVersion(t) = "none"
  BY <1>1
<1>3. /\ Alg!U!PrintTLSVersion("TLSv1_0") = "CURL_SSLVERSION_TLSv1_0"
      /\ Alg!U!PrintTLSVersion("TLSv1_1") = "CURL_SSLVERSION_TLSv1_1"
      /\ Alg!U!PrintTLSVersion("TLSv1_2") = "CURL_SSLVERSION_TLSv1_2"
      /\ Alg!U!PrintTLSVersion("TLSv1_3") = "CURL_SSLVERSION_TLSv1_3"
      /\ Alg!U!PrintTLSVersion("none") = "none"
  BY DEF Alg!U!PrintTLSVersion
<1>4. \A t \in Known : Shown(t) # "none" /\ Alg!U!ParseTLSVersion(t) # "none"
  BY <1>1, <1>2, <1>3
<1>5. \A t, u \in Known : Shown(t) = Shown(u) => t = u
  BY <1>1, <1>2, <1>3
<1>6. Shown(a) # "none" /\ Shown(a) = Shown(b) => b \in Known
  BY <1>2, <1>3
<1>7. Len(Alg!U!Check(<<"earlier">>, result, "line")) = IF result \in {"OK", "NOT_BUILT_IN"} THEN 1 ELSE 2
  BY DEF Alg!U!Check, Alg!U!Refused
<1> QED
  BY <1>2, <1>4, <1>5, <1>6, <1>7, Zenon DEF Alg!U!VersionsShown

\* What CMake is given: an address of any characters and any length, a code
\* page that has the characters of an encoded space, a version of curl whose
\* parts are bytes.  The other arguments are what they like.
CurlInput ==
    /\ input[1] = "ca" => input[2][3] \in BOOLEAN
    /\ input[1] = "url" =>
         /\ \E Chars : {"%", "2", "0", "?"} \subseteq Chars /\ IsURL(input[2][1], Chars)
         /\ input[2][2] \in BOOLEAN /\ KeepsAscii(input[2][3])
    /\ input[1] = "curl" => IsCurlVersion(input[2][1]) /\ input[2][3] \in BOOLEAN

\* CmCurl: for every input of this kind one origin decides about certificates,
\* a login file comes with its level, an address keeps naming its file, and
\* remedies and TLS versions are those that are meant.
THEOREM CurlAlwaysRight == CurlInput => CurlOptions
<1> SUFFICES ASSUME CurlInput PROVE CurlOptions
  OBVIOUS
<1>1. ASSUME input[1] = "ca" PROVE Alg!U!OneOrigin(input[2][1], input[2][2], input[2][3], input[2][4])
  BY <1>1, OneOriginDecides DEF CurlInput
<1>2. ASSUME input[1] = "url" PROVE Alg!U!FileURLNamesFile(input[2][1], input[2][2], input[2][3])
  BY <1>2, FileURLFound DEF CurlInput
<1>3. ASSUME input[1] = "curl" PROVE Alg!U!RemediesInRange(input[2][1], input[2][2], input[2][3])
  BY <1>3, RemediesMatch DEF CurlInput
<1>4. Alg!U!VersionsShown(input[2][1], input[2][2], input[2][3])
  BY VersionsAreShown
<1>5. Alg!U!FileNeedsLevel(input[2][1], input[2][2], input[2][3])
  BY LoginNeedsLevel
<1> QED
  BY <1>1, <1>2, <1>3, <1>4, <1>5 DEF CurlOptions, Alg!CurlOptions, Alg!OnIn

-----------------------------------------------------------------------------
(* NdkPackage *)

\* Kinds of tokens.
Dot  == "."
Beta == "-beta"
Rc   == "-rc"

\* The places of a name that start no suffix.
Plain(given, i) == given[i][1] \notin {Beta, Rc}

LEMMA NoSuffix ==
    ASSUME NEW given, \A i \in DOMAIN given : Plain(given, i)
    PROVE  Alg!G!Suffix(given) = 0
<1>1. Alg!G!Places(given, Beta) = {} /\ Alg!G!Places(given, Rc) = {}
  BY DEF Alg!G!Places, Plain
<1> QED
  BY <1>1 DEF Alg!G!Suffix, Beta, Rc

LEMMA SuffixAtSix ==
    ASSUME NEW given, 6 \in DOMAIN given, given[6][1] \in {Beta, Rc}, \A i \in DOMAIN given : i = 6 \/ Plain(given, i)
    PROVE  Alg!G!Suffix(given) = 6
<1>1. \A kind \in {Beta, Rc} : Alg!G!Places(given, kind) = IF given[6][1] = kind THEN {6} ELSE {}
  BY DEF Alg!G!Places, Plain
<1>2. Alg!G!Min({6}) = 6
  <2>1. \E x \in {6} : \A y \in {6} : x <= y
    OBVIOUS
  <2> QED
    BY <2>1 DEF Alg!G!Min
<1>3. Beta # Rc
  BY DEF Beta, Rc
<1> QED
  BY <1>1, <1>2, <1>3 DEF Alg!G!Suffix, Beta, Rc

\* Tokens of the three numbers of a release.
Numbered(n) == [i \in 1..5 |-> IF i % 2 = 1 THEN <<"number", n[(i + 1) \div 2]>> ELSE <<Dot, 0>>]

LEMMA NumberedIs ==
    ASSUME NEW S, NEW n \in [1..3 -> S]
    PROVE  /\ Numbered(n) \in Seq({"number", Dot} \X (S \cup {0})) /\ Len(Numbered(n)) = 5
           /\ \A i \in 1..5 : Plain(Numbered(n), i)
           /\ Alg!G!Revision(Numbered(n)) = n
<1> DEFINE r == Numbered(n)
           T == {"number", Dot} \X (S \cup {0})
<1>1. Dot # "number" /\ "number" \notin {Beta, Rc} /\ Dot \notin {Beta, Rc}
  BY Zenon DEF Dot, Beta, Rc
<1>2. /\ r \in [1..5 -> T]
      /\ r[1] = <<"number", n[1]>> /\ r[2] = <<Dot, 0>> /\ r[3] = <<"number", n[2]>>
      /\ r[4] = <<Dot, 0>> /\ r[5] = <<"number", n[3]>>
  BY DEF Numbered
<1> HIDE DEF r, T
<1>3. r \in Seq(T) /\ Len(r) = 5
  <2>1. r \in [1..5 -> T] /\ DOMAIN r = 1..5 /\ 5 \in Nat
    BY <1>2
  <2>2. r \in Seq(T)
    BY <2>1, SeqDef, Zenon
  <2> QED
    BY <2>1, <2>2, LenProperties
<1>4. \A i \in 1..5 : r[i][1] = IF i % 2 = 1 THEN "number" ELSE Dot
  BY <1>2
<1>5. \A i \in 1..5 : Plain(r, i)
  <2>1. \A i \in 1..5 : r[i][1] \in {"number", Dot}
    BY <1>4
  <2> QED
    BY <1>1, <2>1 DEF Plain
<1>6. Alg!G!Revision(r) = IF Len(r) >= 5 /\ (\A i \in 1..5 : r[i][1] = IF i % 2 = 1 THEN "number" ELSE Dot)
                      THEN <<r[1][2], r[3][2], r[5][2]>> ELSE << >>
  BY Zenon DEF Alg!G!Revision, Dot
<1>7. Alg!G!Revision(r) = <<n[1], n[2], n[3]>>
  BY <1>2, <1>3, <1>4, <1>6
<1>8. n = <<n[1], n[2], n[3]>>
  OBVIOUS
<1> QED
  BY <1>3, <1>5, <1>7, <1>8 DEF r, T

\* A name that has room is kept whole.
LEMMA KeptWhole == ASSUME NEW S, NEW given \in Seq(S), Len(given) <= 7 PROVE Alg!G!Kept(given) = given
<1>1. SubSeq(given, 1, Len(given)) = given
  BY SubSeqFull
<1> DEFINE n == IF Len(given) < 7 THEN Len(given) ELSE 7
<1>2. n = Len(given)
  <2>1. \A m \in Nat : m <= 7 => (IF m < 7 THEN m ELSE 7) = m
    OBVIOUS
  <2> QED
    BY <2>1, LenProperties, Zenon
<1> HIDE DEF n
<1>3. Alg!G!Kept(given) = SubSeq(given, 1, n)
  BY Zenon DEF Alg!G!Kept, n
<1> QED
  BY <1>1, <1>2, <1>3

NoPrefix == ""

LEMMA MainIs ==
    ASSUME NEW args, Len(args) = 2, NEW given, Alg!G!Kept(args[2]) = given, NEW opens \in BOOLEAN, NEW closes \in BOOLEAN
    PROVE  LET rev == Alg!G!Revision(Alg!G!Release(given)) IN
           /\ rev = << >> \/ ~opens => Alg!G!Main(args, opens, closes) = Alg!G!Failure("old")
           /\ rev # << >> /\ opens /\ ~closes => Alg!G!Main(args, opens, closes) = Alg!G!Failure("cut")
           /\ rev # << >> /\ opens /\ closes =>
                Alg!G!Main(args, opens, closes) =
                  [status |-> 0, file |-> "whole", path |-> rev,
                   revision |-> IF Alg!G!Suffix(given) = 0 THEN rev ELSE Append(rev, Alg!G!Preview(given)),
                   license |-> IF Alg!G!Suffix(given) = 0 THEN "android-sdk-license" ELSE "android-sdk-preview-license",
                   document |-> Alg!G!Document(given, rev)]
  BY DEF Alg!G!Main

LEMMA TwoArguments == \A x, y : Len(<<x, y>>) = 2 /\ <<x, y>>[2] = y
  OBVIOUS

LEMMA FailureIs ==
    \A f : Alg!G!Failure(f).status = 1 /\ Alg!G!Failure(f).file = f /\ Alg!G!Failure(f).document = << >>
  BY Zenon DEF Alg!G!Failure

\* What Main answers for a name of the package.
LEMMA PackageIs ==
    ASSUME NEW given, NEW opens \in BOOLEAN, NEW closes \in BOOLEAN
    PROVE  LET kept == Alg!G!Kept(given)
               rev  == Alg!G!Revision(Alg!G!Release(kept))
               r    == Alg!G!Main(<<"package.xml", given>>, opens, closes) IN
           /\ rev = << >> \/ ~opens => r.status = 1 /\ r.file = "old" /\ r.document = << >>
           /\ rev # << >> /\ opens /\ ~closes => r.status = 1 /\ r.file = "cut" /\ r.document = << >>
           /\ rev # << >> /\ opens /\ closes =>
                /\ r.status = 0 /\ r.file = "whole" /\ r.path = rev
                /\ r.revision = IF Alg!G!Suffix(kept) = 0 THEN rev ELSE Append(rev, Alg!G!Preview(kept))
                /\ r.license = IF Alg!G!Suffix(kept) = 0 THEN "android-sdk-license" ELSE "android-sdk-preview-license"
                /\ r.document = Alg!G!Document(kept, rev)
<1> DEFINE args == <<"package.xml", given>>
           kept == Alg!G!Kept(given)
           rev  == Alg!G!Revision(Alg!G!Release(kept))
           r    == Alg!G!Main(args, opens, closes)
<1>1. Len(args) = 2 /\ Alg!G!Kept(args[2]) = kept
  BY TwoArguments, Zenon
<1> HIDE DEF args, kept
<1>2. /\ rev = << >> \/ ~opens => r = Alg!G!Failure("old")
      /\ rev # << >> /\ opens /\ ~closes => r = Alg!G!Failure("cut")
      /\ rev # << >> /\ opens /\ closes =>
           r = [status |-> 0, file |-> "whole", path |-> rev,
                revision |-> IF Alg!G!Suffix(kept) = 0 THEN rev ELSE Append(rev, Alg!G!Preview(kept)),
                license |-> IF Alg!G!Suffix(kept) = 0 THEN "android-sdk-license" ELSE "android-sdk-preview-license",
                document |-> Alg!G!Document(kept, rev)]
  BY <1>1, MainIs
<1> HIDE DEF rev, r
<1>3. /\ rev = << >> \/ ~opens => r.status = 1 /\ r.file = "old" /\ r.document = << >>
      /\ rev # << >> /\ opens /\ ~closes => r.status = 1 /\ r.file = "cut" /\ r.document = << >>
  BY <1>2, FailureIs, Zenon
<1>4. rev # << >> /\ opens /\ closes =>
        /\ r.status = 0 /\ r.file = "whole" /\ r.path = rev
        /\ r.revision = IF Alg!G!Suffix(kept) = 0 THEN rev ELSE Append(rev, Alg!G!Preview(kept))
        /\ r.license = IF Alg!G!Suffix(kept) = 0 THEN "android-sdk-license" ELSE "android-sdk-preview-license"
        /\ r.document = Alg!G!Document(kept, rev)
  BY <1>2
<1> QED
  BY <1>3, <1>4, Zenon DEF args, kept, rev, r

\* Five tokens and those behind them.
FiveThen(u, s, t, T) == s \in Seq(T) /\ t \in Seq(T) /\ Len(s) = 5 /\ u = s \o t

LEMMA JoinedFive ==
    ASSUME NEW T, NEW s, NEW t, NEW u, FiveThen(u, s, t, T)
    PROVE  /\ u \in Seq(T) /\ Len(u) = 5 + Len(t)
           /\ \A i \in 1..(5 + Len(t)) : u[i] = IF i <= 5 THEN s[i] ELSE t[i - 5]
           /\ SubSeq(u, 1, 5) = s
<1>0. s \in Seq(T) /\ t \in Seq(T) /\ Len(s) = 5 /\ u = s \o t
  BY DEF FiveThen
<1>1. /\ s \o t \in Seq(T) /\ Len(s \o t) = Len(s) + Len(t)
      /\ \A i \in 1..(Len(s) + Len(t)) : (s \o t)[i] = IF i <= Len(s) THEN s[i] ELSE t[i - Len(s)]
  BY <1>0, ConcatProperties
<1>2. SubSeq(s \o t, 1, 5) = SubSeq(s, 1, 5)
  <2>1. 1 \in 1..Len(s) /\ 5 \in 1..Len(s)
    BY <1>0
  <2> QED
    BY <1>0, <2>1, SubSeqOfConcat1, Zenon
<1>3. SubSeq(s, 1, 5) = s
  <2>1. SubSeq(s, 1, Len(s)) = s
    BY <1>0, SubSeqFull
  <2> QED
    BY <1>0, <2>1
<1> QED
  BY <1>0, <1>1, <1>2, <1>3

\* A name that ends with a suffix, behind which a number may be.
Suffixed(given, n, kind, k, suffix) ==
    /\ suffix = <<<<kind, 0>>>> \/ suffix = <<<<kind, 0>>, <<"number", k>>>>
    /\ given = Numbered(n) \o suffix

\* What is read from it.
LEMMA SuffixRead ==
    ASSUME NEW S, NEW n \in [1..3 -> S], NEW kind \in {Beta, Rc}, NEW k, NEW suffix, NEW given,
           Suffixed(given, n, kind, k, suffix)
    PROVE  /\ Alg!G!Kept(given) = given /\ Alg!G!Suffix(given) = 6 /\ Alg!G!Release(given) = Numbered(n)
           /\ Alg!G!Preview(given) = IF Len(suffix) = 2 THEN suffix[2][2] ELSE 0
<1> DEFINE core == Numbered(n)
           T    == ({"number", Dot} \X (S \cup {0})) \cup {<<kind, 0>>, <<"number", k>>}
<1>0. /\ suffix = <<<<kind, 0>>>> \/ suffix = <<<<kind, 0>>, <<"number", k>>>>
      /\ given = Numbered(n) \o suffix
  BY DEF Suffixed
<1>1. "number" \notin {Beta, Rc} /\ <<kind, 0>>[1] = kind /\ <<"number", k>>[1] = "number" /\ <<"number", k>>[2] = k
  <2>1. "number" \notin {Beta, Rc}
    BY DEF Beta, Rc
  <2>2. \A x, y : <<x, y>>[1] = x /\ <<x, y>>[2] = y
    OBVIOUS
  <2> QED
    BY <2>1, <2>2, Zenon
<1>2. core \in Seq(T) /\ Len(core) = 5 /\ \A i \in 1..5 : Plain(core, i)
  <2>1. core \in Seq({"number", Dot} \X (S \cup {0})) /\ Len(core) = 5 /\ \A i \in 1..5 : Plain(core, i)
    BY NumberedIs, Zenon
  <2>2. ({"number", Dot} \X (S \cup {0})) \subseteq T
    BY Zenon
  <2> QED
    BY <2>1, <2>2, SeqMonotonic, ZenonT(40)
<1>3. <<kind, 0>> \in T /\ <<"number", k>> \in T
  BY Zenon
<1> HIDE DEF core, T
<1>4. /\ suffix \in Seq(T) /\ Len(suffix) \in {1, 2}
      /\ suffix[1] = <<kind, 0>> /\ (Len(suffix) = 2 => suffix[2] = <<"number", k>>)
  <2>1. \A x \in T, y \in T : /\ <<x>> \in Seq(T) /\ Len(<<x>>) = 1 /\ <<x>>[1] = x
                              /\ <<x, y>> \in Seq(T) /\ Len(<<x, y>>) = 2 /\ <<x, y>>[1] = x /\ <<x, y>>[2] = y
    OBVIOUS
  <2>2. CASE suffix = <<<<kind, 0>>>>
    <3>1. suffix \in Seq(T) /\ Len(suffix) = 1 /\ suffix[1] = <<kind, 0>>
      BY <1>3, <2>1, <2>2, Zenon
    <3> QED
      BY <3>1
  <2>3. CASE suffix = <<<<kind, 0>>, <<"number", k>>>>
    BY <1>3, <2>1, <2>3, Zenon
  <2> QED
    BY <1>0, <2>2, <2>3
<1> DEFINE m == Len(suffix)
<1>5. /\ given \in Seq(T) /\ Len(given) = 5 + m
      /\ \A i \in 1..(5 + m) : given[i] = IF i <= 5 THEN core[i] ELSE suffix[i - 5]
      /\ SubSeq(given, 1, 5) = core
  <2>1. given = core \o suffix
    BY <1>0, Zenon DEF core
  <2>2. FiveThen(given, core, suffix, T)
    BY <1>2, <1>4, <2>1 DEF FiveThen
  <2> QED
    BY <2>2, JoinedFive, Zenon
<1>6. m \in {1, 2}
  BY <1>4
<1> HIDE DEF m
<1>7. /\ given[6] = <<kind, 0>> /\ (m = 2 => given[7] = <<"number", k>>)
      /\ \A i \in 1..5 : given[i] = core[i]
  <2>1. 6 \in 1..(5 + m) /\ 6 - 5 = 1 /\ ~(6 <= 5) /\ (m = 2 => 7 \in 1..(5 + m)) /\ 7 - 5 = 2 /\ ~(7 <= 5)
    BY <1>6
  <2>2. given[6] = suffix[1]
    BY <1>5, <2>1
  <2>3. m = 2 => given[7] = suffix[2]
    BY <1>5, <2>1
  <2>4. \A i \in 1..5 : given[i] = core[i]
    BY <1>5, <1>6
  <2> QED
    BY <1>4, <2>2, <2>3, <2>4 DEF m
<1>8. Len(given) \in {6, 7} /\ DOMAIN given = 1..(5 + m)
  BY <1>5, <1>6
<1>9. Alg!G!Kept(given) = given
  <2>1. \A l \in {6, 7} : l <= 7
    OBVIOUS
  <2> QED
    BY <1>5, <1>8, <2>1, KeptWhole, Zenon
<1>10. Alg!G!Suffix(given) = 6
  <2>1. 6 \in DOMAIN given
    BY <1>6, <1>8
  <2>2. given[6][1] \in {Beta, Rc}
    BY <1>1, <1>7
  <2>3. ASSUME NEW i \in DOMAIN given, i # 6 PROVE Plain(given, i)
    <3>1. i \in 1..5 \/ (i = 7 /\ m = 2)
      BY <1>6, <1>8, <2>3
    <3>2. CASE i \in 1..5
      BY <1>2, <1>7, <3>2 DEF Plain
    <3>3. CASE i = 7 /\ m = 2
      BY <1>1, <1>7, <3>3 DEF Plain
    <3> QED
      BY <3>1, <3>2, <3>3
  <2> QED
    BY <2>1, <2>2, <2>3, SuffixAtSix
<1>11. Alg!G!Release(given) = core
  <2>1. 6 # 0 /\ 6 - 1 = 5
    OBVIOUS
  <2>2. Alg!G!Release(given) = SubSeq(given, 1, 5)
    BY <1>10, <2>1, Zenon DEF Alg!G!Release
  <2> QED
    BY <1>5, <2>2, Zenon
<1>12. Alg!G!Preview(given) = IF m = 2 THEN k ELSE 0
  <2>1. Alg!G!Preview(given) = IF 7 \in DOMAIN given /\ given[7][1] = "number" THEN given[7][2] ELSE 0
    BY <1>10 DEF Alg!G!Preview
  <2>2. 7 \in DOMAIN given <=> m = 2
    BY <1>6, <1>8
  <2> QED
    BY <1>1, <1>7, <2>1, <2>2
<1>13. m = 2 => suffix[2][2] = k
  BY <1>1, <1>4 DEF m
<1> QED
  BY <1>9, <1>10, <1>11, <1>12, <1>13, Zenon DEF core, m

\* The package names its release, whatever the name is.
THEOREM ReleaseNamed ==
    ASSUME NEW T, NEW given \in Seq(T), NEW opens \in BOOLEAN, NEW closes \in BOOLEAN
    PROVE  Alg!G!NamesItsRelease(given, opens, closes)
<1> DEFINE r        == Alg!G!Main(<<"package.xml", given>>, opens, closes)
           kept     == Alg!G!Kept(given)
           rev      == Alg!G!Revision(Alg!G!Release(kept))
           V        == {t[2] : t \in Alg!G!ToSet(given)}
<1>1. /\ rev = << >> \/ ~opens => r.status = 1 /\ r.file = "old"
      /\ rev # << >> /\ opens /\ ~closes => r.status = 1 /\ r.file = "cut"
      /\ rev # << >> /\ opens /\ closes =>
           /\ r.status = 0 /\ r.file = "whole" /\ r.path = rev
           /\ r.revision = IF Alg!G!Suffix(kept) = 0 THEN rev ELSE Append(rev, Alg!G!Preview(kept))
           /\ r.license = IF Alg!G!Suffix(kept) = 0 THEN "android-sdk-license" ELSE "android-sdk-preview-license"
  BY PackageIs, Zenon
<1> HIDE DEF r, kept, rev, V
<1>2. (r.status = 0 <=> r.file = "whole") /\ (r.file = "cut" => ~closes)
  BY <1>1
<1>3. \A n \in [1..3 -> V] : n # << >>
  BY SMTT(30)
<1>4. ASSUME Len(given) <= 7, NEW n \in [1..3 -> V], given = Numbered(n) \o << >>, opens, closes
      PROVE  r.path = n /\ r.revision = n /\ r.license = "android-sdk-license"
  <2>1. Numbered(n) \o << >> = Numbered(n)
    BY NumberedIs, ConcatEmptySeq, Zenon
  <2>2. given = Numbered(n)
    BY <1>4, <2>1, Zenon
  <2>3. kept = given
    BY <1>4, KeptWhole, Zenon DEF kept
  <2>4. Alg!G!Suffix(kept) = 0
    <3>1. DOMAIN given = 1..5
      BY <2>2 DEF Numbered
    <3>2. \A i \in DOMAIN given : Plain(given, i)
      BY <2>2, <3>1, NumberedIs, Zenon
    <3> QED
      BY <2>3, <3>2, NoSuffix, Zenon
  <2>5. rev = n
    <3>1. Alg!G!Release(kept) = kept
      BY <2>4, Zenon DEF Alg!G!Release
    <3> QED
      BY <2>2, <2>3, <3>1, NumberedIs, Zenon DEF rev
  <2> QED
    BY <1>1, <1>3, <1>4, <2>4, <2>5, Zenon
<1>5. ASSUME NEW n \in [1..3 -> V], NEW kind \in {Beta, Rc}, NEW k, NEW suffix,
             Suffixed(given, n, kind, k, suffix), opens, closes
      PROVE  /\ r.path = n /\ r.license = "android-sdk-preview-license"
             /\ r.revision = Append(n, IF Len(suffix) = 2 THEN suffix[2][2] ELSE 0)
  <2>2. /\ Alg!G!Kept(given) = given /\ Alg!G!Suffix(given) = 6 /\ Alg!G!Release(given) = Numbered(n)
        /\ Alg!G!Preview(given) = IF Len(suffix) = 2 THEN suffix[2][2] ELSE 0
    BY <1>5, SuffixRead, Zenon
  <2>3. kept = given
    BY <2>2, Zenon DEF kept
  <2>4. rev = n
    <3>1. Alg!G!Release(kept) = Numbered(n)
      BY <2>2, <2>3, Zenon
    <3> QED
      BY <3>1, NumberedIs, Zenon DEF rev
  <2>5. Alg!G!Suffix(kept) # 0
    <3>1. Alg!G!Suffix(kept) = 6
      BY <2>2, <2>3, Zenon
    <3> QED
      BY <3>1
  <2>6. /\ r.path = n /\ r.license = "android-sdk-preview-license"
        /\ r.revision = Append(n, Alg!G!Preview(kept))
    BY <1>1, <1>3, <1>5, <2>4, <2>5, Zenon
  <2>7. Alg!G!Preview(kept) = IF Len(suffix) = 2 THEN suffix[2][2] ELSE 0
    BY <2>2, <2>3, Zenon
  <2> QED
    BY <2>6, <2>7, Zenon
<1> DEFINE Named(n, suffix) == [i \in 1..5 |-> IF i % 2 = 1 THEN <<"number", n[(i + 1) \div 2]>> ELSE <<".", 0>>] \o suffix
<1>6. \A n, suffix : Named(n, suffix) = Numbered(n) \o suffix
  BY Zenon DEF Numbered, Dot
<1> HIDE DEF Named
<1>7. ASSUME Len(given) <= 7, NEW n \in [1..3 -> V]
      PROVE  given = Named(n, << >>) /\ opens /\ closes =>
                  r.path = n /\ r.revision = n /\ r.license = "android-sdk-license"
  <2>1. Named(n, << >>) = Numbered(n) \o << >>
    BY <1>6, Zenon
  <2> QED
    BY <1>4, <1>7, <2>1, Zenon
<1>8. ASSUME NEW n \in [1..3 -> V], NEW kind \in {Beta, Rc}, NEW k, NEW suffix,
             suffix = <<<<kind, 0>>>> \/ suffix = <<<<kind, 0>>, <<"number", k>>>>
      PROVE  given = Named(n, suffix) /\ opens /\ closes =>
                  /\ r.path = n /\ r.license = "android-sdk-preview-license"
                  /\ r.revision = Append(n, IF Len(suffix) = 2 THEN suffix[2][2] ELSE 0)
  <2>1. Named(n, suffix) = Numbered(n) \o suffix
    BY <1>6, Zenon
  <2>2. given = Named(n, suffix) => Suffixed(given, n, kind, k, suffix)
    BY <1>8, <2>1, Zenon DEF Suffixed
  <2> QED
    BY <1>5, <2>2, Zenon
<1>9. (r.status = 0) = (r.file = "whole")
  BY <1>2, Zenon
<1>10. Len(given) <= 7 => \A n \in [1..3 -> V] :
         /\ given = Named(n, << >>) /\ opens /\ closes =>
              r.path = n /\ r.revision = n /\ r.license = "android-sdk-license"
         /\ \A kind \in {Beta, Rc}, k \in 0..9 : \A suffix \in {<<<<kind, 0>>>>, <<<<kind, 0>>, <<"number", k>>>>} :
              given = Named(n, suffix) /\ opens /\ closes =>
                /\ r.path = n /\ r.license = "android-sdk-preview-license"
                /\ r.revision = Append(n, IF Len(suffix) = 2 THEN suffix[2][2] ELSE 0)
  BY <1>7, <1>8, Zenon
<1> QED
  BY <1>2, <1>9, <1>10, Zenon DEF Alg!G!NamesItsRelease, r, V, Named, Beta, Rc

\* An element says what it was given.
LEMMA ElementIs ==
    \A given, prefix, says : /\ Alg!G!Element(given, prefix, says).name = given
                            /\ Alg!G!Element(given, prefix, says).prefix = prefix
                            /\ Alg!G!Element(given, prefix, says).says = says
  BY DEF Alg!G!Element

\* Where the names of a document differ, each says one thing.
LEMMA EachSays ==
    ASSUME NEW d, DOMAIN d = 1..8, \A i, j \in 1..8 : d[i].name = d[j].name => i = j
    PROVE  \A i \in 1..8 : Alg!G!Says(d, d[i].name) = {d[i].says}
<1> TAKE i \in 1..8
<1>1. {j \in DOMAIN d : d[j].name = d[i].name} = {i}
  OBVIOUS
<1> QED
  BY <1>1 DEF Alg!G!Says

THEOREM WholeDocument == ASSUME NEW given PROVE Alg!G!DocumentAgrees(given)
<1> DEFINE kept    == Alg!G!Kept(given)
           rev     == Alg!G!Revision(Alg!G!Release(kept))
           d       == Alg!G!Main(<<"package.xml", given>>, TRUE, TRUE).document
           preview == Alg!G!Suffix(kept) # 0
           license == IF preview THEN "android-sdk-preview-license" ELSE "android-sdk-license"
           text    == IF preview THEN Alg!G!LicensePreview ELSE Alg!G!LicenseStable
           full    == IF preview THEN Append(rev, Alg!G!Preview(kept)) ELSE rev
<1>1. d = << >> \/ (rev # << >> /\ d = Alg!G!Document(kept, rev))
  <2>1. TRUE \in BOOLEAN
    OBVIOUS
  <2> QED
    BY <2>1, PackageIs, Zenon
<1> HIDE DEF kept, d
<1> SUFFICES ASSUME d # << >>
             PROVE  /\ Alg!G!Says(d, "uses-license") = Alg!G!Says(d, "license") /\ Alg!G!Says(d, "display-name") = Alg!G!Says(d, "path")
                    /\ (Alg!G!Says(d, "text") = {Alg!G!LicensePreview}) = (Alg!G!Says(d, "license") = {"android-sdk-preview-license"})
                    /\ (Alg!G!Says(d, "revision") = Alg!G!Says(d, "path")) = (Alg!G!Says(d, "text") = {Alg!G!LicenseStable})
                    /\ \A i \in DOMAIN d : d[i].prefix \in {""} \cup UNION Alg!G!Says(d, "repository")
  BY Zenon DEF Alg!G!DocumentAgrees, d
<1>2. d = << Alg!G!Element("repository", "ns2", Alg!G!NsHeader), Alg!G!Element("license", NoPrefix, license),
             Alg!G!Element("text", NoPrefix, text), Alg!G!Element("path", NoPrefix, rev),
             Alg!G!Element("type", "ns5", "genericDetailsType"), Alg!G!Element("revision", NoPrefix, full),
             Alg!G!Element("display-name", NoPrefix, rev), Alg!G!Element("uses-license", NoPrefix, license) >>
  BY <1>1, Zenon DEF Alg!G!Document, NoPrefix
<1> HIDE DEF license, text, full, preview, rev
<1>3. /\ DOMAIN d = 1..8
      /\ d[1] = Alg!G!Element("repository", "ns2", Alg!G!NsHeader) /\ d[2] = Alg!G!Element("license", NoPrefix, license)
      /\ d[3] = Alg!G!Element("text", NoPrefix, text) /\ d[4] = Alg!G!Element("path", NoPrefix, rev)
      /\ d[5] = Alg!G!Element("type", "ns5", "genericDetailsType") /\ d[6] = Alg!G!Element("revision", NoPrefix, full)
      /\ d[7] = Alg!G!Element("display-name", NoPrefix, rev) /\ d[8] = Alg!G!Element("uses-license", NoPrefix, license)
  BY <1>2
<1>4. /\ d[1].name = "repository" /\ d[2].name = "license" /\ d[3].name = "text" /\ d[4].name = "path"
      /\ d[5].name = "type" /\ d[6].name = "revision" /\ d[7].name = "display-name" /\ d[8].name = "uses-license"
      /\ d[1].says = Alg!G!NsHeader /\ d[2].says = license /\ d[3].says = text /\ d[4].says = rev
      /\ d[6].says = full /\ d[7].says = rev /\ d[8].says = license
      /\ d[1].prefix = "ns2" /\ d[2].prefix = NoPrefix /\ d[3].prefix = NoPrefix /\ d[4].prefix = NoPrefix
      /\ d[5].prefix = "ns5" /\ d[6].prefix = NoPrefix /\ d[7].prefix = NoPrefix /\ d[8].prefix = NoPrefix
  BY <1>3, ElementIs
<1>5. \A i \in 1..8 : Alg!G!Says(d, d[i].name) = {d[i].says}
  <2>1. \A i, j \in 1..8 : d[i].name = d[j].name => i = j
    BY <1>4
  <2> QED
    BY <1>3, <2>1, EachSays, Zenon
<1>6. /\ Alg!G!Says(d, "repository") = {Alg!G!NsHeader} /\ Alg!G!Says(d, "license") = {license}
      /\ Alg!G!Says(d, "text") = {text} /\ Alg!G!Says(d, "path") = {rev} /\ Alg!G!Says(d, "revision") = {full}
      /\ Alg!G!Says(d, "display-name") = {rev} /\ Alg!G!Says(d, "uses-license") = {license}
  <2>1. 1 \in 1..8 /\ 2 \in 1..8 /\ 3 \in 1..8 /\ 4 \in 1..8 /\ 6 \in 1..8 /\ 7 \in 1..8 /\ 8 \in 1..8
    OBVIOUS
  <2>2. /\ Alg!G!Says(d, d[1].name) = {d[1].says} /\ Alg!G!Says(d, d[2].name) = {d[2].says} /\ Alg!G!Says(d, d[3].name) = {d[3].says}
        /\ Alg!G!Says(d, d[4].name) = {d[4].says} /\ Alg!G!Says(d, d[6].name) = {d[6].says} /\ Alg!G!Says(d, d[7].name) = {d[7].says}
        /\ Alg!G!Says(d, d[8].name) = {d[8].says}
    BY <1>5, <2>1, Zenon
  <2> QED
    BY <1>4, <2>2, Zenon
<1>7. text = Alg!G!LicensePreview <=> license = "android-sdk-preview-license"
  <2>1. Alg!G!LicensePreview # Alg!G!LicenseStable
    BY Zenon DEF Alg!G!LicensePreview, Alg!G!LicenseStable
  <2> QED
    BY <2>1 DEF text, license
<1>8. full = rev <=> text = Alg!G!LicenseStable
  <2>1. Alg!G!LicensePreview # Alg!G!LicenseStable
    BY Zenon DEF Alg!G!LicensePreview, Alg!G!LicenseStable
  <2>2. PICK a, b, c : rev = <<a, b, c>>
    <3>1. rev # << >>
      BY <1>1
    <3> QED
      BY <3>1, Zenon DEF rev, Alg!G!Revision
  <2>3. \A p : Append(<<a, b, c>>, p) # <<a, b, c>>
    OBVIOUS
  <2> QED
    BY <2>1, <2>2, <2>3, Zenon DEF full, text
<1>9. \A i \in DOMAIN d : d[i].prefix \in {NoPrefix} \cup UNION {Alg!G!NsHeader}
  <2>1. "ns2" \in Alg!G!NsHeader /\ "ns5" \in Alg!G!NsHeader
    BY DEF Alg!G!NsHeader
  <2>2. \A i \in 1..8 : d[i].prefix \in {NoPrefix, "ns2", "ns5"}
    BY <1>4
  <2> QED
    BY <1>3, <2>1, <2>2, Zenon
<1>10. \A x, y : {x} = {y} <=> x = y
  OBVIOUS
<1>11. ({text} = {Alg!G!LicensePreview}) = ({license} = {"android-sdk-preview-license"})
  BY <1>7, <1>10, ZenonT(40)
<1>12. ({full} = {rev}) = ({text} = {Alg!G!LicenseStable})
  BY <1>8, <1>10, Zenon
<1>13. \A i \in DOMAIN d : d[i].prefix \in {""} \cup UNION {Alg!G!NsHeader}
  BY <1>9, Zenon DEF NoPrefix
<1> QED
  BY <1>6, <1>11, <1>12, <1>13, Zenon

\* The generator is given a name of any tokens and any length.
NameInput == input[1] = "name" => (\E T : input[2][1] \in Seq(T)) /\ input[2][2] \in BOOLEAN /\ input[2][3] \in BOOLEAN

\* NdkPackage: for every name the package says its release, or there is none,
\* and a whole document agrees with itself.
THEOREM ReleaseAlwaysNamed == NameInput => NamesItsRelease
<1> SUFFICES ASSUME NameInput PROVE NamesItsRelease
  OBVIOUS
<1>1. ASSUME input[1] = "name" PROVE Alg!G!NamesItsRelease(input[2][1], input[2][2], input[2][3])
  BY <1>1, ReleaseNamed DEF NameInput
<1>2. Alg!G!DocumentAgrees(input[2][1])
  BY WholeDocument
<1> QED
  BY <1>1, <1>2 DEF NamesItsRelease, Alg!NamesItsRelease, Alg!OnIn

-----------------------------------------------------------------------------
(* The run *)

\* What holds of every behaviour of Parts holds of the system that the run
\* checks, where the choice of a function is a step that the parts do not see.
THEOREM CheckedIsParts == Checked => Parts
<1>1. CheckedInit => Starts
  BY DEF CheckedInit
<1>2. [CheckedNext]_<<allVars, input>> => [OnePart]_allVars
  BY DEF CheckedNext
<1> QED
  BY <1>1, <1>2, PTL DEF Checked, Parts

\* A function of none of the three modules puts nothing of theirs in, and none
\* of the three anything of the others.
LEMMA OthersChosen ==
    ASSUME \/ Alg!ChooseTarget \/ Alg!ChooseFile \/ Alg!ChooseMask \/ Alg!ChooseEntries \/ Alg!ChooseStrings
           \/ Alg!ChooseLines \/ Alg!ChooseOption \/ Alg!ChooseText \/ Alg!ChooseStore
           \/ Alg!ChooseRange \/ Alg!ChooseCalls \/ Alg!ChooseSorts \/ Alg!ChooseNumber \/ Alg!ChooseHost
           \/ Alg!ChooseRequest \/ Alg!ChooseLibc
    PROVE  input'[1] \notin {"versions", "find", "update", "ca", "url", "curl", "name"}
<1> DEFINE Other == input'[1] \notin {"versions", "find", "update", "ca", "url", "curl", "name"}
<1>1. \A alg, x : Alg!Chosen(alg, x) => input'[1] = alg
  BY DEF Alg!Chosen
<1>2. \A alg : alg \notin {"versions", "find", "update", "ca", "url", "curl", "name"} => \A x : Alg!Chosen(alg, x) => Other
  BY <1>1
<1> HIDE DEF Other
<1>3. Alg!ChooseTarget => Other
  BY <1>2 DEF Alg!ChooseTarget
<1>4. Alg!ChooseFile \/ Alg!ChooseMask \/ Alg!ChooseEntries \/ Alg!ChooseStrings \/ Alg!ChooseLines => Other
  BY <1>2 DEF Alg!ChooseFile, Alg!ChooseMask, Alg!ChooseEntries, Alg!ChooseStrings, Alg!ChooseLines
<1>5. Alg!ChooseOption \/ Alg!ChooseText \/ Alg!ChooseStore => Other
  BY <1>2 DEF Alg!ChooseOption, Alg!ChooseText, Alg!ChooseStore
<1>6. Alg!ChooseRange \/ Alg!ChooseCalls \/ Alg!ChooseSorts => Other
  BY <1>2, Zenon DEF Alg!ChooseRange, Alg!ChooseCalls, Alg!ChooseSorts
<1>7. Alg!ChooseNumber \/ Alg!ChooseHost \/ Alg!ChooseRequest \/ Alg!ChooseLibc => Other
  BY <1>2, Zenon DEF Alg!ChooseNumber, Alg!ChooseHost, Alg!ChooseRequest, Alg!ChooseLibc
<1> QED
  BY <1>3, <1>4, <1>5, <1>6, <1>7 DEF Other

LEMMA TheirsChosen ==
    /\ Alg!ChooseVersions \/ Alg!ChooseFind \/ Alg!ChooseUpdate => input'[1] \in {"versions", "find", "update"}
    /\ Alg!ChooseCA \/ Alg!ChooseNetrc \/ Alg!ChooseCurl => input'[1] \in {"ca", "netrc", "url", "curl", "tls"}
    /\ Alg!ChooseName => input'[1] = "name"
<1>1. \A alg, x : Alg!Chosen(alg, x) => input'[1] = alg
  BY DEF Alg!Chosen
<1>2. Alg!ChooseVersions \/ Alg!ChooseFind \/ Alg!ChooseUpdate => input'[1] \in {"versions", "find", "update"}
  BY <1>1, Zenon DEF Alg!ChooseVersions, Alg!ChooseFind, Alg!ChooseUpdate
<1>3. Alg!ChooseCA \/ Alg!ChooseNetrc => input'[1] \in {"ca", "netrc"}
  BY <1>1, Zenon DEF Alg!ChooseCA, Alg!ChooseNetrc
<1>4. Alg!ChooseCurl => input'[1] \in {"url", "curl", "tls"}
  BY <1>1, Zenon DEF Alg!ChooseCurl
<1>5. Alg!ChooseName => input'[1] = "name"
  BY <1>1, Zenon DEF Alg!ChooseName
<1> QED
  BY <1>2, <1>3, <1>4, <1>5

\* The parts of versions that are chosen.
ChosenParts == {<<1, "">>, <<2, "">>, <<2, "-rc1">>}

LEMMA PartsNumbered == \A s \in ChosenParts : s[1] \in Nat
<1>1. \A x : <<1, x>>[1] \in Nat /\ <<2, x>>[1] \in Nat
  OBVIOUS
<1> QED
  BY <1>1, Zenon DEF ChosenParts

LEMMA VersionsChosen == \A k \in Nat : \A v \in [1..k -> ChosenParts] : IsVersion(v)
<1> SUFFICES ASSUME NEW k \in Nat, NEW v \in [1..k -> ChosenParts] PROVE IsVersion(v)
  OBVIOUS
<1>1. DOMAIN v = 1..k /\ \A i \in 1..k : v[i][1] \in Nat
  BY PartsNumbered
<1>2. Alg!C!SplitVer(v) \in [1..k -> Nat]
  BY <1>1 DEF Alg!C!SplitVer
<1> QED
  BY <1>2 DEF IsVersion

LEMMA PackagesFit ==
    ASSUME NEW paths, NEW p \in Alg!Packages(paths)
    PROVE  IsVersion(p.version) /\ p.host = <<p.host[1], p.host[2]>>
<1>1. p.version \in {<<<<1, "">>>>, <<<<2, "">>>>, <<<<1, "">>, <<1, "">>>>}
  BY DEF Alg!Packages
<1>2. p.version \in [1..1 -> ChosenParts] \/ p.version \in [1..2 -> ChosenParts]
  <2>1. <<1, "">> \in ChosenParts /\ <<2, "">> \in ChosenParts
    BY Zenon DEF ChosenParts
  <2>2. \A s, t \in ChosenParts : <<s>> \in [1..1 -> ChosenParts] /\ <<s, t>> \in [1..2 -> ChosenParts]
    OBVIOUS
  <2> QED
    BY <1>1, <2>1, <2>2, Zenon
<1>3. IsVersion(p.version)
  BY <1>2, VersionsChosen, Zenon
<1>4. p.host \in {<<"linux", "arm64">>, <<"linux", "arm">>, <<"windows", "x64">>}
  BY DEF Alg!Packages
<1> QED
  BY <1>3, <1>4

LEMMA CatalogsChosen ==
    ASSUME NEW paths, NEW n \in Nat, NEW packages \in Alg!UpTo(Alg!Packages(paths), n)
    PROVE  IsCatalog(packages)
<1>1. PICK k \in 0..n : packages \in [1..k -> Alg!Packages(paths)]
  BY DEF Alg!UpTo
<1>2. DOMAIN packages = 1..k /\ \A i \in 1..k : packages[i] \in Alg!Packages(paths)
  BY <1>1
<1>3. 1..k \in SUBSET Nat
  OBVIOUS
<1> QED
  BY <1>2, <1>3, PackagesFit, Zenon DEF IsCatalog

\* The versions of the manifest are those of packages.
LEMMA InstalledChosen ==
    ASSUME NEW installed \in Alg!Installed, NEW i \in DOMAIN installed
    PROVE  IsVersion(installed[i].version)
<1>1. PICK k \in 0..2 : installed \in [1..k -> Alg!Entered]
  BY DEF Alg!Installed, Alg!UpTo
<1>2. installed[i] \in Alg!Entered
  BY <1>1
<1>3. installed[i].version \in {p.version : p \in Alg!Packages({"p"})}
  BY <1>2 DEF Alg!Entered
<1> QED
  BY <1>3, PackagesFit

\* Every reachable choice satisfies the theorem above: the invariant of the run.
LEMMA CatalogChosen == CatalogInput /\ Alg!Choose => CatalogInput'
<1> SUFFICES ASSUME Alg!Choose PROVE CatalogInput'
  OBVIOUS
<1>1. CASE Alg!ChooseVersions
  <2>1. PICK a, b, c \in Alg!Versions : input' = <<"versions", <<a, b, c>>>>
    BY <1>1 DEF Alg!ChooseVersions, Alg!Chosen
  <2>2. \A v \in Alg!Versions : IsVersion(v)
    <3>1. Alg!Versions = UNION {[1..k -> ChosenParts] : k \in 0..2}
      BY Zenon DEF Alg!Versions, Alg!UpTo, ChosenParts
    <3>2. \A k \in 0..2 : k \in Nat
      OBVIOUS
    <3> QED
      BY <3>1, <3>2, VersionsChosen, Zenon
  <2>3. IsVersion(a) /\ IsVersion(b) /\ IsVersion(c)
    BY <2>2
  <2>4. input'[1] = "versions" /\ input'[2][1] = a /\ input'[2][2] = b /\ input'[2][3] = c
    BY <2>1
  <2>5. (IsVersion(input[2][1]) /\ IsVersion(input[2][2]) /\ IsVersion(input[2][3]))'
    BY <2>3, <2>4 DEF IsVersion, Alg!C!SplitVer
  <2> QED
    BY <2>4, <2>5 DEF CatalogInput
<1>2. CASE Alg!ChooseFind
  <2>1. PICK packages \in Alg!UpTo(Alg!Packages({"p"}), 3) :
          \E goos, goarch : input' = <<"find", <<packages, goos, goarch>>>>
    BY <1>2, Zenon DEF Alg!ChooseFind, Alg!Chosen
  <2>2. input'[1] = "find" /\ input'[2][1] = packages
    BY <2>1
  <2>3. IsCatalog(packages)
    BY CatalogsChosen
  <2>4. IsCatalog(input[2][1])'
    BY <2>2, <2>3 DEF IsCatalog, IsVersion, Alg!C!SplitVer
  <2> QED
    BY <2>2, <2>4 DEF CatalogInput
<1>3. CASE Alg!ChooseUpdate
  <2>1. PICK packages \in Alg!UpTo(Alg!Packages({"p", "q"}), 2), installed \in Alg!Installed :
          input' = <<"update", <<packages, installed>>>>
    BY <1>3, Zenon DEF Alg!ChooseUpdate, Alg!Chosen
  <2>2. input'[1] = "update" /\ input'[2][1] = packages /\ input'[2][2] = installed
    BY <2>1
  <2>3. IsCatalog(packages)
    BY CatalogsChosen
  <2>4. \A i \in DOMAIN installed : IsVersion(installed[i].version)
    BY InstalledChosen
  <2>5. IsCatalog(input[2][1])'
    BY <2>2, <2>3 DEF IsCatalog, IsVersion, Alg!C!SplitVer
  <2>6. (\A i \in DOMAIN input[2][2] : IsVersion(input[2][2][i].version))'
    BY <2>2, <2>4 DEF IsVersion, Alg!C!SplitVer
  <2> QED
    BY <2>2, <2>5, <2>6 DEF CatalogInput
<1>4. ASSUME input'[1] \notin {"versions", "find", "update"} PROVE CatalogInput'
  BY <1>4 DEF CatalogInput
<1> QED
  BY <1>1, <1>2, <1>3, <1>4, OthersChosen, TheirsChosen DEF Alg!Choose

\* Catalog: what the run checks, of every choice that it makes.
THEOREM CheckedCatalogAnswers == Checked => []CatalogAnswers
<1>1. CheckedInit => CatalogInput
  BY DEF CheckedInit, Alg!Start, CatalogInput
<1>2. CatalogInput /\ [CheckedNext]_<<allVars, input>> => CatalogInput'
  <2>1. CatalogInput /\ UNCHANGED input => CatalogInput'
    BY Zenon DEF CatalogInput, IsCatalog, IsVersion, Alg!C!SplitVer
  <2> QED
    BY <2>1, CatalogChosen DEF CheckedNext
<1> QED
  BY <1>1, <1>2, CatalogAlwaysAnswers, PTL DEF Checked

\* Every reachable choice for CmCurl satisfies the theorem of it.
LEMMA CurlChosen == CurlInput /\ Alg!Choose => CurlInput'
<1> SUFFICES ASSUME Alg!Choose PROVE CurlInput'
  OBVIOUS
<1>1. \A n \in 0..4 : n \in Nat
  OBVIOUS
<1>2. CASE Alg!ChooseCA
  <2>1. PICK find \in BOOLEAN : \E cafile, env, answers : input' = <<"ca", <<cafile, env, find, answers>>>>
    BY <1>2, Zenon DEF Alg!ChooseCA, Alg!Chosen
  <2>2. input'[1] = "ca" /\ input'[2][3] = find
    BY <2>1
  <2> QED
    BY <2>2 DEF CurlInput
<1>3. CASE Alg!ChooseCurl
  <2>1. CASE \E of \in BOOLEAN, windows \in BOOLEAN, p \in Alg!UpTo({"a", " ", "z"}, 4), lost \in SUBSET {"a", "z"} :
               Alg!Chosen("url", <<[file |-> of, path |-> p], windows, lost>>)
    <3>1. PICK of \in BOOLEAN, windows \in BOOLEAN, p \in Alg!UpTo({"a", " ", "z"}, 4), lost \in SUBSET {"a", "z"} :
                 input' = <<"url", <<[file |-> of, path |-> p], windows, lost>>>>
      BY <2>1, Zenon DEF Alg!Chosen
    <3> DEFINE Chars == {"%", "2", "0", "?"} \cup {"a", " ", "z"}
    <3>2. \E n \in Nat : p \in [1..n -> Chars]
      <4>1. \A Some : Some \subseteq Chars => \A n \in Nat : \A q \in [1..n -> Some] : q \in [1..n -> Chars]
        <5> HIDE DEF Chars
        <5> QED
          OBVIOUS
      <4>2. {"a", " ", "z"} \subseteq Chars
        BY Zenon
      <4>3. PICK n \in 0..4 : p \in [1..n -> {"a", " ", "z"}]
        BY <3>1, Zenon DEF Alg!UpTo
      <4> QED
        BY <1>1, <4>1, <4>2, <4>3, Zenon
    <3>3. {"%", "2", "0", "?"} \subseteq Chars
      BY Zenon
    <3>4. KeepsAscii(lost)
      BY <3>1 DEF KeepsAscii
    <3> HIDE DEF Chars
    <3>5. /\ input'[1] = "url" /\ input'[2][1] = [file |-> of, path |-> p]
          /\ input'[2][2] = windows /\ input'[2][3] = lost
      BY <3>1
    <3>6. IsURL([file |-> of, path |-> p], Chars)
      BY <3>1, <3>2 DEF IsURL
    <3> QED
      BY <3>1, <3>3, <3>4, <3>5, <3>6 DEF CurlInput, IsURL, KeepsAscii
  <2>2. CASE \E v \in Alg!CurlVersions, backend \in {"", "mine"}, systemMac \in BOOLEAN :
               Alg!Chosen("curl", <<v, backend, systemMac>>)
    <3>1. PICK v \in Alg!CurlVersions, systemMac \in BOOLEAN : \E backend : input' = <<"curl", <<v, backend, systemMac>>>>
      BY <2>2, Zenon DEF Alg!Chosen
    <3>2. IsCurlVersion(v)
      BY <3>1 DEF Alg!CurlVersions, IsCurlVersion, IsByte
    <3>3. input'[1] = "curl" /\ input'[2][1] = v /\ input'[2][3] = systemMac
      BY <3>1
    <3> QED
      BY <3>1, <3>2, <3>3 DEF CurlInput, IsCurlVersion, IsByte
  <2>3. CASE \E a, b \in {"1.0", "1.1", "1.2", "1.3", "1.4"}, result \in Alg!CurlAnswers :
               Alg!Chosen("tls", <<a, b, result>>)
    <3>1. \A x : Alg!Chosen("tls", x) => input'[1] = "tls"
      BY DEF Alg!Chosen
    <3>2. input'[1] = "tls"
      BY <2>3, <3>1, Zenon
    <3> QED
      BY <3>2 DEF CurlInput
  <2> QED
    BY <1>3, <2>1, <2>2, <2>3, Zenon DEF Alg!ChooseCurl
<1>4. CASE Alg!ChooseNetrc
  <2>1. \A x : Alg!Chosen("netrc", x) => input'[1] = "netrc"
    BY DEF Alg!Chosen
  <2>2. input'[1] = "netrc"
    BY <1>4, <2>1, Zenon DEF Alg!ChooseNetrc
  <2> QED
    BY <2>2 DEF CurlInput
<1>5. ASSUME input'[1] \notin {"ca", "url", "curl"} PROVE CurlInput'
  BY <1>5 DEF CurlInput
<1> QED
  BY <1>2, <1>3, <1>4, <1>5, OthersChosen, TheirsChosen DEF Alg!Choose

\* CmCurl: what the run checks, of every choice that it makes.
THEOREM CheckedCurlOptions == Checked => []CurlOptions
<1>1. CheckedInit => CurlInput
  BY DEF CheckedInit, Alg!Start, CurlInput
<1>2. CurlInput /\ [CheckedNext]_<<allVars, input>> => CurlInput'
  <2>1. CurlInput /\ UNCHANGED input => CurlInput'
    BY DEF CurlInput, IsURL, KeepsAscii, IsCurlVersion, IsByte
  <2> QED
    BY <2>1, CurlChosen DEF CheckedNext
<1> QED
  BY <1>1, <1>2, CurlAlwaysRight, PTL DEF Checked

\* Every reachable choice of a name is a sequence of tokens.
LEMMA NameChosen == NameInput /\ Alg!Choose => NameInput'
<1> SUFFICES ASSUME Alg!Choose PROVE NameInput'
  OBVIOUS
<1>1. CASE Alg!ChooseName
  <2> DEFINE Dots   == <<<<Dot, 0>>, <<"number", 2>>, <<Dot, 0>>>>
             Last   == <<<<"number", 0>>>>
             T      == Alg!Tokens \cup {<<Dot, 0>>, <<"number", 2>>, <<"number", 0>>}
  <2>1. PICK head \in Alg!UpTo(Alg!Tokens, 1), tail \in Alg!UpTo(Alg!Tokens, 2), opens \in BOOLEAN, closes \in BOOLEAN :
          \/ input' = <<"name", <<(head \o Dots) \o tail, opens, closes>>>>
          \/ input' = <<"name", <<((head \o Dots) \o Last) \o tail, opens, closes>>>>
    BY <1>1, Zenon DEF Alg!ChooseName, Alg!Chosen, Dot
  <2>2. <<Dot, 0>> \in T /\ <<"number", 2>> \in T /\ <<"number", 0>> \in T /\ Alg!Tokens \subseteq T
    BY Zenon
  <2> HIDE DEF T
  <2>3. \A x, y, z \in T : <<x, y, z>> \in Seq(T) /\ <<x>> \in Seq(T)
    OBVIOUS
  <2>4. Dots \in Seq(T) /\ Last \in Seq(T)
    BY <2>2, <2>3, Zenon
  <2>5. \A k \in Nat : \A s \in Alg!UpTo(Alg!Tokens, k) : s \in Seq(T)
    <3> SUFFICES ASSUME NEW k \in Nat, NEW s \in Alg!UpTo(Alg!Tokens, k) PROVE s \in Seq(T)
      OBVIOUS
    <3>1. PICK i \in 0..k : s \in [1..i -> Alg!Tokens]
      BY Zenon DEF Alg!UpTo
    <3>2. s \in [1..i -> T] /\ i \in Nat
      BY <2>2, <3>1
    <3> QED
      BY <3>2, SeqDef, Zenon
  <2>6. head \in Seq(T) /\ tail \in Seq(T)
    <3>1. 1 \in Nat /\ 2 \in Nat
      OBVIOUS
    <3> QED
      BY <2>1, <2>5, <3>1, Zenon
  <2> HIDE DEF Dots, Last
  <2>7. \A s, t \in Seq(T) : s \o t \in Seq(T)
    BY ConcatProperties
  <2>8. (head \o Dots) \o tail \in Seq(T) /\ ((head \o Dots) \o Last) \o tail \in Seq(T)
    BY <2>4, <2>6, <2>7, Zenon
  <2>9. PICK s \in Seq(T) : input' = <<"name", <<s, opens, closes>>>>
    BY <2>1, <2>8, Zenon
  <2>10. input'[2][1] = s /\ input'[2][2] = opens /\ input'[2][3] = closes
    BY <2>9
  <2> QED
    BY <2>10 DEF NameInput
<1>2. ASSUME input'[1] # "name" PROVE NameInput'
  BY <1>2 DEF NameInput
<1> QED
  BY <1>1, <1>2, OthersChosen, TheirsChosen DEF Alg!Choose

\* NdkPackage: what the run checks, of every choice that it makes.
THEOREM CheckedNamesItsRelease == Checked => []NamesItsRelease
<1>1. CheckedInit => NameInput
  BY DEF CheckedInit, Alg!Start, NameInput
<1>2. NameInput /\ [CheckedNext]_<<allVars, input>> => NameInput'
  <2>1. NameInput /\ UNCHANGED input => NameInput'
    BY DEF NameInput
  <2> QED
    BY <2>1, NameChosen DEF CheckedNext
<1> QED
  BY <1>1, <1>2, ReleaseAlwaysNamed, PTL DEF Checked
=============================================================================
