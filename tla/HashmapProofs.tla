--------------------------- MODULE HashmapProofs ----------------------------
(***************************************************************************)
(* What TLAPS proves of Hashmap as KeyStore uses it, for all keys, hashes, *)
(* capacities and descriptors: what each loop computes, and what each call *)
(* does to the entries. The loops are recursive functions; they are        *)
(* reasoned about through the states they pass (IsTrace, IsResize,         *)
(* IsShift).                                                               *)
(***************************************************************************)
EXTENDS KeyStore, TLAPS, FiniteSetTheorems, WellFoundedInduction

-----------------------------------------------------------------------------
(* Induction and recursion over numbers                                    *)

(* A set of numbers has a least one. (Every induction here is this fact    *)
(* about a set: the induction theorems of the library take an operator.)   *)
LEMMA LeastNumber ==
    ASSUME NEW T \in SUBSET Nat, T # {}
    PROVE  \E x \in T : \A y \in T : x <= y
  <1> DEFINE R == {ss \in Nat \X Nat : ss[1] < ss[2]}
  <1>1. IsWellFoundedOn(R, Nat)
    BY NatLessThanWellFounded DEF OpToRel
  <1>2. \A x, y \in Nat : <<y, x>> \in R <=> y < x  OBVIOUS
  <1> HIDE DEF R
  <1>3. PICK x \in T : \A y \in T : ~(<<y, x>> \in R)
    BY <1>1, WFMin
  <1>4. ASSUME NEW y \in T PROVE x <= y
    <2>1. ~(y < x)  BY <1>2, <1>3
    <2>2. QED  BY <2>1
  <1>5. QED  BY <1>4

(* Induction up to N, over the set of numbers that have the property. *)
LEMMA Induction ==
    ASSUME NEW N \in Nat, NEW S, 0 \in S,
           \A m \in 0 .. (N - 1) : m \in S => m + 1 \in S
    PROVE  0 .. N \subseteq S
  <1> DEFINE T == {m \in 0 .. N : m \notin S}
  <1>1. SUFFICES ASSUME T # {} PROVE FALSE  OBVIOUS
  <1>t. T \in SUBSET Nat  OBVIOUS
  <1>2. PICK x \in T : \A y \in T : x <= y  BY <1>1, <1>t, LeastNumber
  <1>3. x - 1 \in 0 .. (N - 1) /\ x - 1 \notin T  BY <1>2
  <1>4. x - 1 \in S  BY <1>3
  <1>5. QED  BY <1>2, <1>3, <1>4

(* A recursion of N steps, the m-th of which is the function F[m], has a   *)
(* solution.                                                               *)
Solves(f, N, X, a, F) ==
    /\ f \in [0 .. N -> X] /\ f[0] = a
    /\ \A m \in 0 .. (N - 1) : f[m + 1] = F[m][f[m]]

(* It has one. *)
LEMMA Recursion ==
    ASSUME NEW N \in Nat, NEW X, NEW a \in X, NEW F \in [0 .. (N - 1) -> [X -> X]]
    PROVE  \E f : Solves(f, N, X, a, F)
  <1> DEFINE G(n) == {g \in [0 .. n -> X] :
                        g[0] = a /\ \A m \in 0 .. (n - 1) : g[m + 1] = F[m][g[m]]}
             S == {n \in 0 .. N : G(n) # {}}
  <1>1. 0 \in S
    <2>1. [i \in 0 .. 0 |-> a] \in G(0)  OBVIOUS
    <2>2. QED  BY <2>1
  <1>2. ASSUME NEW n \in 0 .. (N - 1), n \in S PROVE n + 1 \in S
    <2>1. PICK g \in G(n) : TRUE  BY <1>2
    <2> DEFINE h == [i \in 0 .. (n + 1) |-> IF i = n + 1 THEN F[n][g[n]] ELSE g[i]]
    <2>2. g \in [0 .. n -> X] /\ g[0] = a /\ \A m \in 0 .. (n - 1) : g[m + 1] = F[m][g[m]]
      BY <2>1
    <2>3. h \in [0 .. (n + 1) -> X]  BY <2>2
    <2>4. h[0] = a  BY <2>2
    <2>5. ASSUME NEW m \in 0 .. n PROVE h[m + 1] = F[m][h[m]]
      <3>1. CASE m = n  BY <3>1
      <3>2. CASE m < n
        <4>1. m \in 0 .. (n - 1) /\ m + 1 \in 0 .. (n + 1) /\ m + 1 # n + 1 /\ m # n + 1
          BY <3>2
        <4>2. h[m + 1] = g[m + 1] /\ h[m] = g[m]  BY <4>1
        <4>3. QED  BY <4>1, <4>2, <2>2
      <3>3. QED  BY <3>1, <3>2
    <2>6. h \in G(n + 1)  BY <2>3, <2>4, <2>5
    <2>7. n + 1 \in 0 .. N  OBVIOUS
    <2>8. QED  BY <2>6, <2>7
  <1> HIDE DEF S
  <1>3. \A n \in 0 .. (N - 1) : n \in S => n + 1 \in S  BY <1>2
  <1>4. 0 .. N \subseteq S  BY <1>1, <1>3, Induction
  <1>5. N \in S  BY <1>4
  <1>6. QED  BY <1>5 DEF S, Solves

-----------------------------------------------------------------------------
(* Remainders                                                              *)

(* Quotient and remainder. *)
LEMMA ModDef ==
    ASSUME NEW n \in Nat \ {0}, NEW a \in Int
    PROVE  a \div n \in Int /\ a % n \in 0 .. (n - 1) /\ a = (a \div n) * n + (a % n)
  OBVIOUS

(* There is no other. *)
LEMMA ModUnique ==
    ASSUME NEW n \in Nat \ {0}, NEW i \in Int, NEW b \in 0 .. (n - 1),
           NEW j \in Int, NEW c \in 0 .. (n - 1),
           i * n + b = j * n + c
    PROVE  i = j /\ b = c
  OBVIOUS

(* a % n is the only number below n that differs from a by a multiple of n. *)
LEMMA ModIs ==
    ASSUME NEW n \in Nat \ {0}, NEW q \in Int, NEW b \in 0 .. (n - 1)
    PROVE  (q * n + b) % n = b
  <1>0. q * n + b \in Int  OBVIOUS
  <1>1. PICK a \in Int : a = q * n + b  BY <1>0
  <1>2. PICK p \in Int : p = a \div n  BY ModDef
  <1>3. PICK c \in 0 .. (n - 1) : c = a % n  BY ModDef
  <1>4. p * n + c = q * n + b  BY <1>1, <1>2, <1>3, ModDef
  <1>5. b = c  BY <1>4, ModUnique
  <1>6. QED  BY <1>1, <1>3, <1>5

(* The same, to name both. *)
LEMMA ModForm ==
    ASSUME NEW n \in Nat \ {0}, NEW a \in Int
    PROVE  \E q \in Int : \E r \in 0 .. (n - 1) : a = q * n + r /\ a % n = r
  BY ModDef

(* Numbers with one remainder have one remainder when c is added. *)
LEMMA ModShift ==
    ASSUME NEW n \in Nat \ {0}, NEW a \in Int, NEW b \in Int, a % n = b % n, NEW c \in Int
    PROVE  (a + c) % n = (b + c) % n
  <1>1. PICK p \in Int, r \in 0 .. (n - 1) : a = p * n + r /\ a % n = r  BY ModForm
  <1>2. PICK q \in Int, t \in 0 .. (n - 1) : b = q * n + t /\ b % n = t  BY ModForm
  <1>3. r = t  BY <1>1, <1>2
  <1>4. r + c \in Int  OBVIOUS
  <1>5. PICK u \in Int, v \in 0 .. (n - 1) : r + c = u * n + v  BY <1>4, ModForm
  <1>6. a + c = (p + u) * n + v /\ b + c = (q + u) * n + v /\ p + u \in Int /\ q + u \in Int
    BY <1>1, <1>2, <1>3, <1>5
  <1>7. ((p + u) * n + v) % n = v /\ ((q + u) * n + v) % n = v  BY <1>6, ModIs
  <1>8. QED  BY <1>6, <1>7

(* A bucket is its own remainder. *)
LEMMA ModSmall ==
    ASSUME NEW n \in Nat \ {0}, NEW a \in 0 .. (n - 1)
    PROVE  a % n = a
  <1>1. 0 * n + a = a  OBVIOUS
  <1>2. QED  BY <1>1, ModIs

(* Once round the map leads back. *)
LEMMA ModWrap ==
    ASSUME NEW n \in Nat \ {0}, NEW a \in Int
    PROVE  (a + n) % n = a % n
  <1>1. PICK p \in Int : p = a \div n  BY ModDef
  <1>2. PICK r \in 0 .. (n - 1) : r = a % n  BY ModDef
  <1>3. a + n = (p + 1) * n + r /\ p + 1 \in Int  BY <1>1, <1>2, ModDef
  <1>4. ((p + 1) * n + r) % n = r  BY <1>3, ModIs
  <1>5. QED  BY <1>2, <1>3, <1>4

(* Every bucket i can be reached from a, in (i - a) % n steps. *)
LEMMA ModReach ==
    ASSUME NEW n \in Nat \ {0}, NEW a \in Int, NEW i \in 0 .. (n - 1)
    PROVE  (i - a) % n \in 0 .. (n - 1) /\ (a + ((i - a) % n)) % n = i
  <1>1. PICK p \in Int : p = (i - a) \div n  BY ModDef
  <1>2. PICK r \in 0 .. (n - 1) : r = (i - a) % n  BY ModDef
  <1>3. a + r = (-p) * n + i  BY <1>1, <1>2, ModDef
  <1>4. QED  BY <1>2, <1>3, ModIs

(* Less than n steps lead to different buckets. *)
LEMMA ModSame ==
    ASSUME NEW n \in Nat \ {0}, NEW a \in Int, NEW s \in Int, NEW t \in Int,
           (a + s) % n = (a + t) % n, s - t \in (1 - n) .. (n - 1)
    PROVE  s = t
  <1>0. a + s \in Int /\ a + t \in Int  OBVIOUS
  <1>1. PICK p \in Int, r \in 0 .. (n - 1) : a + s = p * n + r /\ (a + s) % n = r
    BY <1>0, ModForm
  <1>2. PICK q \in Int, u \in 0 .. (n - 1) : a + t = q * n + u /\ (a + t) % n = u
    BY <1>0, ModForm
  <1>4. a + s = p * n + r /\ a + t = q * n + r  BY <1>1, <1>2
  <1>d. p - q \in Int  OBVIOUS
  <1>5. PICK d \in Int : d = p - q  BY <1>d
  <1>6. s - t = d * n  BY <1>4, <1>5
  <1>7. ~(d >= 1)
    <2>1. SUFFICES ASSUME d >= 1 PROVE FALSE  OBVIOUS
    <2>2. d * n >= n  BY <2>1
    <2>3. QED  BY <2>2, <1>6
  <1>8. ~(d <= -1)
    <2>1. SUFFICES ASSUME d <= -1 PROVE FALSE  OBVIOUS
    <2>2. d * n <= -n  BY <2>1
    <2>3. QED  BY <2>2, <1>6
  <1>9. d = 0  BY <1>7, <1>8
  <1>10. QED  BY <1>9, <1>6

-----------------------------------------------------------------------------
(* How many buckets there are                                              *)

(* A recursion without end. *)
LEMMA EndlessRecursion ==
    ASSUME NEW X, NEW a \in X, NEW F \in [X -> X]
    PROVE  \E f \in [Nat -> X] : f[0] = a /\ \A m \in Nat : f[m + 1] = F[f[m]]
  <1> DEFINE G(n) == {g \in [0 .. n -> X] :
                        g[0] = a /\ \A m \in 0 .. (n - 1) : g[m + 1] = F[g[m]]}
             c == [n \in Nat |-> CHOOSE g \in G(n) : TRUE]
             f == [n \in Nat |-> c[n][n]]
  <1>0. ASSUME NEW n \in Nat PROVE G(n) # {}
    <2>1. PICK E \in [0 .. (n - 1) -> [X -> X]] : \A m \in 0 .. (n - 1) : E[m] = F
      <3>1. [m \in 0 .. (n - 1) |-> F] \in [0 .. (n - 1) -> [X -> X]]  OBVIOUS
      <3>2. QED  BY <3>1
    <2>2. PICK g : Solves(g, n, X, a, E)  BY <2>1, Recursion
    <2>3. g \in G(n)  BY <2>1, <2>2 DEF Solves
    <2>4. QED  BY <2>3
  <1>1. ASSUME NEW n \in Nat
        PROVE  /\ c[n] \in [0 .. n -> X] /\ c[n][0] = a
               /\ \A m \in 0 .. (n - 1) : c[n][m + 1] = F[c[n][m]]
    <2>1. c[n] \in G(n)  BY <1>0
    <2>2. QED  BY <2>1
  <1>f. \A n \in Nat : f[n] = c[n][n]  OBVIOUS
  <1>t. f = [n \in Nat |-> f[n]]  OBVIOUS
  <1> HIDE DEF c, f
  <1>2. ASSUME NEW n \in Nat PROVE c[n + 1][n] = c[n][n]
    <2> DEFINE S == {m \in 0 .. n : c[n + 1][m] = c[n][m]}
    <2>1. 0 \in S  BY <1>1
    <2>2. ASSUME NEW m \in 0 .. (n - 1), m \in S PROVE m + 1 \in S
      <3>1. m \in 0 .. ((n + 1) - 1) /\ m + 1 \in 0 .. n  OBVIOUS
      <3>2. c[n + 1][m + 1] = F[c[n + 1][m]] /\ c[n][m + 1] = F[c[n][m]]  BY <3>1, <1>1, SMTT(30)
      <3>3. QED  BY <3>1, <3>2, <2>2
    <2> HIDE DEF S
    <2>3. \A m \in 0 .. (n - 1) : m \in S => m + 1 \in S  BY <2>2
    <2>4. 0 .. n \subseteq S  BY <2>1, <2>3, Induction
    <2>5. QED  BY <2>4 DEF S
  <1>4. f \in [Nat -> X] /\ f[0] = a
    <2>1. \A n \in Nat : f[n] \in X  BY <1>1, <1>f
    <2>2. f[0] = a  BY <1>1, <1>f
    <2>3. QED  BY <2>1, <2>2, <1>t
  <1>5. ASSUME NEW n \in Nat PROVE f[n + 1] = F[f[n]]
    <2>1. c[n + 1][n + 1] = F[c[n + 1][n]]
      <3>1. n + 1 \in Nat /\ n \in 0 .. ((n + 1) - 1)  OBVIOUS
      <3>2. QED  BY <3>1, <1>1
    <2>2. QED  BY <2>1, <1>2, <1>f
  <1>6. QED  BY <1>4, <1>5

(* Doubled is what its definition says. (The recursive function is a       *)
(* CHOOSE: that there is one has to be proved.)                            *)
LEMMA DoubledDef ==
    /\ H!Doubled \in [Nat -> Nat \ {0}]
    /\ H!Doubled[0] = MIN_CAP
    /\ \A i \in Nat : H!Doubled[i + 1] = 2 * H!Doubled[i]
  <1> DEFINE P == Nat \ {0}
             F == [x \in P |-> 2 * x]
             D == H!Doubled
  <1>1. F \in [P -> P] /\ MIN_CAP \in P  BY KeyStoreAssumption
  <1>f. \A x \in P : F[x] = 2 * x  OBVIOUS
  <1>p. P = Nat \ {0}  OBVIOUS
  <1> HIDE DEF F, P
  <1>2. PICK f \in [Nat -> P] : f[0] = MIN_CAP /\ \A m \in Nat : f[m + 1] = F[f[m]]
    BY <1>1, EndlessRecursion
  <1>3. f = [i \in Nat |-> IF i = 0 THEN MIN_CAP ELSE 2 * f[i - 1]]
    <2>1. ASSUME NEW i \in Nat \ {0} PROVE f[i] = 2 * f[i - 1]
      <3>1. i - 1 \in Nat /\ (i - 1) + 1 = i  OBVIOUS
      <3>2. f[i] = F[f[i - 1]]  BY <3>1, <1>2
      <3>3. QED  BY <3>1, <3>2, <1>2, <1>f
    <2>2. QED  BY <2>1, <1>2
  <1>4. D = [i \in Nat |-> IF i = 0 THEN MIN_CAP ELSE 2 * D[i - 1]]
    BY <1>3 DEF H!Doubled
  <1>5. H!Doubled = D  OBVIOUS
  <1> HIDE DEF D
  <1>6. ASSUME NEW n \in Nat PROVE D[n] = f[n]
    <2> DEFINE S == {m \in 0 .. n : D[m] = f[m]}
    <2>1. 0 \in S  BY <1>3, <1>4
    <2>2. ASSUME NEW m \in 0 .. (n - 1), m \in S PROVE m + 1 \in S
      <3>1. m + 1 \in 0 .. n /\ m + 1 \in Nat /\ m + 1 # 0 /\ (m + 1) - 1 = m  OBVIOUS
      <3>2. f[m + 1] = 2 * f[m]  BY <3>1, <1>3
      <3>3. D[m + 1] = 2 * D[m]  BY <3>1, <1>4
      <3>4. QED  BY <3>1, <3>2, <3>3, <2>2
    <2> HIDE DEF S
    <2>3. \A m \in 0 .. (n - 1) : m \in S => m + 1 \in S  BY <2>2
    <2>4. 0 .. n \subseteq S  BY <2>1, <2>3, Induction
    <2>5. QED  BY <2>4 DEF S
  <1>7. D = f
    <2>1. D = [n \in Nat |-> D[n]]  BY <1>4
    <2>2. f = [n \in Nat |-> f[n]]  BY <1>2
    <2>3. QED  BY <2>1, <2>2, <1>6
  <1>8. \A m \in Nat : f[m + 1] = 2 * f[m]
    BY <1>2, <1>f
  <1>9. QED  BY <1>2, <1>5, <1>7, <1>8, <1>p

(* The numbers of buckets a map may have. *)
Capacity == {H!Doubled[i] : i \in Nat}

(* A capacity is at most half of any later one. *)
LEMMA DoubledGrows ==
    /\ \A i \in Nat : H!Doubled[i] \in Nat \ {0} /\ H!Doubled[i] >= i
    /\ \A i, j \in Nat : i < j => 2 * H!Doubled[i] <= H!Doubled[j]
  <1>d. PICK D : D = H!Doubled  OBVIOUS
  <1>0. /\ D \in [Nat -> Nat \ {0}]
        /\ \A i \in Nat : D[i + 1] = 2 * D[i]
    BY <1>d, DoubledDef
  <1>1. ASSUME NEW n \in Nat PROVE D[n] >= n
    <2> DEFINE S == {m \in Nat : D[m] >= m}
    <2>1. 0 \in S  BY <1>0
    <2>2. ASSUME NEW m \in 0 .. (n - 1), m \in S PROVE m + 1 \in S
      <3>1. D[m + 1] = 2 * D[m] /\ D[m] >= m /\ D[m] \in Nat \ {0}  BY <2>2, <1>0
      <3>2. QED  BY <3>1
    <2> HIDE DEF S
    <2>3. \A m \in 0 .. (n - 1) : m \in S => m + 1 \in S  BY <2>2
    <2>4. 0 .. n \subseteq S  BY <2>1, <2>3, Induction
    <2>5. QED  BY <2>4 DEF S
  <1>2. ASSUME NEW i \in Nat, NEW j \in Nat, i < j PROVE 2 * D[i] <= D[j]
    <2> DEFINE S == {m \in Nat : 2 * D[i] <= D[i + 1 + m]}
    <2>1. 0 \in S  BY <1>0
    <2>2. ASSUME NEW m \in 0 .. (j - i - 2), m \in S PROVE m + 1 \in S
      <3>1. PICK k \in Nat : k = i + 1 + m  OBVIOUS
      <3>2. D[k + 1] = 2 * D[k] /\ D[k] \in Nat \ {0} /\ D[i] \in Nat  BY <1>0
      <3>3. 2 * D[i] <= D[k]  BY <2>2, <3>1
      <3>4. i + 1 + (m + 1) = k + 1  BY <3>1
      <3>5. 2 * D[i] <= D[i + 1 + (m + 1)]  BY <3>2, <3>3, <3>4
      <3>6. QED  BY <3>5
    <2> HIDE DEF S
    <2>3. PICK N \in Nat : N = j - i - 1  BY <1>2
    <2>4. \A m \in 0 .. (N - 1) : m \in S => m + 1 \in S  BY <2>2, <2>3
    <2>5. 0 .. N \subseteq S  BY <2>1, <2>4, Induction
    <2>6. 2 * D[i] <= D[i + 1 + N]  BY <2>5 DEF S
    <2>7. QED  BY <2>6, <2>3
  <1>3. QED  BY <1>0, <1>1, <1>2, <1>d

(* The capacities are closed under doubling, and under halving down to any *)
(* smaller one.                                                            *)
LEMMA Capacities ==
    /\ Capacity \subseteq Nat \ {0}
    /\ \A x \in Capacity : 2 * x \in Capacity
    /\ \A x, y \in Capacity : x < y =>
            2 * x <= y /\ y \div 2 \in Capacity /\ y = 2 * (y \div 2)
  <1>d. PICK D : D = H!Doubled  OBVIOUS
  <1>0. /\ D \in [Nat -> Nat \ {0}]
        /\ \A i \in Nat : D[i + 1] = 2 * D[i]
        /\ \A i, j \in Nat : i < j => 2 * D[i] <= D[j]
        /\ Capacity = {D[i] : i \in Nat}
    BY <1>d, DoubledDef, DoubledGrows DEF Capacity
  <1>1. Capacity \subseteq Nat \ {0} /\ \A x \in Capacity : 2 * x \in Capacity
    BY <1>0
  <1>2. ASSUME NEW i \in Nat, NEW j \in Nat, D[i] < D[j]
        PROVE  2 * D[i] <= D[j] /\ D[j] \div 2 \in Capacity /\ D[j] = 2 * (D[j] \div 2)
    <2>1. D[i] \in Nat \ {0} /\ D[j] \in Nat \ {0}  BY <1>0
    <2>2. i < j
      <3>1. i # j  BY <1>2, <2>1
      <3>2. ~(j < i)  BY <1>2, <1>0, <2>1
      <3>3. QED  BY <3>1, <3>2
    <2>3. 2 * D[i] <= D[j]  BY <2>2, <1>0
    <2>4. PICK k \in Nat : j = k + 1  BY <2>2
    <2>5. D[j] = 2 * D[k] /\ D[k] \in Nat  BY <2>4, <1>0
    <2>6. D[j] \div 2 = D[k]  BY <2>5
    <2>7. QED  BY <2>3, <2>5, <2>6, <1>0
  <1>3. ASSUME NEW x \in Capacity, NEW y \in Capacity, x < y
        PROVE  2 * x <= y /\ y \div 2 \in Capacity /\ y = 2 * (y \div 2)
    <2>1. PICK i \in Nat : x = D[i]  BY <1>0
    <2>2. PICK j \in Nat : y = D[j]  BY <1>0
    <2>3. QED  BY <2>1, <2>2, <1>2, <1>3
  <1>4. QED  BY <1>1, <1>3

(* The loop of hashmap_new ends with a capacity that is large enough, and  *)
(* leaves a capacity as it is.                                             *)
LEMMA RoundedUp ==
    ASSUME NEW c \in Nat
    PROVE  /\ H!RoundUp(c) \in Capacity /\ H!RoundUp(c) >= c
           /\ c \in Capacity => H!RoundUp(c) = c
  <1>d. PICK D : D = H!Doubled  OBVIOUS
  <1>0. /\ \A i \in Nat : D[i] \in Nat \ {0} /\ D[i] >= i
        /\ Capacity = {D[i] : i \in Nat}
    BY <1>d, DoubledDef, DoubledGrows DEF Capacity
  <1> DEFINE powers == {D[i] : i \in 0 .. c}
             T == {n \in powers : n >= c}
  <1>1. D[c] \in T /\ T \in SUBSET Nat  BY <1>0
  <1>2. PICK x \in T : \A y \in T : x <= y  BY <1>1, LeastNumber
  <1>3. \E n \in powers : n >= c /\ \A m \in powers : m >= c => n <= m  BY <1>2
  <1>4. H!RoundUp(c) = CHOOSE n \in powers : n >= c /\ \A m \in powers : m >= c => n <= m
    BY <1>d DEF H!RoundUp
  <1>5. /\ H!RoundUp(c) \in powers /\ H!RoundUp(c) >= c
        /\ \A m \in powers : m >= c => H!RoundUp(c) <= m
    BY <1>3, <1>4
  <1>6. H!RoundUp(c) \in Capacity  BY <1>5, <1>0
  <1>7. ASSUME c \in Capacity PROVE H!RoundUp(c) = c
    <2>1. PICK i \in Nat : c = D[i]  BY <1>7, <1>0
    <2>2. i \in 0 .. c /\ c \in powers  BY <2>1, <1>0
    <2>3. H!RoundUp(c) <= c  BY <2>2, <1>5
    <2>4. H!RoundUp(c) \in Nat  BY <1>6, Capacities
    <2>5. QED  BY <2>3, <2>4, <1>5
  <1>8. QED  BY <1>5, <1>6, <1>7

-----------------------------------------------------------------------------
(* Maps and the loop that places an entry                                  *)

(* Entries, maps of n buckets, states of the loop, the buckets that are     *)
(* taken.                                                                  *)
Entries == [key : Key, val : Desc, dib : Nat \ {0}]
Maps(n) == [0 .. (n - 1) -> Entries \cup {H!Empty}]
States(n) == [bs : Maps(n), e : Entries, done : BOOLEAN]
Taken(bs) == {i \in DOMAIN bs : H!Occupied(bs[i])}

(* The map counts with the operator this module counts with. *)
LEMMA SameCardinality ==
    ASSUME NEW S
    PROVE  H!Cardinality(S) = Cardinality(S)
  BY DEF H!Cardinality, Cardinality

(* The taken buckets of a map of n buckets. *)
LEMMA MapSize ==
    ASSUME NEW n \in Nat \ {0}, NEW bs \in Maps(n)
    PROVE  /\ H!NBuckets(bs) = n /\ DOMAIN bs = 0 .. (n - 1)
           /\ Taken(bs) \in SUBSET (0 .. (n - 1)) /\ IsFiniteSet(Taken(bs))
           /\ Cardinality(Taken(bs)) \in 0 .. n
           /\ Taken(bs) # DOMAIN bs => Cardinality(Taken(bs)) < n
           /\ Cardinality(Taken(bs)) < n => Taken(bs) # DOMAIN bs
           /\ \A i \in 0 .. (n - 1) : i \in Taken(bs) <=> bs[i].dib > 0
           /\ \A i \in Taken(bs) : bs[i] \in Entries
           /\ \A i \in (0 .. (n - 1)) \ Taken(bs) : bs[i] = H!Empty
  <1>1. DOMAIN bs = 0 .. (n - 1)  BY DEF Maps
  <1>2. IsFiniteSet(DOMAIN bs) /\ Cardinality(DOMAIN bs) = n  BY <1>1, FS_Interval
  <1>3. Taken(bs) \in SUBSET (DOMAIN bs)  BY DEF Taken
  <1>4. /\ IsFiniteSet(Taken(bs)) /\ Cardinality(Taken(bs)) <= n
        /\ Cardinality(Taken(bs)) = n => Taken(bs) = DOMAIN bs
        /\ Cardinality(Taken(bs)) \in Nat
    BY <1>2, <1>3, FS_Subset, FS_CardinalityType
  <1>5. \A i \in 0 .. (n - 1) : i \in Taken(bs) <=> bs[i].dib > 0
    BY <1>1 DEF Taken, H!Occupied
  <1>6. H!Empty.dib = 0  BY DEF H!Empty
  <1>7. \A i \in 0 .. (n - 1) : bs[i] \in Entries \/ bs[i] = H!Empty  BY DEF Maps
  <1>8. \A x \in Entries : x.dib > 0  BY DEF Entries
  <1>9. \A i \in Taken(bs) : bs[i] \in Entries  BY <1>1, <1>3, <1>5, <1>6, <1>7
  <1>10. \A i \in (0 .. (n - 1)) \ Taken(bs) : bs[i] = H!Empty
    BY <1>1, <1>3, <1>5, <1>7, <1>8
  <1>11. H!NBuckets(bs) = n  BY <1>2, SameCardinality DEF H!NBuckets
  <1>12. Cardinality(Taken(bs)) < n => Taken(bs) # DOMAIN bs  BY <1>2
  <1>13. QED  BY <1>1, <1>3, <1>4, <1>5, <1>9, <1>10, <1>11, <1>12

(* A hash and a distance lead into the map. *)
LEMMA BucketsInside ==
    ASSUME NEW n \in Nat \ {0}, NEW bs \in Maps(n), NEW k \in Key, NEW s \in Int
    PROVE  /\ (Hash[k] + s) % n \in 0 .. (n - 1)
           /\ H!Bucket(bs, k, s) = (Hash[k] + s) % n
           /\ Hash[k] \in Nat
  <1>1. Hash[k] \in Nat  BY KeyStoreAssumption
  <1>2. Hash[k] + s \in Int  BY <1>1
  <1>3. QED  BY <1>1, <1>2, ModDef, MapSize DEF H!Bucket

(* A bucket is written; an entry is carried one bucket further.            *)
Replaced(bs, i, b) == [bs EXCEPT ![i] = b]
Further(x) == [key |-> x.key, val |-> x.val, dib |-> x.dib + 1]

(* One round of the loop of hashmap_set, by cases. *)
LEMMA ProbeCases ==
    ASSUME NEW n \in Nat \ {0}, NEW s \in States(n), NEW i \in 0 .. (n - 1)
    PROVE  LET t == H!Probe(s, i)  b == s.bs[i] IN
           /\ t \in States(n)
           /\ s.done => t = s
           /\ ~s.done /\ i \notin Taken(s.bs) =>
                t.bs = Replaced(s.bs, i, s.e) /\ t.e = s.e /\ t.done
           /\ ~s.done /\ i \in Taken(s.bs) /\ b.key = s.e.key =>
                /\ t.bs = Replaced(s.bs, i, [key |-> b.key, val |-> s.e.val, dib |-> b.dib])
                /\ t.e = s.e /\ t.done
           /\ ~s.done /\ i \in Taken(s.bs) /\ b.key # s.e.key /\ b.dib < s.e.dib =>
                t.bs = Replaced(s.bs, i, s.e) /\ t.e = Further(b) /\ ~t.done
           /\ ~s.done /\ i \in Taken(s.bs) /\ b.key # s.e.key /\ ~(b.dib < s.e.dib) =>
                t.bs = s.bs /\ t.e = Further(s.e) /\ ~t.done
  <1> DEFINE t == H!Probe(s, i)
             b == s.bs[i]
             B0 == Entries \cup {H!Empty}
  <1>0. /\ s.bs \in [0 .. (n - 1) -> B0] /\ s.e \in Entries /\ s.done \in BOOLEAN
        /\ s.bs \in Maps(n)
    BY DEF States, Maps
  <1>1. i \in Taken(s.bs) <=> H!Occupied(b)  BY <1>0 DEF Taken
  <1>2. CASE s.done
    <2>1. t = s  BY <1>2 DEF H!Probe
    <2>2. QED  BY <2>1, <1>2
  <1>3. CASE ~s.done /\ ~H!Occupied(b)
    <2>1. t = [s EXCEPT !.bs[i] = s.e, !.done = TRUE]  BY <1>3 DEF H!Probe
    <2>2. t = [bs |-> Replaced(s.bs, i, s.e), e |-> s.e, done |-> TRUE]
      BY <2>1, <1>0 DEF States, Replaced
    <2>3. Replaced(s.bs, i, s.e) \in Maps(n)  BY <1>0 DEF Maps, Replaced
    <2>4. QED  BY <1>0, <1>1, <1>3, <2>2, <2>3 DEF States
  <1>4. CASE ~s.done /\ H!Occupied(b) /\ b.key = s.e.key
    <2> DEFINE c == [key |-> b.key, val |-> s.e.val, dib |-> b.dib]
    <2>0. b \in Entries  BY <1>0, <1>1, <1>4, MapSize
    <2>1. t = [s EXCEPT !.bs[i].val = s.e.val, !.done = TRUE]  BY <1>4 DEF H!Probe
    <2>2. [b EXCEPT !.val = s.e.val] = c /\ c \in Entries  BY <1>0, <2>0 DEF Entries
    <2>3. t = [bs |-> Replaced(s.bs, i, c), e |-> s.e, done |-> TRUE]
      BY <2>1, <2>2, <1>0 DEF States, Replaced
    <2> HIDE DEF c
    <2>4. Replaced(s.bs, i, c) \in Maps(n)  BY <1>0, <2>2 DEF Maps, Replaced
    <2>5. QED  BY <1>0, <1>1, <1>4, <2>3, <2>4 DEF States, c
  <1>5. CASE ~s.done /\ H!Occupied(b) /\ b.key # s.e.key /\ b.dib < s.e.dib
    <2>0. b \in Entries  BY <1>0, <1>1, <1>5, MapSize
    <2>1. t = [s EXCEPT !.bs[i] = s.e, !.e = H!Farther(b)]  BY <1>5 DEF H!Probe
    <2>2. H!Farther(b) = Further(b) /\ Further(b) \in Entries
      BY <2>0 DEF Entries, Further, H!Farther
    <2>3. t = [bs |-> Replaced(s.bs, i, s.e), e |-> Further(b), done |-> FALSE]
      BY <2>1, <2>2, <1>0, <1>5 DEF States, Replaced
    <2>4. Replaced(s.bs, i, s.e) \in Maps(n)  BY <1>0 DEF Maps, Replaced
    <2>5. QED  BY <1>0, <1>1, <1>5, <2>2, <2>3, <2>4 DEF States
  <1>6. CASE ~s.done /\ H!Occupied(b) /\ b.key # s.e.key /\ ~(b.dib < s.e.dib)
    <2>1. t = [s EXCEPT !.e = H!Farther(@)]  BY <1>6 DEF H!Probe
    <2>2. H!Farther(s.e) = Further(s.e) /\ Further(s.e) \in Entries
      BY <1>0 DEF Entries, Further, H!Farther
    <2>3. t = [bs |-> s.bs, e |-> Further(s.e), done |-> FALSE]
      BY <2>1, <2>2, <1>0, <1>6 DEF States
    <2>4. QED  BY <1>0, <1>1, <1>6, <2>2, <2>3 DEF States
  <1>7. QED  BY <1>0, <1>2, <1>3, <1>4, <1>5, <1>6

(* The loop's states, one per bucket it has looked at. *)
IsTrace(f, n, bs, x) ==
    /\ f \in [0 .. n -> States(n)] /\ f[0] = [bs |-> bs, e |-> x, done |-> FALSE]
    /\ \A j \in 0 .. (n - 1) : f[j + 1] = H!Probe(f[j], (Hash[x.key] + j) % n)

(* The loop runs through such states: Place is the last of them. (Its      *)
(* recursive function is a CHOOSE, as Doubled.)                            *)
LEMMA PlaceTraced ==
    ASSUME NEW n \in Nat \ {0}, NEW bs \in Maps(n), NEW x \in Entries
    PROVE  \E f : IsTrace(f, n, bs, x) /\ H!Place(bs, x) = f[n].bs
  <1> DEFINE X == States(n)
             a == [bs |-> bs, e |-> x, done |-> FALSE]
             F == [j \in 0 .. (n - 1) |-> [s \in X |-> H!Probe(s, (Hash[x.key] + j) % n)]]
             N == H!NBuckets(bs)
             D == CHOOSE D : D = [j \in 0 .. N |->
                    IF j = 0 THEN a ELSE H!Probe(D[j - 1], H!Bucket(bs, x.key, j - 1))]
  <1>k. x.key \in Key  BY DEF Entries
  <1>1. a \in X  BY DEF States
  <1>2. F \in [0 .. (n - 1) -> [X -> X]]
    <2>1. ASSUME NEW j \in 0 .. (n - 1), NEW s \in X
          PROVE  H!Probe(s, (Hash[x.key] + j) % n) \in X
      <3>1. (Hash[x.key] + j) % n \in 0 .. (n - 1)  BY <1>k, BucketsInside
      <3>2. QED  BY <3>1, ProbeCases
    <2>2. QED  BY <2>1
  <1>3. \A j \in 0 .. (n - 1) : \A s \in X : F[j][s] = H!Probe(s, (Hash[x.key] + j) % n)
    OBVIOUS
  <1> HIDE DEF F
  <1>4. PICK f : Solves(f, n, X, a, F)  BY <1>1, <1>2, Recursion
  <1>5. IsTrace(f, n, bs, x)
    <2>1. f \in [0 .. n -> X] /\ f[0] = a  BY <1>4 DEF Solves
    <2>2. \A j \in 0 .. (n - 1) : f[j + 1] = F[j][f[j]]  BY <1>4 DEF Solves
    <2>3. \A j \in 0 .. (n - 1) : f[j] \in X  BY <2>1
    <2>4. QED  BY <2>1, <2>2, <2>3, <1>3 DEF IsTrace
  <1>6. f = [j \in 0 .. n |->
                IF j = 0 THEN a ELSE H!Probe(f[j - 1], H!Bucket(bs, x.key, j - 1))]
    <2>1. ASSUME NEW j \in 1 .. n
          PROVE  f[j] = H!Probe(f[j - 1], H!Bucket(bs, x.key, j - 1))
      <3>1. j - 1 \in 0 .. (n - 1) /\ (j - 1) + 1 = j  OBVIOUS
      <3>2. f[(j - 1) + 1] = H!Probe(f[j - 1], (Hash[x.key] + (j - 1)) % n)
        BY <3>1, <1>5 DEF IsTrace
      <3>3. H!Bucket(bs, x.key, j - 1) = (Hash[x.key] + (j - 1)) % n
        BY <1>k, BucketsInside
      <3>4. QED  BY <3>1, <3>2, <3>3
    <2>2. f \in [0 .. n -> X] /\ f[0] = a  BY <1>4 DEF Solves
    <2>3. QED  BY <2>1, <2>2
  <1>7. N = n  BY MapSize
  <1>8. D = [j \in 0 .. N |->
                IF j = 0 THEN a ELSE H!Probe(D[j - 1], H!Bucket(bs, x.key, j - 1))]
    BY <1>6, <1>7
  <1>9. H!Place(bs, x) = D[N].bs
    BY DEF H!Place
  <1> HIDE DEF a, D, N
  <1>10. D[n] = f[n]
    <2> DEFINE S == {j \in 0 .. n : D[j] = f[j]}
    <2>1. 0 \in S  BY <1>6, <1>7, <1>8
    <2>2. ASSUME NEW j \in 0 .. (n - 1), j \in S PROVE j + 1 \in S
      <3>1. j + 1 \in 0 .. n /\ j + 1 # 0 /\ (j + 1) - 1 = j  OBVIOUS
      <3>2. f[j + 1] = H!Probe(f[j], H!Bucket(bs, x.key, j))  BY <3>1, <1>6
      <3>3. D[j + 1] = H!Probe(D[j], H!Bucket(bs, x.key, j))  BY <3>1, <1>7, <1>8
      <3>4. QED  BY <3>1, <3>2, <3>3, <2>2
    <2> HIDE DEF S
    <2>3. \A j \in 0 .. (n - 1) : j \in S => j + 1 \in S  BY <2>2
    <2>4. 0 .. n \subseteq S  BY <2>1, <2>3, Induction
    <2>5. QED  BY <2>4 DEF S
  <1>11. QED  BY <1>5, <1>7, <1>9, <1>10

-----------------------------------------------------------------------------
(* The order of Robin Hood                                                 *)

(* The loop has come with entry x to bucket i; all entries are where it     *)
(* could have left them, no key is there twice.                            *)
Reached(bs, n, x, i) ==
    /\ (Hash[x.key] + (x.dib - 1)) % n = i
    /\ \A s \in 0 .. (x.dib - 2) : bs[(Hash[x.key] + s) % n].dib > s
Ordered(bs, n) == \A i \in Taken(bs) : Reached(bs, n, bs[i], i)
Distinct(bs) == \A i, j \in Taken(bs) : bs[i].key = bs[j].key => i = j

(* What is in the map; what is there but for one key.                      *)
Absent(bs, k) == \A i \in Taken(bs) : bs[i].key # k
Content(bs) == {<<bs[i].key, bs[i].val>> : i \in Taken(bs)}
Other(bs, k) == {c \in Content(bs) : c[1] # k}

(* A bucket that is written: the map then. *)
LEMMA ReplacedIs ==
    ASSUME NEW n \in Nat \ {0}, NEW bs \in Maps(n), NEW i \in 0 .. (n - 1),
           NEW x \in Entries
    PROVE  /\ Replaced(bs, i, x) \in Maps(n)
           /\ Taken(Replaced(bs, i, x)) = Taken(bs) \cup {i}
           /\ Replaced(bs, i, x)[i] = x
           /\ \A j \in 0 .. (n - 1) : j # i => Replaced(bs, i, x)[j] = bs[j]
  <1> DEFINE cs == Replaced(bs, i, x)
  <1>1. cs \in Maps(n) /\ cs[i] = x /\ \A j \in 0 .. (n - 1) : j # i => cs[j] = bs[j]
    BY DEF Maps, Replaced
  <1>2. DOMAIN cs = 0 .. (n - 1) /\ DOMAIN bs = 0 .. (n - 1)  BY <1>1 DEF Maps
  <1>3. H!Occupied(x)  BY DEF Entries, H!Occupied
  <1> HIDE DEF cs
  <1>4. Taken(cs) = Taken(bs) \cup {i}  BY <1>1, <1>2, <1>3 DEF Taken
  <1>5. QED  BY <1>1, <1>4 DEF cs

(* A bucket that is written: the entries then. *)
LEMMA ContentReplaced ==
    ASSUME NEW n \in Nat \ {0}, NEW bs \in Maps(n), Distinct(bs),
           NEW i \in 0 .. (n - 1), NEW x \in Entries
    PROVE  /\ i \notin Taken(bs) =>
                Content(Replaced(bs, i, x)) = Content(bs) \cup {<<x.key, x.val>>}
           /\ i \in Taken(bs) =>
                Content(Replaced(bs, i, x)) = Other(bs, bs[i].key) \cup {<<x.key, x.val>>}
  <1>c. PICK cs : cs = Replaced(bs, i, x)  OBVIOUS
  <1> DEFINE Pair(ds, j) == <<ds[j].key, ds[j].val>>
  <1>t. Taken(bs) \subseteq 0 .. (n - 1)  BY MapSize
  <1>0. /\ Taken(cs) = Taken(bs) \cup {i} /\ cs[i] = x
        /\ \A j \in 0 .. (n - 1) : j # i => cs[j] = bs[j]
    BY <1>c, ReplacedIs
  <1>1. /\ Taken(cs) = Taken(bs) \cup {i} /\ cs[i] = x
        /\ \A j \in Taken(bs) : j # i => cs[j] = bs[j]
    BY <1>0, <1>t
  <1>2. CASE i \notin Taken(bs)
    <2>1. \A j \in Taken(bs) : Pair(cs, j) = Pair(bs, j)  BY <1>1, <1>2
    <2>2. Pair(cs, i) = <<x.key, x.val>>  BY <1>1
    <2>3. Content(cs) = Content(bs) \cup {<<x.key, x.val>>}
      BY <1>1, <2>1, <2>2 DEF Content
    <2>4. QED  BY <2>3, <1>2, <1>c
  <1>3. CASE i \in Taken(bs)
    <2>1. \A j \in Taken(bs) : j # i => Pair(cs, j) = Pair(bs, j) /\ bs[j].key # bs[i].key
      BY <1>1, <1>3 DEF Distinct
    <2>2. Pair(cs, i) = <<x.key, x.val>>  BY <1>1
    <2>3. ASSUME NEW c \in Content(cs)
          PROVE  c \in Other(bs, bs[i].key) \cup {<<x.key, x.val>>}
      <3>1. PICK j \in Taken(cs) : c = Pair(cs, j)  BY DEF Content
      <3>2. CASE j = i  BY <3>1, <3>2, <2>2
      <3>3. CASE j # i
        <4>1. j \in Taken(bs) /\ c = Pair(bs, j) /\ c[1] # bs[i].key
          BY <3>1, <3>3, <1>1, <2>1
        <4>2. QED  BY <4>1 DEF Content, Other
      <3>4. QED  BY <3>2, <3>3
    <2>4. ASSUME NEW c \in Other(bs, bs[i].key)
          PROVE  c \in Content(cs)
      <3>1. PICK j \in Taken(bs) : c = Pair(bs, j)  BY DEF Content, Other
      <3>2. j # i  BY <3>1 DEF Other
      <3>3. j \in Taken(cs) /\ c = Pair(cs, j)  BY <3>1, <3>2, <1>1, <2>1
      <3>4. QED  BY <3>3 DEF Content
    <2>5. <<x.key, x.val>> \in Content(cs)  BY <1>1, <2>2 DEF Content
    <2>6. Content(cs) = Other(bs, bs[i].key) \cup {<<x.key, x.val>>}
      BY <2>3, <2>4, <2>5
    <2>7. QED  BY <2>6, <1>3, <1>c
  <1>4. QED  BY <1>2, <1>3

(* A key is absent if no entry has it; then all entries are other ones. *)
LEMMA AbsentContent ==
    ASSUME NEW bs, NEW k
    PROVE  /\ Absent(bs, k) <=> \A c \in Content(bs) : c[1] # k
           /\ Absent(bs, k) => Other(bs, k) = Content(bs)
  <1>1. ASSUME Absent(bs, k), NEW c \in Content(bs) PROVE c[1] # k
    BY <1>1 DEF Absent, Content
  <1>2. ASSUME \A c \in Content(bs) : c[1] # k, NEW i \in Taken(bs) PROVE bs[i].key # k
    <2>1. <<bs[i].key, bs[i].val>> \in Content(bs)  BY DEF Content
    <2>2. QED  BY <2>1, <1>2
  <1>3. Absent(bs, k) => Other(bs, k) = Content(bs)  BY <1>1 DEF Other
  <1>4. QED  BY <1>1, <1>2, <1>3 DEF Absent

(* A bucket that comes to hold an entry farther from its own keeps order.  *)
LEMMA ReachedKept ==
    ASSUME NEW n \in Nat \ {0}, NEW bs \in Maps(n), NEW cs \in Maps(n),
           \A p \in 0 .. (n - 1) : bs[p].dib <= cs[p].dib,
           NEW x \in Entries, NEW i, Reached(bs, n, x, i)
    PROVE  Reached(cs, n, x, i)
  <1>1. ASSUME NEW s \in 0 .. (x.dib - 2) PROVE cs[(Hash[x.key] + s) % n].dib > s
    <2>1. x.key \in Key /\ x.dib \in Nat  BY DEF Entries
    <2>2. PICK p \in 0 .. (n - 1) : p = (Hash[x.key] + s) % n  BY <2>1, BucketsInside
    <2>3. bs[p].dib > s  BY <2>2 DEF Reached
    <2>4. bs[p].dib \in Nat /\ cs[p].dib \in Nat  BY DEF Maps, Entries, H!Empty
    <2>5. QED  BY <2>2, <2>3, <2>4
  <1>2. QED  BY <1>1 DEF Reached

(* Writing an entry where it belongs, over one that is nearer to its own   *)
(* bucket or none, keeps the order.                                        *)
LEMMA OrderedKept ==
    ASSUME NEW n \in Nat \ {0}, NEW bs \in Maps(n), Ordered(bs, n),
           NEW i \in 0 .. (n - 1), NEW x \in Entries,
           Reached(bs, n, x, i), bs[i].dib <= x.dib
    PROVE  Ordered(Replaced(bs, i, x), n)
  <1>c. PICK cs : cs = Replaced(bs, i, x)  OBVIOUS
  <1>1. /\ cs \in Maps(n) /\ Taken(cs) = Taken(bs) \cup {i} /\ cs[i] = x
        /\ \A j \in 0 .. (n - 1) : j # i => cs[j] = bs[j]
    BY <1>c, ReplacedIs
  <1>t. Taken(bs) \subseteq 0 .. (n - 1)  BY MapSize
  <1>2. \A p \in 0 .. (n - 1) : bs[p].dib \in Nat  BY DEF Maps, Entries, H!Empty
  <1>3. \A p \in 0 .. (n - 1) : bs[p].dib <= cs[p].dib  BY <1>1, <1>2
  <1>4. Reached(cs, n, x, i)  BY <1>1, <1>3, ReachedKept
  <1>5. ASSUME NEW j \in Taken(bs), j # i PROVE Reached(cs, n, cs[j], j)
    <2>1. bs[j] \in Entries /\ cs[j] = bs[j] /\ Reached(bs, n, bs[j], j)
      BY <1>1, <1>t, <1>5, MapSize DEF Ordered
    <2>2. QED  BY <2>1, <1>1, <1>3, ReachedKept
  <1>6. QED  BY <1>c, <1>1, <1>4, <1>5 DEF Ordered

(* On to the next bucket. *)
LEMMA ReachedNext ==
    ASSUME NEW n \in Nat \ {0}, NEW bs \in Maps(n), NEW x \in Entries,
           NEW i \in 0 .. (n - 1), Reached(bs, n, x, i), bs[i].dib >= x.dib
    PROVE  Reached(bs, n, Further(x), (i + 1) % n) /\ Further(x) \in Entries
  <1>1. x.key \in Key /\ x.dib \in Nat \ {0} /\ Hash[x.key] \in Nat
    BY KeyStoreAssumption DEF Entries
  <1>2. Further(x).key = x.key /\ Further(x).dib = x.dib + 1 /\ Further(x) \in Entries
    BY DEF Further, Entries
  <1>3. (Hash[x.key] + x.dib) % n = (i + 1) % n
    <2>1. PICK a \in Int : a = Hash[x.key] + (x.dib - 1)  BY <1>1
    <2>2. a % n = i % n  BY <2>1, ModSmall DEF Reached
    <2>0. i \in Int /\ 1 \in Int  OBVIOUS
    <2>3. (a + 1) % n = (i + 1) % n  BY <2>0, <2>1, <2>2, ModShift
    <2>4. a + 1 = Hash[x.key] + x.dib  BY <2>1, <1>1
    <2>5. QED  BY <2>3, <2>4
  <1>4. ASSUME NEW s \in 0 .. (x.dib - 1) PROVE bs[(Hash[x.key] + s) % n].dib > s
    <2>1. CASE s = x.dib - 1
      <3>1. (Hash[x.key] + s) % n = i  BY <2>1 DEF Reached
      <3>2. bs[i].dib \in Nat  BY DEF Maps, Entries, H!Empty
      <3>3. QED  BY <3>1, <3>2, <2>1, <1>1
    <2>2. CASE s # x.dib - 1
      <3>1. s \in 0 .. (x.dib - 2)  BY <2>2, <1>1
      <3>2. QED  BY <3>1 DEF Reached
    <2>3. QED  BY <2>1, <2>2
  <1>5. (x.dib + 1) - 1 = x.dib /\ (x.dib + 1) - 2 = x.dib - 1  BY <1>1
  <1>6. QED  BY <1>2, <1>3, <1>4, <1>5 DEF Reached

-----------------------------------------------------------------------------
(* Placing an entry                                                        *)

(* A map in order. *)
Sound(bs, n) == bs \in Maps(n) /\ Ordered(bs, n) /\ Distinct(bs)

(* The map after an entry x was placed in the map before. *)
Placed(before, bs, n, x) ==
    /\ Sound(bs, n)
    /\ Content(bs) = Other(before, x.key) \cup {<<x.key, x.val>>}
    /\ Absent(before, x.key) =>
          \E i \in (0 .. (n - 1)) \ Taken(before) : Taken(bs) = Taken(before) \cup {i}
    /\ ~Absent(before, x.key) => Taken(bs) = Taken(before)

(* The loop at its m-th bucket: no entry was swapped yet, or the one that  *)
(* is carried is all that is missing in the map.                           *)
Searching(before, s, n, x, m) ==
    /\ s.bs = before /\ s.e = [key |-> x.key, val |-> x.val, dib |-> m + 1]
    /\ \A j \in 0 .. (m - 1) : before[(Hash[x.key] + j) % n].key # x.key

Carrying(before, s, x) ==
    /\ Absent(before, x.key) /\ Absent(s.bs, s.e.key)
    /\ Content(s.bs) \cup {<<s.e.key, s.e.val>>} = Content(before) \cup {<<x.key, x.val>>}

Probing(before, s, n, x, m) ==
    /\ Sound(s.bs, n) /\ Taken(s.bs) = Taken(before)
    /\ Reached(s.bs, n, s.e, (Hash[x.key] + m) % n)
    /\ \A j \in 0 .. (m - 1) : (Hash[x.key] + j) % n \in Taken(before)
    /\ Searching(before, s, n, x, m) \/ Carrying(before, s, x)

(* A key that was not met before an entry nearer to its own bucket, or an  *)
(* empty bucket, is not in the map.                                        *)
LEMMA NotBehind ==
    ASSUME NEW n \in Nat \ {0}, NEW bs, Sound(bs, n), NEW k \in Key, NEW m \in Nat,
           \A j \in 0 .. (m - 1) : bs[(Hash[k] + j) % n].key # k,
           bs[(Hash[k] + m) % n].dib < m + 1
    PROVE  Absent(bs, k)
  <1>1. SUFFICES ASSUME NEW i \in Taken(bs), bs[i].key = k PROVE FALSE
    BY DEF Absent
  <1>2. PICK d : d = bs[i].dib  OBVIOUS
  <1>3. d \in Nat \ {0} /\ bs[i] \in Entries  BY <1>2, MapSize DEF Sound, Entries
  <1>4. (Hash[k] + (d - 1)) % n = i /\ \A s \in 0 .. (d - 2) : bs[(Hash[k] + s) % n].dib > s
    BY <1>1, <1>2 DEF Sound, Ordered, Reached
  <1>5. CASE d - 1 < m
    <2>1. d - 1 \in 0 .. (m - 1)  BY <1>3, <1>5
    <2>2. QED  BY <2>1, <1>1, <1>4
  <1>6. CASE d - 1 = m
    BY <1>2, <1>3, <1>4, <1>6
  <1>7. CASE d - 1 > m
    <2>1. m \in 0 .. (d - 2)  BY <1>3, <1>7
    <2>2. PICK p \in 0 .. (n - 1) : p = (Hash[k] + m) % n  BY BucketsInside DEF Sound
    <2>3. bs[p].dib > m /\ bs[p].dib < m + 1  BY <2>1, <2>2, <1>4
    <2>4. bs[p].dib \in Nat  BY DEF Sound, Maps, Entries, H!Empty
    <2>5. QED  BY <2>3, <2>4
  <1>8. QED  BY <1>3, <1>5, <1>6, <1>7

(* The same for the whole of Sound, for a key that is not there or was in  *)
(* that bucket.                                                            *)
LEMMA ReplacedSound ==
    ASSUME NEW n \in Nat \ {0}, NEW bs, Sound(bs, n),
           NEW i \in 0 .. (n - 1), NEW x \in Entries,
           Reached(bs, n, x, i), bs[i].dib <= x.dib,
           Absent(bs, x.key) \/ (i \in Taken(bs) /\ bs[i].key = x.key)
    PROVE  Sound(Replaced(bs, i, x), n)
  <1>c. PICK cs : cs = Replaced(bs, i, x)  OBVIOUS
  <1>t. bs \in Maps(n) /\ Taken(bs) \subseteq 0 .. (n - 1)  BY MapSize DEF Sound
  <1>1. cs \in Maps(n)  BY <1>c, <1>t, ReplacedIs
  <1>2. Taken(cs) = Taken(bs) \cup {i} /\ cs[i] = x  BY <1>c, <1>t, ReplacedIs
  <1>3. \A j \in 0 .. (n - 1) : j # i => cs[j] = bs[j]  BY <1>c, <1>t, ReplacedIs
  <1>4. Ordered(cs, n)  BY <1>c, <1>t, OrderedKept DEF Sound
  <1>5. \A j \in Taken(bs) : j # i => cs[j] = bs[j] /\ bs[j].key # x.key
    BY <1>t, <1>3 DEF Absent, Sound, Distinct
  <1>6. Distinct(cs)  BY <1>2, <1>5 DEF Sound, Distinct
  <1>7. QED  BY <1>c, <1>1, <1>4, <1>6 DEF Sound

(* One round of the loop keeps what is said of it; if it is the last, the  *)
(* entry is placed.                                                        *)
LEMMA PlaceStep ==
    ASSUME NEW n \in Nat \ {0}, NEW before, Sound(before, n), NEW x \in Entries,
           NEW m \in 0 .. (n - 1), NEW s \in States(n), ~s.done,
           Probing(before, s, n, x, m)
    PROVE  LET t == H!Probe(s, (Hash[x.key] + m) % n) IN
           IF t.done THEN Placed(before, t.bs, n, x)
                     ELSE Probing(before, t, n, x, m + 1)
  <1>k. x.key \in Key /\ x.dib \in Nat \ {0} /\ x.val \in Desc  BY DEF Entries
  <1>i. PICK i \in 0 .. (n - 1) : i = (Hash[x.key] + m) % n
    BY <1>k, BucketsInside DEF Sound
  <1>n. (i + 1) % n = (Hash[x.key] + (m + 1)) % n
    <2>1. PICK h \in Int : h = Hash[x.key] + m
      BY <1>k, KeyStoreAssumption
    <2>2. h % n = i % n /\ i \in Int /\ 1 \in Int  BY <1>i, <2>1, ModSmall
    <2>3. (h + 1) % n = (i + 1) % n  BY <2>2, ModShift
    <2>4. h + 1 = Hash[x.key] + (m + 1)  BY <2>1, <1>k, KeyStoreAssumption
    <2>5. QED  BY <2>3, <2>4
  <1>t. PICK t : t = H!Probe(s, i)  OBVIOUS
  <1>b. PICK b : b = s.bs[i]  OBVIOUS
  <1>s. s.bs \in Maps(n) /\ s.e \in Entries  BY DEF States
  <1>o. Sound(s.bs, n) /\ Taken(s.bs) = Taken(before) /\ Reached(s.bs, n, s.e, i)
    BY <1>i DEF Probing
  <1>d. b.dib \in Nat /\ s.e.dib \in Nat \ {0} /\ (i \notin Taken(s.bs) => b.dib = 0)
    BY <1>b, <1>s, MapSize DEF Maps, Entries, H!Empty
  <1>1. i \in Taken(s.bs) =>
            \A j \in 0 .. m : (Hash[x.key] + j) % n \in Taken(before)
    <2>1. SUFFICES ASSUME i \in Taken(s.bs), NEW j \in 0 .. m
                   PROVE  (Hash[x.key] + j) % n \in Taken(before)
      OBVIOUS
    <2>2. CASE j = m  BY <2>1, <2>2, <1>i, <1>o
    <2>3. CASE j # m  BY <2>3 DEF Probing
    <2>4. QED  BY <2>2, <2>3
  <1>2. b.dib < s.e.dib => Carrying(before, s, x)
    <2>1. SUFFICES ASSUME b.dib < s.e.dib, Searching(before, s, n, x, m)
                   PROVE  Carrying(before, s, x)
      BY DEF Probing
    <2>2. s.bs = before /\ s.e.key = x.key /\ s.e.val = x.val /\ s.e.dib = m + 1
      BY <2>1 DEF Searching
    <2>3. Absent(before, x.key)
      BY <2>1, <2>2, <1>b, <1>i, <1>k, NotBehind DEF Searching
    <2>4. QED  BY <2>2, <2>3 DEF Carrying
  <1>3. CASE i \notin Taken(s.bs)
    <2>1. t.bs = Replaced(s.bs, i, s.e) /\ t.done  BY <1>3, <1>t, ProbeCases
    <2>2. b.dib = 0 /\ b.dib < s.e.dib  BY <1>3, <1>d
    <2>3. Carrying(before, s, x)  BY <2>2, <1>2
    <2>4. Sound(t.bs, n)
      BY <2>1, <2>2, <2>3, <1>b, <1>o, <1>s, <1>d, ReplacedSound DEF Carrying
    <2>5. Content(t.bs) = Content(s.bs) \cup {<<s.e.key, s.e.val>>}
      BY <2>1, <1>3, <1>o, <1>s, ContentReplaced DEF Sound
    <2>6. Content(t.bs) = Other(before, x.key) \cup {<<x.key, x.val>>}
      BY <2>3, <2>5, AbsentContent DEF Carrying
    <2>7. Taken(t.bs) = Taken(before) \cup {i} /\ i \notin Taken(before)
      BY <2>1, <1>3, <1>o, <1>s, ReplacedIs
    <2>8. Placed(before, t.bs, n, x)  BY <2>3, <2>4, <2>6, <2>7 DEF Placed, Carrying
    <2>9. QED  BY <2>1, <2>8, <1>t, <1>i
  <1>4. CASE i \in Taken(s.bs) /\ b.key = s.e.key
    <2>0. b \in Entries  BY <1>4, <1>b, <1>s, MapSize
    <2>1. PICK c : c = [key |-> b.key, val |-> s.e.val, dib |-> b.dib]  OBVIOUS
    <2>2. t.bs = Replaced(s.bs, i, c) /\ t.done  BY <1>4, <1>t, <1>b, <2>1, ProbeCases
    <2>3. ~Absent(s.bs, s.e.key)  BY <1>4, <1>b DEF Absent
    <2>4. Searching(before, s, n, x, m)  BY <2>3 DEF Probing, Carrying
    <2>5. s.bs = before /\ s.e.key = x.key /\ s.e.val = x.val
      BY <2>4 DEF Searching
    <2>6. c \in Entries /\ c.key = x.key /\ c.val = x.val /\ c.dib = b.dib
      BY <2>0, <2>1, <2>5, <1>4, <1>k DEF Entries
    <2>7. Reached(s.bs, n, c, i)
      <3>1. Reached(s.bs, n, b, i)  BY <1>4, <1>b, <1>o DEF Sound, Ordered
      <3>2. c.key = b.key  BY <2>5, <2>6, <1>4
      <3>3. QED  BY <3>1, <3>2, <2>6 DEF Reached
    <2>8. Sound(t.bs, n)
      BY <2>2, <2>5, <2>6, <2>7, <1>4, <1>b, <1>o, <1>d, ReplacedSound
    <2>9. Content(t.bs) = Other(before, x.key) \cup {<<x.key, x.val>>}
      BY <2>2, <2>5, <2>6, <1>4, <1>b, <1>o, <1>s, ContentReplaced DEF Sound
    <2>10. Taken(t.bs) = Taken(before)
      <3>0. Taken(Replaced(s.bs, i, c)) = Taken(s.bs) \cup {i}  BY <2>6, <1>s, ReplacedIs
      <3>1. Taken(t.bs) = Taken(s.bs) \cup {i}  BY <3>0, <2>2
      <3>2. QED  BY <3>1, <1>4, <1>o
    <2>11. Placed(before, t.bs, n, x)
      BY <2>3, <2>5, <2>8, <2>9, <2>10 DEF Placed
    <2>12. QED  BY <2>2, <2>11, <1>t, <1>i
  <1>5. CASE i \in Taken(s.bs) /\ b.key # s.e.key /\ b.dib < s.e.dib
    <2>0. b \in Entries  BY <1>5, <1>b, <1>s, MapSize
    <2>1. t.bs = Replaced(s.bs, i, s.e) /\ t.e = Further(b) /\ ~t.done
      BY <1>5, <1>t, <1>b, ProbeCases
    <2>2. Carrying(before, s, x)  BY <1>5, <1>2
    <2>3. Sound(t.bs, n)
      BY <2>1, <2>2, <1>5, <1>b, <1>o, <1>s, <1>d, ReplacedSound DEF Carrying
    <2>4. Content(t.bs) = Other(s.bs, b.key) \cup {<<s.e.key, s.e.val>>}
      BY <2>1, <1>5, <1>b, <1>o, <1>s, ContentReplaced DEF Sound
    <2>5. <<b.key, b.val>> \in Content(s.bs)  BY <1>5, <1>b DEF Content
    <2>6. \A c \in Content(s.bs) : c[1] = b.key => c = <<b.key, b.val>>
      BY <1>5, <1>b, <1>o DEF Content, Sound, Distinct
    <2>7. Absent(t.bs, b.key)
      BY <2>4, <1>5, AbsentContent DEF Other
    <2>8. Content(t.bs) \cup {<<b.key, b.val>>} = Content(s.bs) \cup {<<s.e.key, s.e.val>>}
      BY <2>4, <2>5, <2>6 DEF Other
    <2>9. t.e.key = b.key /\ t.e.val = b.val  BY <2>1 DEF Further
    <2>10. Carrying(before, t, x)  BY <2>2, <2>7, <2>8, <2>9 DEF Carrying
    <2>11. Taken(t.bs) = Taken(before)
      <3>1. Taken(t.bs) = Taken(s.bs) \cup {i}  BY <2>1, <1>s, ReplacedIs
      <3>2. QED  BY <3>1, <1>5, <1>o
    <2>12. Reached(t.bs, n, t.e, (i + 1) % n)
      <3>1. Reached(s.bs, n, b, i)  BY <1>5, <1>b, <1>o DEF Sound, Ordered
      <3>2. t.bs \in Maps(n) /\ t.bs[i] = s.e
            /\ \A j \in 0 .. (n - 1) : j # i => t.bs[j] = s.bs[j]
        BY <2>1, <1>s, ReplacedIs, SMTT(30)
      <3>3. \A p \in 0 .. (n - 1) : s.bs[p].dib \in Nat
        BY <1>s DEF Maps, Entries, H!Empty
      <3>4. \A p \in 0 .. (n - 1) : s.bs[p].dib <= t.bs[p].dib
        BY <3>2, <3>3, <1>5, <1>b, <1>d
      <3>5. Reached(t.bs, n, b, i)  BY <3>1, <3>2, <3>4, <2>0, <1>s, ReachedKept
      <3>6. t.bs[i].dib >= b.dib  BY <3>2, <1>5, <1>d
      <3>7. QED  BY <3>2, <3>5, <3>6, <2>0, <2>1, ReachedNext
    <2>13. \A j \in 0 .. ((m + 1) - 1) : (Hash[x.key] + j) % n \in Taken(before)
      BY <1>1, <1>5
    <2>14. Probing(before, t, n, x, m + 1)
      BY <2>3, <2>10, <2>11, <2>12, <2>13, <1>n DEF Probing
    <2>15. QED  BY <2>1, <2>14, <1>t, <1>i
  <1>6. CASE i \in Taken(s.bs) /\ b.key # s.e.key /\ ~(b.dib < s.e.dib)
    <2>1. t.bs = s.bs /\ t.e = Further(s.e) /\ ~t.done
      BY <1>6, <1>t, <1>b, ProbeCases
    <2>2. Reached(t.bs, n, t.e, (i + 1) % n)
      BY <2>1, <1>6, <1>b, <1>o, <1>s, <1>d, ReachedNext
    <2>3. \A j \in 0 .. ((m + 1) - 1) : (Hash[x.key] + j) % n \in Taken(before)
      BY <1>1, <1>6
    <2>4. Searching(before, s, n, x, m) => Searching(before, t, n, x, m + 1)
      <3>1. SUFFICES ASSUME Searching(before, s, n, x, m)
                     PROVE  Searching(before, t, n, x, m + 1)
        OBVIOUS
      <3>2. s.bs = before /\ s.e = [key |-> x.key, val |-> x.val, dib |-> m + 1]
        BY <3>1 DEF Searching
      <3>3. t.e = [key |-> x.key, val |-> x.val, dib |-> (m + 1) + 1]
        BY <3>2, <2>1 DEF Further
      <3>4. ASSUME NEW j \in 0 .. ((m + 1) - 1)
            PROVE  before[(Hash[x.key] + j) % n].key # x.key
        <4>1. CASE j = m  BY <4>1, <3>2, <1>i, <1>b, <1>6
        <4>2. CASE j # m  BY <4>2, <3>1 DEF Searching
        <4>3. QED  BY <4>1, <4>2
      <3>5. QED  BY <3>2, <3>3, <3>4, <2>1 DEF Searching
    <2>5. Carrying(before, s, x) => Carrying(before, t, x)
      BY <2>1 DEF Carrying, Further
    <2>6. Probing(before, t, n, x, m + 1)
      BY <2>1, <2>2, <2>3, <2>4, <2>5, <1>n, <1>o DEF Probing
    <2>7. QED  BY <2>1, <2>6, <1>t, <1>i
  <1>7. QED  BY <1>3, <1>4, <1>5, <1>6

Full(bs, n) == \A i \in 0 .. (n - 1) : i \in Taken(bs)

(* The loop that places an entry does so, if a bucket is empty. *)
LEMMA PlaceWorks ==
    ASSUME NEW n \in Nat \ {0}, NEW before, Sound(before, n), ~Full(before, n),
           NEW x \in Entries, x.dib = 1
    PROVE  Placed(before, H!Place(before, x), n, x)
  <1>k. x.key \in Key /\ Hash[x.key] \in Nat  BY KeyStoreAssumption DEF Entries
  <1>1. PICK f : IsTrace(f, n, before, x) /\ H!Place(before, x) = f[n].bs
    BY PlaceTraced DEF Sound
  <1>2. f \in [0 .. n -> States(n)]  BY <1>1 DEF IsTrace
  <1> DEFINE Inv(m) == IF f[m].done THEN Placed(before, f[m].bs, n, x)
                                    ELSE Probing(before, f[m], n, x, m)
             S == {m \in 0 .. n : Inv(m)}
  <1>3. 0 \in S
    <2>1. f[0] = [bs |-> before, e |-> x, done |-> FALSE]  BY <1>1 DEF IsTrace
    <2>2. f[0].bs = before /\ f[0].e = x /\ ~f[0].done  BY <2>1
    <2>3. Reached(before, n, x, (Hash[x.key] + 0) % n)
      <3>1. x.dib - 1 = 0 /\ 0 .. (x.dib - 2) = {}  OBVIOUS
      <3>2. QED  BY <3>1 DEF Reached
    <2>4. x = [key |-> x.key, val |-> x.val, dib |-> 0 + 1]  BY DEF Entries
    <2>5. Probing(before, f[0], n, x, 0)
      BY <2>2, <2>3, <2>4 DEF Probing, Searching
    <2>6. QED  BY <2>2, <2>5
  <1>4. ASSUME NEW m \in 0 .. (n - 1), m \in S PROVE m + 1 \in S
    <2>1. PICK s \in States(n) : s = f[m]  BY <1>2
    <2>2. PICK t : t = f[m + 1]  OBVIOUS
    <2>3. PICK i \in 0 .. (n - 1) : i = (Hash[x.key] + m) % n
      BY <1>k, BucketsInside DEF Sound
    <2>4. t = H!Probe(s, i)  BY <1>1, <2>1, <2>2, <2>3 DEF IsTrace
    <2>5. CASE s.done
      <3>1. t = s  BY <2>4, <2>5, ProbeCases
      <3>2. Inv(m + 1)  BY <3>1, <2>1, <2>2, <2>5, <1>4
      <3>3. QED  BY <3>2
    <2>6. CASE ~s.done
      <3>1. Probing(before, s, n, x, m)  BY <1>4, <2>1, <2>6
      <3>2. IF t.done THEN Placed(before, t.bs, n, x) ELSE Probing(before, t, n, x, m + 1)
        BY <3>1, <2>3, <2>4, <2>6, PlaceStep
      <3>3. Inv(m + 1)  BY <3>2, <2>2
      <3>4. QED  BY <3>3
    <2>7. QED  BY <2>5, <2>6
  <1>5. Inv(n)
    <2> HIDE DEF S
    <2>1. \A m \in 0 .. (n - 1) : m \in S => m + 1 \in S  BY <1>4
    <2>2. 0 .. n \subseteq S  BY <1>3, <2>1, Induction
    <2>3. n \in S  BY <2>2
    <2>4. QED  BY <2>3 DEF S
  <1>6. ~Probing(before, f[n], n, x, n)
    <2>1. SUFFICES ASSUME Probing(before, f[n], n, x, n), NEW i \in 0 .. (n - 1)
                   PROVE  i \in Taken(before)
      BY DEF Full
    <2>2. PICK j \in 0 .. (n - 1) : (Hash[x.key] + j) % n = i
      <3>1. Hash[x.key] \in Int  BY <1>k
      <3>2. QED  BY <3>1, ModReach
    <2>3. QED  BY <2>1, <2>2 DEF Probing
  <1>7. QED  BY <1>1, <1>5, <1>6

(* The probing loops end, and find a key if and only if it is there. *)
LEMMA LookupWorks ==
    ASSUME NEW n \in Nat \ {0}, NEW bs, Sound(bs, n), ~Full(bs, n), NEW k \in Key
    PROVE  /\ H!Stops(bs, k) # {}
           /\ Absent(bs, k) => H!Lookup(bs, k) = None
           /\ \A i \in Taken(bs) : bs[i].key = k =>
                H!Lookup(bs, k) = bs[i].val /\ H!Find(bs, k) = i
  <1>k. Hash[k] \in Int  BY KeyStoreAssumption
  <1>t. bs \in Maps(n) /\ H!NBuckets(bs) = n  BY MapSize DEF Sound
  <1>1. \A s : s \in H!Stops(bs, k) <=>
            /\ s \in 0 .. (n - 1)
            /\ (Hash[k] + s) % n \in Taken(bs) => bs[(Hash[k] + s) % n].key = k
    <2>1. ASSUME NEW s \in 0 .. (n - 1)
          PROVE  (Hash[k] + s) % n \in Taken(bs) <=> H!Occupied(bs[(Hash[k] + s) % n])
      <3>1. PICK p \in 0 .. (n - 1) : p = (Hash[k] + s) % n  BY <1>t, BucketsInside
      <3>2. QED  BY <3>1, <1>t, MapSize DEF H!Occupied
    <2>2. QED  BY <2>1, <1>t DEF H!Stops
  <1>2. H!Stops(bs, k) # {}
    <2>1. PICK i \in 0 .. (n - 1) : i \notin Taken(bs)  BY DEF Full
    <2>2. PICK s \in 0 .. (n - 1) : (Hash[k] + s) % n = i  BY <1>k, ModReach
    <2>3. s \in H!Stops(bs, k)  BY <2>1, <2>2, <1>1
    <2>4. QED  BY <2>3
  <1>3. PICK s : s = H!First(H!Stops(bs, k))  OBVIOUS
  <1>4. s \in H!Stops(bs, k) /\ \A r \in H!Stops(bs, k) : s <= r
    <2>1. H!Stops(bs, k) \in SUBSET Nat  BY <1>1
    <2>2. \E x \in H!Stops(bs, k) : \A r \in H!Stops(bs, k) : x <= r
      BY <2>1, <1>2, LeastNumber
    <2>3. QED  BY <2>2, <1>3 DEF H!First
  <1>5. s \in 0 .. (n - 1)  BY <1>1, <1>4
  <1>6. PICK p \in 0 .. (n - 1) : p = (Hash[k] + s) % n  BY <1>t, <1>5, BucketsInside
  <1>7. H!Lookup(bs, k) = bs[p].val /\ H!Find(bs, k) = p
    BY <1>2, <1>3, <1>5, <1>6, <1>t, BucketsInside DEF H!Lookup, H!Find
  <1>8. p \in Taken(bs) => bs[p].key = k  BY <1>1, <1>4, <1>6
  <1>9. p \notin Taken(bs) => Absent(bs, k) /\ bs[p].val = None
    <2>1. SUFFICES ASSUME p \notin Taken(bs) PROVE Absent(bs, k) /\ bs[p].val = None
      OBVIOUS
    <2>2. bs[p] = H!Empty  BY <2>1, <1>t, MapSize
    <2>3. bs[p].val = None /\ bs[p].dib = 0  BY <2>2 DEF H!Empty
    <2>4. ASSUME NEW j \in 0 .. (s - 1) PROVE bs[(Hash[k] + j) % n].key # k
      <3>1. j \in 0 .. (n - 1) /\ ~(s <= j)  BY <1>5
      <3>2. j \notin H!Stops(bs, k)  BY <3>1, <1>4
      <3>3. QED  BY <3>1, <3>2, <1>1
    <2>5. s \in Nat /\ bs[(Hash[k] + s) % n].dib < s + 1  BY <2>3, <1>5, <1>6
    <2>6. QED  BY <2>3, <2>4, <2>5, NotBehind
  <1>10. Absent(bs, k) => H!Lookup(bs, k) = None
    BY <1>7, <1>8, <1>9 DEF Absent
  <1>11. ASSUME NEW i \in Taken(bs), bs[i].key = k PROVE p = i
    <2>1. p \in Taken(bs)  BY <1>9, <1>11 DEF Absent
    <2>2. QED  BY <2>1, <1>8, <1>11 DEF Sound, Distinct
  <1>12. QED  BY <1>2, <1>7, <1>10, <1>11

(* What hashmap_get returns, in terms of the entries. *)
LEMMA LookupContent ==
    ASSUME NEW n \in Nat \ {0}, NEW bs, Sound(bs, n), ~Full(bs, n), NEW k \in Key
    PROVE  /\ H!Lookup(bs, k) = None <=> Absent(bs, k)
           /\ \A v \in Desc : H!Lookup(bs, k) = v <=> <<k, v>> \in Content(bs)
           /\ H!Lookup(bs, k) \in Desc \cup {None}
  <1>1. None \notin Desc  BY KeyStoreAssumption DEF Desc
  <1>2. CASE Absent(bs, k)
    <2>1. H!Lookup(bs, k) = None  BY <1>2, LookupWorks
    <2>2. \A c \in Content(bs) : c[1] # k  BY <1>2, AbsentContent
    <2>3. \A v \in Desc : <<k, v>> \notin Content(bs)  BY <2>2
    <2>4. QED  BY <2>1, <2>3, <1>1, <1>2
  <1>3. CASE ~Absent(bs, k)
    <2>1. PICK i \in Taken(bs) : bs[i].key = k  BY <1>3 DEF Absent
    <2>2. H!Lookup(bs, k) = bs[i].val  BY <2>1, LookupWorks
    <2>3. bs[i].val \in Desc  BY MapSize DEF Sound, Entries
    <2>4. <<k, bs[i].val>> \in Content(bs)  BY <2>1 DEF Content
    <2>5. ASSUME NEW v \in Desc, <<k, v>> \in Content(bs) PROVE v = bs[i].val
      <3>1. PICK j \in Taken(bs) : <<k, v>> = <<bs[j].key, bs[j].val>>
        BY <2>5 DEF Content
      <3>2. j = i  BY <3>1, <2>1 DEF Sound, Distinct
      <3>3. QED  BY <3>1, <3>2
    <2>6. QED  BY <2>2, <2>3, <2>4, <2>5, <1>1, <1>3
  <1>4. QED  BY <1>2, <1>3

-----------------------------------------------------------------------------
(* The backward shift                                                      *)

(* An entry's condition, seen from its bucket backwards. *)
LEMMA Backwards ==
    ASSUME NEW n \in Nat \ {0}, NEW bs \in Maps(n), NEW x \in Entries,
           NEW a \in Int
    PROVE  Reached(bs, n, x, a % n) <=>
              /\ (Hash[x.key] + (x.dib - 1)) % n = a % n
              /\ \A r \in 1 .. (x.dib - 1) : bs[(a - r) % n].dib >= x.dib - r
  <1>k. x.key \in Key /\ x.dib \in Nat \ {0} /\ Hash[x.key] \in Int
    BY KeyStoreAssumption DEF Entries
  <1>1. SUFFICES ASSUME (Hash[x.key] + (x.dib - 1)) % n = a % n
                 PROVE  (\A s \in 0 .. (x.dib - 2) : bs[(Hash[x.key] + s) % n].dib > s)
                         <=> (\A r \in 1 .. (x.dib - 1) : bs[(a - r) % n].dib >= x.dib - r)
    BY DEF Reached
  <1>2. ASSUME NEW r \in Int
        PROVE  (Hash[x.key] + ((x.dib - 1) - r)) % n = (a - r) % n
    <2>1. PICK h \in Int : h = Hash[x.key] + (x.dib - 1)  BY <1>k
    <2>2. PICK c \in Int : c = -r  OBVIOUS
    <2>3. h % n = a % n  BY <2>1, <1>1
    <2>4. (h + c) % n = (a + c) % n  BY <2>3, ModShift
    <2>5. h + c = Hash[x.key] + ((x.dib - 1) - r) /\ a + c = a - r
      BY <2>1, <2>2, <1>k
    <2>6. QED  BY <2>4, <2>5
  <1>3. \A p \in 0 .. (n - 1) : bs[p].dib \in Nat  BY DEF Maps, Entries, H!Empty
  <1>4. ASSUME NEW r \in Int PROVE bs[(a - r) % n].dib \in Nat
    <2>1. a - r \in Int  OBVIOUS
    <2>2. (a - r) % n \in 0 .. (n - 1)  BY <2>1, ModDef
    <2>3. QED  BY <2>2, <1>3
  <1>5. ASSUME \A s \in 0 .. (x.dib - 2) : bs[(Hash[x.key] + s) % n].dib > s,
               NEW r \in 1 .. (x.dib - 1)
        PROVE  bs[(a - r) % n].dib >= x.dib - r
    <2>1. PICK s \in 0 .. (x.dib - 2) : s = (x.dib - 1) - r  BY <1>k
    <2>2. bs[(a - r) % n].dib > s  BY <2>1, <1>2, <1>5
    <2>3. QED  BY <2>1, <2>2, <1>4, <1>k
  <1>6. ASSUME \A r \in 1 .. (x.dib - 1) : bs[(a - r) % n].dib >= x.dib - r,
               NEW s \in 0 .. (x.dib - 2)
        PROVE  bs[(Hash[x.key] + s) % n].dib > s
    <2>1. PICK r \in 1 .. (x.dib - 1) : r = (x.dib - 1) - s  BY <1>k
    <2>2. bs[(a - r) % n].dib >= x.dib - r  BY <1>6
    <2>3. (x.dib - 1) - r = s  BY <2>1, <1>k
    <2>4. (Hash[x.key] + s) % n = (a - r) % n  BY <2>3, <1>2
    <2>5. QED  BY <2>1, <2>2, <2>4, <1>4, <1>k
  <1>7. QED  BY <1>5, <1>6

(* No entry has gone round the map. *)
LEMMA DibBound ==
    ASSUME NEW n \in Nat \ {0}, NEW bs, Sound(bs, n), ~Full(bs, n), NEW i \in Taken(bs)
    PROVE  bs[i].dib \in 1 .. n
  <1>1. bs[i] \in Entries /\ bs \in Maps(n)  BY MapSize DEF Sound
  <1>2. bs[i].key \in Key /\ bs[i].dib \in Nat \ {0} /\ Hash[bs[i].key] \in Int
    BY <1>1, KeyStoreAssumption DEF Entries
  <1>3. SUFFICES ASSUME bs[i].dib > n, NEW j \in 0 .. (n - 1) PROVE j \in Taken(bs)
    BY <1>2 DEF Full
  <1>4. PICK s \in 0 .. (n - 1) : (Hash[bs[i].key] + s) % n = j  BY <1>2, ModReach
  <1>5. s \in 0 .. (bs[i].dib - 2)  BY <1>2, <1>3
  <1>6. bs[j].dib > s  BY <1>4, <1>5 DEF Sound, Ordered, Reached
  <1>7. bs[j].dib \in Nat  BY <1>1 DEF Maps, Entries, H!Empty
  <1>8. bs[j].dib > 0  BY <1>6, <1>7
  <1>9. QED  BY <1>8, <1>1, MapSize

(* Bucket i is emptied and the q entries behind it move back: what Shifted *)
(* yields, from i on.                                                      *)
IsShift(bs, cs, n, i, q) ==
    /\ i \in Taken(bs) /\ q \in 0 .. (n - 2)
    /\ cs \in [0 .. (n - 1) -> Entries \cup {H!Empty}]
    /\ \A m \in 1 .. q : bs[(i + m) % n].dib > 1
    /\ ~(bs[(i + (q + 1)) % n].dib > 1)
    /\ \A m \in 0 .. (q - 1) :
          LET b == bs[(i + (m + 1)) % n] IN
          cs[(i + m) % n] = [key |-> b.key, val |-> b.val, dib |-> b.dib - 1]
    /\ cs[(i + q) % n] = H!Empty
    /\ \A m \in (q + 1) .. (n - 1) : cs[(i + m) % n] = bs[(i + m) % n]

(* hashmap_delete moves back the q entries behind bucket i and no more. *)
LEMMA ShiftedIs ==
    ASSUME NEW n \in Nat \ {0}, NEW bs, Sound(bs, n), ~Full(bs, n), NEW i \in Taken(bs)
    PROVE  \E q : IsShift(bs, H!Shifted(bs, i), n, i, q)
  <1>t. bs \in Maps(n) /\ DOMAIN bs = 0 .. (n - 1) /\ H!NBuckets(bs) = n /\ i \in 0 .. (n - 1)
    BY MapSize DEF Sound
  <1> DEFINE Ends == {m \in 1 .. (n - 1) : ~(bs[(i + m) % n].dib > 1)}
             moving == {m \in 1 .. (n - 1) : \A l \in 1 .. m : bs[(i + l) % n].dib > 1}
  <1>1. Ends # {}
    <2>1. PICK j \in 0 .. (n - 1) : j \notin Taken(bs)  BY DEF Full
    <2>2. PICK r \in 0 .. (n - 1) : (i + r) % n = j
      <3>1. i \in Int  BY <1>t
      <3>2. QED  BY <3>1, ModReach
    <2>3. r # 0
      <3>1. i + 0 = i /\ i % n = i  BY <1>t, ModSmall
      <3>2. QED  BY <3>1, <2>1, <2>2
    <2>4. bs[j] = H!Empty  BY <2>1, <1>t, MapSize
    <2>5. ~(bs[(i + r) % n].dib > 1)  BY <2>2, <2>4 DEF H!Empty
    <2>6. r \in Ends  BY <2>3, <2>5
    <2>7. QED  BY <2>6
  <1>2. Ends \in SUBSET Nat  OBVIOUS
  <1>3. PICK e \in Ends : \A m \in Ends : e <= m  BY <1>1, <1>2, LeastNumber
  <1>4. PICK q \in 0 .. (n - 2) : e = q + 1  BY <1>3
  <1>5. \A m \in 1 .. q : bs[(i + m) % n].dib > 1
    <2>1. ASSUME NEW m \in 1 .. q PROVE m \in 1 .. (n - 1) /\ ~(e <= m)  BY <1>4
    <2>2. QED  BY <2>1, <1>3
  <1>6. ~(bs[(i + (q + 1)) % n].dib > 1)  BY <1>3, <1>4
  <1>7. moving = 1 .. q
    <2>1. ASSUME NEW m \in moving PROVE m \in 1 .. q
      <3>1. m \in 1 .. (n - 1) /\ \A l \in 1 .. m : bs[(i + l) % n].dib > 1  OBVIOUS
      <3>2. ~(q + 1 <= m)  BY <3>1, <1>6
      <3>3. QED  BY <3>1, <3>2
    <2>2. ASSUME NEW m \in 1 .. q PROVE m \in moving
      <3>1. m \in 1 .. (n - 1) /\ 1 .. m \subseteq 1 .. q  OBVIOUS
      <3>2. QED  BY <3>1, <1>5
    <2>3. QED  BY <2>1, <2>2
  <1>8. H!Cardinality(moving) = q
    <2>1. Cardinality(1 .. q) = q  BY FS_Interval
    <2>2. QED  BY <2>1, <1>7, SameCardinality
  <1>10. PICK cs : cs = H!Shifted(bs, i)  OBVIOUS
  <1>9. /\ cs = [j \in 0 .. (n - 1) |-> cs[j]]
        /\ \A j \in 0 .. (n - 1) :
            /\ (j - i) % n < q => cs[j] = [bs[(j + 1) % n] EXCEPT !.dib = @ - 1]
            /\ (j - i) % n = q => cs[j] = H!Empty
            /\ (j - i) % n > q => cs[j] = bs[j]
    <2> DEFINE N == H!NBuckets(bs)
               mv == {m \in 1 .. (N - 1) : \A l \in 1 .. m : bs[(i + l) % N].dib > 1}
               last == H!Cardinality(mv)
               G(j) == CASE (j - i) % N < last -> [bs[(j + 1) % N] EXCEPT !.dib = @ - 1]
                         [] (j - i) % N = last -> H!Empty
                         [] (j - i) % N > last -> bs[j]
    <2>g. cs = [j \in DOMAIN bs |-> G(j)]
      BY <1>10 DEF H!Shifted
    <2>f. cs = [j \in DOMAIN bs |-> cs[j]]
      <3> HIDE DEF G
      <3>1. QED  BY <2>g
    <2>1. cs = [j \in DOMAIN bs |->
            CASE (j - i) % N < last -> [bs[(j + 1) % N] EXCEPT !.dib = @ - 1]
              [] (j - i) % N = last -> H!Empty
              [] (j - i) % N > last -> bs[j]]
      BY <2>g
    <2>2. N = n  BY <1>t
    <2>3. mv = moving  BY <2>2
    <2>4. last = q  BY <2>3, <1>8
    <2> HIDE DEF N, mv, last
    <2>5. ASSUME NEW j \in 0 .. (n - 1)
          PROVE  /\ (j - i) % n < q => cs[j] = [bs[(j + 1) % n] EXCEPT !.dib = @ - 1]
                 /\ (j - i) % n = q => cs[j] = H!Empty
                 /\ (j - i) % n > q => cs[j] = bs[j]
      <3>1. PICK d \in 0 .. (n - 1) : d = (j - i) % n
        <4>1. j - i \in Int  BY <1>t
        <4>2. QED  BY <4>1, ModDef
      <3>2. cs[j] = CASE d < q -> [bs[(j + 1) % n] EXCEPT !.dib = @ - 1]
                      [] d = q -> H!Empty
                      [] d > q -> bs[j]
        BY <2>1, <2>2, <2>4, <3>1, <1>t
      <3>3. QED  BY <3>1, <3>2
    <2>6. QED  BY <2>5, <2>f, <1>t
  <1> HIDE DEF Ends, moving
  <1>11. ASSUME NEW m \in 0 .. (n - 1)
         PROVE  /\ (i + m) % n \in 0 .. (n - 1)
                /\ (((i + m) % n) - i) % n = m
                /\ (((i + m) % n) + 1) % n = (i + (m + 1)) % n
    <2>1. PICK h \in Int : h = i + m  BY <1>t
    <2>2. PICK j \in 0 .. (n - 1) : j = h % n  BY ModDef
    <2>3. j % n = h % n /\ j \in Int  BY <2>2, ModSmall
    <2>4. (j + (-i)) % n = (h + (-i)) % n /\ (j + 1) % n = (h + 1) % n
      <3>1. -i \in Int /\ 1 \in Int  BY <1>t
      <3>2. QED  BY <3>1, <2>3, ModShift
    <2>5. j + (-i) = j - i /\ h + (-i) = m /\ h + 1 = i + (m + 1)  BY <2>1, <1>t
    <2>6. m % n = m  BY ModSmall
    <2>7. QED  BY <2>1, <2>2, <2>4, <2>5, <2>6
  <1>12. ASSUME NEW m \in 0 .. (q - 1)
         PROVE  LET b == bs[(i + (m + 1)) % n] IN
                cs[(i + m) % n] = [key |-> b.key, val |-> b.val, dib |-> b.dib - 1]
    <2>1. PICK p \in 0 .. (n - 1) : p = (i + m) % n  BY <1>11
    <2>2. PICK b : b = bs[(i + (m + 1)) % n]  OBVIOUS
    <2>3. (p - i) % n = m /\ (p + 1) % n = (i + (m + 1)) % n  BY <2>1, <1>11
    <2>4. cs[p] = [b EXCEPT !.dib = @ - 1]  BY <2>2, <2>3, <1>9, <1>10
    <2>5. b \in Entries
      <3>1. m + 1 \in 1 .. q /\ m + 1 \in 0 .. (n - 1)  OBVIOUS
      <3>2. b.dib > 1  BY <3>1, <2>2, <1>5
      <3>3. (i + (m + 1)) % n \in 0 .. (n - 1)  BY <3>1, <1>11
      <3>4. b \in Entries \cup {H!Empty}  BY <3>3, <2>2, <1>t DEF Maps
      <3>5. b # H!Empty  BY <3>2 DEF H!Empty
      <3>6. QED  BY <3>4, <3>5
    <2>6. cs[p] = [key |-> b.key, val |-> b.val, dib |-> b.dib - 1]
      BY <2>4, <2>5 DEF Entries
    <2>7. QED  BY <2>1, <2>2, <2>6
  <1>13. cs[(i + q) % n] = H!Empty
    <2>1. PICK p \in 0 .. (n - 1) : p = (i + q) % n  BY <1>11
    <2>2. (p - i) % n = q  BY <2>1, <1>11
    <2>3. cs[p] = H!Empty  BY <2>2, <1>9, <1>10
    <2>4. QED  BY <2>1, <2>3
  <1>14. ASSUME NEW m \in (q + 1) .. (n - 1) PROVE cs[(i + m) % n] = bs[(i + m) % n]
    <2>1. PICK p \in 0 .. (n - 1) : p = (i + m) % n  BY <1>11
    <2>2. (p - i) % n = m  BY <2>1, <1>11
    <2>3. cs[p] = bs[p]  BY <2>2, <1>9, <1>10
    <2>4. QED  BY <2>1, <2>3
  <1>15. cs \in [0 .. (n - 1) -> Entries \cup {H!Empty}]
    <2>1. ASSUME NEW j \in 0 .. (n - 1) PROVE cs[j] \in Entries \cup {H!Empty}
      <3>1. PICK m \in 0 .. (n - 1) : (i + m) % n = j
        <4>1. i \in Int  BY <1>t
        <4>2. QED  BY <4>1, ModReach
      <3>2. CASE m < q
        <4>1. m \in 0 .. (q - 1) /\ m + 1 \in 1 .. q /\ m + 1 \in 0 .. (n - 1)  BY <3>2
        <4>2. PICK b : b = bs[(i + (m + 1)) % n]  OBVIOUS
        <4>3. b.dib > 1 /\ b \in Entries \cup {H!Empty}
          BY <4>1, <4>2, <1>5, <1>11, <1>t DEF Maps
        <4>4. cs[j] = [key |-> b.key, val |-> b.val, dib |-> b.dib - 1]
          BY <4>1, <4>2, <3>1, <1>12
        <4>5. QED  BY <4>3, <4>4 DEF Entries, H!Empty
      <3>3. CASE m = q  BY <3>1, <3>3, <1>13
      <3>4. CASE m > q
        <4>1. m \in (q + 1) .. (n - 1)  BY <3>4
        <4>2. QED  BY <4>1, <3>1, <1>14, <1>t DEF Maps
      <3>5. QED  BY <3>2, <3>3, <3>4
    <2>2. QED  BY <2>1, <1>9, <1>10
  <1>16. IsShift(bs, cs, n, i, q)
    BY <1>5, <1>6, <1>12, <1>13, <1>14, <1>15 DEF IsShift
  <1>17. QED  BY <1>10, <1>16

(* The bucket an entry of the shifted map came from. *)
LEMMA ShiftSource ==
    ASSUME NEW n \in Nat \ {0}, NEW bs, Sound(bs, n), ~Full(bs, n),
           NEW cs, NEW i, NEW q, IsShift(bs, cs, n, i, q)
    PROVE  /\ cs \in Maps(n)
           /\ \A m \in 0 .. (n - 1) : m # q =>
                LET a == IF m < q THEN m + 1 ELSE m
                    x == bs[(i + a) % n]
                    y == cs[(i + m) % n] IN
                /\ a \in 1 .. (n - 1)
                /\ (i + m) % n \in Taken(cs) <=> (i + a) % n \in Taken(bs)
                /\ y.key = x.key /\ y.val = x.val
                /\ (i + m) % n \in Taken(cs) => y \in Entries /\ x \in Entries
                /\ m < q => y.dib = x.dib - 1 /\ x.dib > 1
                /\ m > q => y = x
           /\ (i + q) % n \notin Taken(cs)
  <1>t. /\ bs \in Maps(n) /\ i \in 0 .. (n - 1) /\ cs \in Maps(n)
        /\ q \in 0 .. (n - 2)
    BY MapSize DEF Sound, IsShift, Maps
  <1>p. ASSUME NEW m \in Int PROVE (i + m) % n \in 0 .. (n - 1)
    <2>1. i + m \in Int  BY <1>t
    <2>2. QED  BY <2>1, ModDef
  <1>1. (i + q) % n \notin Taken(cs)
    <2>1. PICK r \in 0 .. (n - 1) : r = (i + q) % n
      <3>1. q \in Int  BY <1>t
      <3>2. QED  BY <3>1, <1>p
    <2>2. cs[r] = H!Empty  BY <2>1 DEF IsShift
    <2>3. r \notin Taken(cs)  BY <2>2, MapSize, <1>t DEF H!Empty, Taken, H!Occupied
    <2>4. QED  BY <2>1, <2>3
  <1>2. ASSUME NEW m \in 0 .. (q - 1)
        PROVE  LET x == bs[(i + (m + 1)) % n]
                   y == cs[(i + m) % n] IN
               /\ m + 1 \in 1 .. (n - 1)
               /\ (i + m) % n \in Taken(cs) /\ (i + (m + 1)) % n \in Taken(bs)
               /\ y.key = x.key /\ y.val = x.val /\ y.dib = x.dib - 1 /\ x.dib > 1
               /\ x \in Entries /\ y \in Entries
    <2>1. PICK p \in 0 .. (n - 1) : p = (i + m) % n  BY <1>p
    <2>2. PICK r \in 0 .. (n - 1) : r = (i + (m + 1)) % n
      <3>1. m + 1 \in Int  BY <1>t
      <3>2. QED  BY <3>1, <1>p
    <2>3. m + 1 \in 1 .. q /\ m + 1 \in 1 .. (n - 1)  BY <1>t
    <2>4. bs[r].dib > 1 /\ bs[r] \in Entries \cup {H!Empty}
      BY <2>2, <2>3, <1>t DEF IsShift, Maps
    <2>5. bs[r] \in Entries  BY <2>4 DEF H!Empty
    <2>6. cs[p] = [key |-> bs[r].key, val |-> bs[r].val, dib |-> bs[r].dib - 1]
      BY <2>1, <2>2 DEF IsShift
    <2>7. cs[p] \in Entries /\ cs[p].dib > 0  BY <2>4, <2>5, <2>6 DEF Entries
    <2>8. p \in Taken(cs) /\ r \in Taken(bs)
      <3>1. bs[r].dib > 0  BY <2>4, <2>5 DEF Entries
      <3>2. p \in Taken(cs)  BY <2>7, <1>t, MapSize
      <3>3. r \in Taken(bs)  BY <3>1, <1>t, MapSize
      <3>4. QED  BY <3>2, <3>3
    <2>9. QED  BY <2>1, <2>2, <2>3, <2>4, <2>5, <2>6, <2>7, <2>8
  <1>3. ASSUME NEW m \in (q + 1) .. (n - 1)
        PROVE  /\ m \in 1 .. (n - 1) /\ cs[(i + m) % n] = bs[(i + m) % n]
               /\ (i + m) % n \in Taken(cs) <=> (i + m) % n \in Taken(bs)
               /\ (i + m) % n \in Taken(bs) => bs[(i + m) % n] \in Entries
    <2>0. m \in Int /\ m \in 1 .. (n - 1)  BY <1>t
    <2>1. PICK p \in 0 .. (n - 1) : p = (i + m) % n  BY <2>0, <1>p
    <2>2. cs[p] = bs[p]  BY <2>1 DEF IsShift
    <2>3. p \in Taken(cs) <=> p \in Taken(bs)  BY <2>2, <1>t, MapSize
    <2>4. p \in Taken(bs) => bs[p] \in Entries  BY <1>t, MapSize
    <2>5. QED  BY <2>0, <2>1, <2>2, <2>3, <2>4
  <1>4. ASSUME NEW m \in 0 .. (n - 1), m # q
        PROVE  LET a == IF m < q THEN m + 1 ELSE m
                   x == bs[(i + a) % n]
                   y == cs[(i + m) % n] IN
               /\ a \in 1 .. (n - 1)
               /\ (i + m) % n \in Taken(cs) <=> (i + a) % n \in Taken(bs)
               /\ y.key = x.key /\ y.val = x.val
               /\ (i + m) % n \in Taken(cs) => y \in Entries /\ x \in Entries
               /\ m < q => y.dib = x.dib - 1 /\ x.dib > 1
               /\ m > q => y = x
    <2>1. CASE m < q
      <3>1. m \in 0 .. (q - 1)  BY <2>1, <1>t
      <3>2. QED  BY <3>1, <2>1, <1>2, <1>t
    <2>2. CASE m > q
      <3>1. m \in (q + 1) .. (n - 1)  BY <2>2, <1>t
      <3>2. QED  BY <3>1, <2>2, <1>3, <1>t
    <2>3. QED  BY <2>1, <2>2, <1>4, <1>t
  <1>5. QED  BY <1>t, <1>1, <1>4

(* Every bucket, counted from i. *)
LEMMA Offset ==
    ASSUME NEW n \in Nat \ {0}, NEW i \in 0 .. (n - 1)
    PROVE  /\ \A m \in Int : (i + m) % n \in 0 .. (n - 1)
           /\ \A j \in 0 .. (n - 1) : \E m \in 0 .. (n - 1) : (i + m) % n = j
           /\ \A m, l \in 0 .. (n - 1) : (i + m) % n = (i + l) % n => m = l
           /\ \A m \in Int : (i + m) % n = (i + (m + n)) % n
           /\ (i + 0) % n = i
  <1>1. ASSUME NEW m \in Int PROVE (i + m) % n \in 0 .. (n - 1) /\ (i + m) % n = (i + (m + n)) % n
    <2>1. PICK h \in Int : h = i + m  OBVIOUS
    <2>2. h % n \in 0 .. (n - 1) /\ (h + n) % n = h % n  BY ModDef, ModWrap
    <2>3. h + n = i + (m + n)  BY <2>1
    <2>4. QED  BY <2>1, <2>2, <2>3
  <1>2. \A j \in 0 .. (n - 1) : \E m \in 0 .. (n - 1) : (i + m) % n = j
    <2>1. i \in Int  OBVIOUS
    <2>2. QED  BY <2>1, ModReach
  <1>3. ASSUME NEW m \in 0 .. (n - 1), NEW l \in 0 .. (n - 1), (i + m) % n = (i + l) % n
        PROVE  m = l
    <2>1. m \in Int /\ l \in Int /\ i \in Int /\ m - l \in (1 - n) .. (n - 1)  OBVIOUS
    <2>2. QED  BY <2>1, <1>3, ModSame
  <1>4. i + 0 = i /\ i % n = i  BY ModSmall
  <1>5. QED  BY <1>1, <1>2, <1>3, <1>4

(* The backward shift keeps the order: what moves is one nearer to its     *)
(* bucket, and so is what it must not be nearer than.                      *)
LEMMA ShiftOrdered ==
    ASSUME NEW n \in Nat \ {0}, NEW bs, Sound(bs, n), ~Full(bs, n),
           NEW cs, NEW i, NEW q, IsShift(bs, cs, n, i, q)
    PROVE  Ordered(cs, n)
  <1>t. /\ bs \in Maps(n) /\ i \in 0 .. (n - 1) /\ cs \in Maps(n)
        /\ q \in 0 .. (n - 2) /\ Taken(bs) \subseteq 0 .. (n - 1)
        /\ Taken(cs) \subseteq 0 .. (n - 1)
    BY MapSize DEF Sound, IsShift, Maps
  <1> DEFINE P(m) == (i + m) % n
             Was(m) == bs[P(m)].dib
             Now(m) == cs[P(m)].dib
  <1>1. ASSUME NEW m \in Int
        PROVE  /\ P(m) \in 0 .. (n - 1) /\ P(m) = P(m + n)
               /\ Was(m) \in Nat /\ Now(m) \in Nat
               /\ Was(m) = Was(m + n) /\ Now(m) = Now(m + n)
    <2>0. i \in 0 .. (n - 1)  BY <1>t
    <2>a. (i + m) % n \in 0 .. (n - 1)  BY <2>0, Offset
    <2>b. (i + m) % n = (i + (m + n)) % n
      <3>1. PICK h \in Int : h = i + m  BY <2>0
      <3>2. (h + n) % n = h % n  BY ModWrap
      <3>3. h + n = i + (m + n)  BY <3>1, <2>0
      <3>4. QED  BY <3>1, <3>2, <3>3
    <2>1. P(m) \in 0 .. (n - 1) /\ P(m) = P(m + n)  BY <2>a, <2>b
    <2>2. Was(m) \in Nat /\ Now(m) \in Nat  BY <2>1, <1>t, SMTT(30) DEF Maps, Entries, H!Empty
    <2>3. QED  BY <2>1, <2>2
  <1>2. Was(q + 1) <= 1
    <2>1. ~(Was(q + 1) > 1)  BY DEF IsShift
    <2>2. q + 1 \in Int  BY <1>t
    <2>3. QED  BY <2>1, <2>2, <1>1
  <1>3. ASSUME NEW a \in 0 .. (n - 1), P(a) \in Taken(bs)
        PROVE  LET x == bs[P(a)] IN
               /\ x \in Entries /\ x.dib \in 1 .. n
               /\ (Hash[x.key] + (x.dib - 1)) % n = P(a)
               /\ \A r \in 1 .. (x.dib - 1) : Was(a - r) >= x.dib - r
    <2>1. PICK x : x = bs[P(a)]  OBVIOUS
    <2>2. x \in Entries /\ x.dib \in 1 .. n  BY <2>1, <1>3, <1>t, MapSize, DibBound
    <2>3. Reached(bs, n, x, P(a))  BY <2>1, <1>3 DEF Sound, Ordered
    <2>4. PICK h \in Int : h = i + a  BY <1>t
    <2>5. Reached(bs, n, x, h % n)  BY <2>3, <2>4
    <2>6. /\ (Hash[x.key] + (x.dib - 1)) % n = h % n
          /\ \A r \in 1 .. (x.dib - 1) : bs[(h - r) % n].dib >= x.dib - r
      BY <2>2, <2>5, <1>t, Backwards
    <2>7. \A r \in 1 .. (x.dib - 1) : h - r = i + (a - r)  BY <2>2, <2>4, <1>t
    <2>8. QED  BY <2>1, <2>2, <2>4, <2>6, <2>7
  <1>4. ASSUME NEW m \in 0 .. (n - 1), m < q, P(m) \in Taken(cs)
        PROVE  Reached(cs, n, cs[P(m)], P(m))
    <2>1. PICK x : x = bs[P(m + 1)]  OBVIOUS
    <2>2. PICK y : y = cs[P(m)]  OBVIOUS
    <2>3. /\ P(m + 1) \in Taken(bs) /\ y.key = x.key
          /\ y.dib = x.dib - 1 /\ x.dib > 1 /\ y \in Entries
      BY <2>1, <2>2, <1>4, <1>t, ShiftSource
    <2>4. m + 1 \in 0 .. (n - 1)  BY <1>4, <1>t
    <2>5. /\ x \in Entries /\ x.dib \in 1 .. n
          /\ (Hash[x.key] + (x.dib - 1)) % n = P(m + 1)
          /\ \A r \in 1 .. (x.dib - 1) : Was((m + 1) - r) >= x.dib - r
      BY <2>1, <2>3, <2>4, <1>3
    <2>6. (Hash[y.key] + (y.dib - 1)) % n = P(m)
      <3>1. Hash[x.key] \in Int  BY <2>5, KeyStoreAssumption DEF Entries
      <3>2. PICK g \in Int : g = Hash[x.key] + (x.dib - 1)  BY <3>1, <2>5
      <3>3. PICK h \in Int : h = i + (m + 1)  BY <1>t
      <3>4. g % n = h % n  BY <3>2, <3>3, <2>5
      <3>5. -1 \in Int  OBVIOUS
      <3>6. (g + (-1)) % n = (h + (-1)) % n  BY <3>4, <3>5, ModShift
      <3>7. g + (-1) = Hash[y.key] + (y.dib - 1) /\ h + (-1) = i + m
        BY <3>1, <3>2, <3>3, <2>3, <2>5, <1>t
      <3>8. QED  BY <3>6, <3>7
    <2>7. ASSUME NEW r \in 1 .. (y.dib - 1) PROVE Now(m - r) >= y.dib - r
      <3>1. r \in 1 .. (x.dib - 1) /\ r + 1 \in 1 .. (x.dib - 1) /\ r <= n - 2
        BY <2>3, <2>5
      <3>2. PICK p \in Int : p = m - r  OBVIOUS
      <3>3. CASE p >= 0
        <4>1. p \in 0 .. (n - 1) /\ p < q /\ p + 1 = (m + 1) - r /\ p # q
          BY <3>1, <3>2, <3>3, <1>4, <1>t
        <4>2. Now(p) = Was(p + 1) - 1  BY <4>1, ShiftSource, SMTT(30)
        <4>3. Was(p + 1) >= x.dib - r  BY <4>1, <3>1, <2>5
        <4>4. p + 1 \in Int /\ Was(p + 1) \in Nat  BY <4>1, <1>1
        <4>5. Now(p) >= y.dib - r  BY <4>2, <4>3, <4>4, <2>3, <2>5
        <4>6. QED  BY <4>5, <3>2
      <3>4. CASE p < 0 /\ p + n > q
        <4>1. p + n \in 0 .. (n - 1) /\ p + n # q /\ ~(p + n < q)  BY <3>1, <3>2, <3>4, <1>t
        <4>2. Now(p + n) = Was(p + n)  BY <4>1, <3>4, ShiftSource
        <4>3. Now(p) = Was(p)  BY <4>2, <1>1
        <4>4. p = (m + 1) - (r + 1)  BY <3>2
        <4>5. Was(p) >= x.dib - (r + 1)  BY <4>4, <3>1, <2>5
        <4>6. x.dib - (r + 1) = y.dib - r  BY <2>3, <2>5
        <4>7. QED  BY <4>3, <4>5, <4>6, <3>2
      <3>5. CASE p < 0 /\ p + n <= q
        <4>1. PICK u \in 1 .. (x.dib - 1) : u = (m - q) + n
          BY <3>1, <3>2, <3>5, <2>5, <1>t, <1>4
        <4>2. u <= r  BY <4>1, <3>2, <3>5, <1>t
        <4>3. Was((m + 1) - u) >= x.dib - u  BY <2>5
        <4>4. (m + 1) - u \in Int /\ ((m + 1) - u) + n = q + 1  BY <4>1, <1>t
        <4>5. Was((m + 1) - u) = Was(q + 1)  BY <4>4, <1>1
        <4>6. q + 1 \in Int /\ Was(q + 1) \in Nat  BY <1>t, <1>1
        <4>7. x.dib - u <= 1  BY <4>3, <4>5, <4>6, <1>2, <4>1, <2>5
        <4>8. FALSE  BY <4>2, <4>7, <3>1, <2>3, <2>5
        <4>9. QED  BY <4>8
      <3>6. QED  BY <3>2, <3>3, <3>4, <3>5, <1>t
    <2>8. PICK h \in Int : h = i + m  BY <1>t
    <2>9. \A r \in 1 .. (y.dib - 1) : h - r = i + (m - r)  BY <2>3, <2>5, <2>8, <1>t
    <2>a. \A r \in 1 .. (y.dib - 1) : cs[(h - r) % n].dib >= y.dib - r
      BY <2>7, <2>9
    <2>b. (Hash[y.key] + (y.dib - 1)) % n = h % n  BY <2>6, <2>8
    <2>10. Reached(cs, n, y, h % n)
      BY <2>3, <2>a, <2>b, <1>t, Backwards
    <2>11. QED  BY <2>2, <2>8, <2>10
  <1>5. ASSUME NEW m \in 0 .. (n - 1), m > q, P(m) \in Taken(cs)
        PROVE  Reached(cs, n, cs[P(m)], P(m))
    <2>1. PICK x : x = bs[P(m)]  OBVIOUS
    <2>a. ~(m < q) /\ m # q  BY <1>5, <1>t
    <2>2. cs[P(m)] = x /\ P(m) \in Taken(bs)
      BY <2>1, <2>a, <1>5, ShiftSource
    <2>3. /\ x \in Entries /\ x.dib \in 1 .. n
          /\ (Hash[x.key] + (x.dib - 1)) % n = P(m)
          /\ \A r \in 1 .. (x.dib - 1) : Was(m - r) >= x.dib - r
      BY <2>1, <2>2, <1>3
    <2>4. ASSUME NEW r \in 1 .. (x.dib - 1) PROVE Now(m - r) >= x.dib - r
      <3>1. PICK p \in Int : p = m - r  OBVIOUS
      <3>2. Was(p) >= x.dib - r  BY <3>1, <2>3
      <3>3. CASE p > q
        <4>1. p \in 0 .. (n - 1) /\ p # q /\ ~(p < q)  BY <3>1, <3>3, <2>3, <1>t
        <4>2. Now(p) = Was(p)  BY <4>1, <3>3, ShiftSource
        <4>3. QED  BY <4>2, <3>1, <3>2
      <3>4. CASE p <= q
        <4>1. m # q + 1
          <5>1. SUFFICES ASSUME m = q + 1 PROVE FALSE  OBVIOUS
          <5>2. x.dib <= 1  BY <5>1, <2>1, <1>2
          <5>3. QED  BY <5>2, <2>3
        <4>2. PICK u \in 1 .. (x.dib - 1) : u = m - (q + 1)
          BY <4>1, <3>1, <3>4, <2>3, <1>5, <1>t
        <4>3. u < r  BY <4>2, <3>1, <3>4, <1>t
        <4>0. m - u \in Int  BY <2>3
        <4>a. PICK w \in Int : w = m - u /\ Was(w) >= x.dib - u  BY <4>0, <2>3
        <4>b. w = q + 1  BY <4>a, <4>2, <2>3, <1>t
        <4>4. Was(q + 1) >= x.dib - u  BY <4>a, <4>b, Zenon
        <4>c. Was(w) \in Nat  BY <1>1
        <4>5. Was(q + 1) \in Nat  BY <4>b, <4>c
        <4>6. x.dib - u <= 1  BY <4>4, <4>5, <1>2, <4>2, <2>3
        <4>7. FALSE  BY <4>3, <4>6, <2>3
        <4>8. QED  BY <4>7
      <3>5. QED  BY <3>3, <3>4, <1>t
    <2>5. PICK h \in Int : h = i + m  BY <1>t
    <2>6. \A r \in 1 .. (x.dib - 1) : h - r = i + (m - r)  BY <2>3, <2>5, <1>t
    <2>c. \A r \in 1 .. (x.dib - 1) : cs[(h - r) % n].dib >= x.dib - r
      BY <2>4, <2>6
    <2>b. (Hash[x.key] + (x.dib - 1)) % n = h % n  BY <2>3, <2>5
    <2>7. Reached(cs, n, x, h % n)
      BY <2>3, <2>c, <2>b, <1>t, Backwards
    <2>8. QED  BY <2>2, <2>5, <2>7
  <1>6. ASSUME NEW j \in Taken(cs) PROVE Reached(cs, n, cs[j], j)
    <2>0. i \in 0 .. (n - 1) /\ j \in 0 .. (n - 1)  BY <1>t
    <2>1. PICK m \in 0 .. (n - 1) : (i + m) % n = j
      <3>1. i \in Int  BY <2>0
      <3>2. QED  BY <2>0, <3>1, ModReach
    <2>2. m # q  BY <2>1, ShiftSource
    <2>3. QED  BY <2>1, <2>2, <1>4, <1>5, <1>t
  <1>7. QED  BY <1>6 DEF Ordered

(* The backward shift removes the entry in bucket i and nothing else. *)
LEMMA ShiftWorks ==
    ASSUME NEW n \in Nat \ {0}, NEW bs, Sound(bs, n), ~Full(bs, n), NEW i \in Taken(bs)
    PROVE  /\ Sound(H!Shifted(bs, i), n)
           /\ Content(H!Shifted(bs, i)) = Other(bs, bs[i].key)
           /\ \E j \in Taken(bs) : Taken(H!Shifted(bs, i)) = Taken(bs) \ {j}
  <1>c. PICK cs : cs = H!Shifted(bs, i)  OBVIOUS
  <1>q. PICK q : IsShift(bs, cs, n, i, q)  BY <1>c, ShiftedIs
  <1>t. /\ bs \in Maps(n) /\ i \in 0 .. (n - 1) /\ cs \in Maps(n)
        /\ q \in 0 .. (n - 2) /\ Taken(bs) \subseteq 0 .. (n - 1)
        /\ Taken(cs) \subseteq 0 .. (n - 1)
    BY <1>q, MapSize DEF Sound, IsShift, Maps
  <1> DEFINE P(m) == (i + m) % n
             A(m) == IF m < q THEN m + 1 ELSE m
  <1>p. ASSUME NEW m \in 0 .. (n - 1) PROVE P(m) \in 0 .. (n - 1)
    <2>1. i + m \in Int  BY <1>t
    <2>2. QED  BY <2>1, ModDef
  <1>r. ASSUME NEW j \in 0 .. (n - 1) PROVE \E m \in 0 .. (n - 1) : P(m) = j
    <2>1. i \in Int  BY <1>t
    <2>2. QED  BY <2>1, ModReach
  <1>u. ASSUME NEW m \in 0 .. (n - 1), NEW l \in 0 .. (n - 1), P(m) = P(l) PROVE m = l
    <2>1. m \in Int /\ l \in Int /\ i \in Int /\ m - l \in (1 - n) .. (n - 1)  BY <1>t
    <2>2. QED  BY <2>1, <1>u, ModSame
  <1>0. P(0) = i
    <2>1. i + 0 = i /\ i % n = i  BY <1>t, ModSmall
    <2>2. QED  BY <2>1
  <1>1. ASSUME NEW m \in 0 .. (n - 1), m # q
        PROVE  /\ A(m) \in 1 .. (n - 1)
               /\ P(m) \in Taken(cs) <=> P(A(m)) \in Taken(bs)
               /\ cs[P(m)].key = bs[P(A(m))].key /\ cs[P(m)].val = bs[P(A(m))].val
               /\ m < q => P(m) \in Taken(cs) /\ P(m) \in Taken(bs)
    <2>1. /\ A(m) \in 1 .. (n - 1)
          /\ P(m) \in Taken(cs) <=> P(A(m)) \in Taken(bs)
          /\ cs[P(m)].key = bs[P(A(m))].key /\ cs[P(m)].val = bs[P(A(m))].val
      BY <1>1, <1>q, ShiftSource
    <2>2. ASSUME NEW l \in 1 .. q PROVE P(l) \in Taken(bs)
      <3>1. l \in 0 .. (n - 1)  BY <1>t
      <3>2. bs[P(l)].dib > 1  BY <1>q DEF IsShift
      <3>3. PICK p \in 0 .. (n - 1) : p = P(l)  BY <3>1, <1>p
      <3>4. bs[p].dib \in Nat  BY <1>t DEF Maps, Entries, H!Empty
      <3>5. bs[p].dib > 0  BY <3>2, <3>3, <3>4
      <3>6. QED  BY <3>3, <3>5, <1>t, MapSize
    <2>3. ASSUME m < q PROVE P(m) \in Taken(cs) /\ P(m) \in Taken(bs)
      <3>1. m + 1 \in 1 .. q /\ A(m) = m + 1  BY <2>3, <1>t
      <3>2. P(A(m)) \in Taken(bs)  BY <3>1, <2>2
      <3>3. CASE m = 0  BY <3>2, <3>3, <2>1, <1>0
      <3>4. CASE m # 0
        <4>1. m \in 1 .. q  BY <2>3, <3>4, <1>t
        <4>2. QED  BY <4>1, <3>2, <2>1, <2>2
      <3>5. QED  BY <3>3, <3>4
    <2>4. QED  BY <2>1, <2>3
  <1>2. P(q) \notin Taken(cs) /\ P(q) \in Taken(bs)
    <2>1. P(q) \notin Taken(cs)  BY <1>q, ShiftSource
    <2>2. CASE q = 0  BY <2>1, <2>2, <1>0
    <2>3. CASE q # 0
      <3>1. q \in 1 .. q /\ q \in 0 .. (n - 1)  BY <2>3, <1>t
      <3>2. bs[P(q)].dib > 1  BY <3>1, <1>q DEF IsShift
      <3>3. PICK p \in 0 .. (n - 1) : p = P(q)  BY <3>1, <1>p
      <3>4. bs[p].dib \in Nat  BY <1>t DEF Maps, Entries, H!Empty
      <3>5. bs[p].dib > 0  BY <3>2, <3>3, <3>4
      <3>6. p \in Taken(bs)  BY <3>5, <1>t, MapSize
      <3>7. QED  BY <3>3, <3>6, <2>1
    <2>4. QED  BY <2>2, <2>3
  <1> HIDE DEF P
  <1>a. \A m, l \in 0 .. (n - 1) : m # q /\ l # q /\ A(m) = A(l) => m = l
    BY <1>t
  <1>b. \A a \in 1 .. (n - 1) : \E m \in 0 .. (n - 1) : m # q /\ A(m) = a
    <2>1. SUFFICES ASSUME NEW a \in 1 .. (n - 1)
                   PROVE  \E m \in 0 .. (n - 1) : m # q /\ A(m) = a
      OBVIOUS
    <2>2. CASE a <= q
      <3>1. a - 1 \in 0 .. (n - 1) /\ a - 1 # q /\ A(a - 1) = a  BY <2>2, <1>t
      <3>2. QED  BY <3>1
    <2>3. CASE a > q
      <3>1. a \in 0 .. (n - 1) /\ a # q /\ A(a) = a  BY <2>3, <1>t
      <3>2. QED  BY <3>1
    <2>4. QED  BY <2>2, <2>3, <1>t
  <1>n. \A m \in 0 .. (n - 1) : m > q => A(m) = m  BY <1>t
  <1> HIDE DEF A
  <1>3. Ordered(cs, n)  BY <1>q, ShiftOrdered
  <1>4. Distinct(cs)
    <2>1. SUFFICES ASSUME NEW j \in Taken(cs), NEW l \in Taken(cs), cs[j].key = cs[l].key
                   PROVE  j = l
      BY DEF Distinct
    <2>2. PICK m \in 0 .. (n - 1) : P(m) = j  BY <1>t, <1>r
    <2>3. PICK k \in 0 .. (n - 1) : P(k) = l  BY <1>t, <1>r
    <2>4. m # q /\ k # q  BY <2>1, <2>2, <2>3, <1>2
    <2>5. /\ P(A(m)) \in Taken(bs) /\ P(A(k)) \in Taken(bs)
          /\ bs[P(A(m))].key = bs[P(A(k))].key
          /\ A(m) \in 1 .. (n - 1) /\ A(k) \in 1 .. (n - 1)
      BY <2>1, <2>2, <2>3, <2>4, <1>1
    <2>6. P(A(m)) = P(A(k))  BY <2>5 DEF Sound, Distinct
    <2>7. A(m) = A(k)  BY <2>5, <2>6, <1>u
    <2>8. m = k  BY <2>4, <2>7, <1>a
    <2>9. QED  BY <2>2, <2>3, <2>8
  <1>5. Content(cs) = Other(bs, bs[i].key)
    <2>1. ASSUME NEW c \in Content(cs) PROVE c \in Other(bs, bs[i].key)
      <3>1. PICK j \in Taken(cs) : c = <<cs[j].key, cs[j].val>>  BY DEF Content
      <3>2. PICK m \in 0 .. (n - 1) : P(m) = j  BY <1>t, <1>r
      <3>3. m # q  BY <3>2, <1>2
      <3>4. PICK l : l = P(A(m))  OBVIOUS
      <3>5. l \in Taken(bs) /\ c = <<bs[l].key, bs[l].val>> /\ A(m) \in 1 .. (n - 1)
        BY <3>1, <3>2, <3>3, <3>4, <1>1
      <3>6. A(m) \in 0 .. (n - 1) /\ 0 \in 0 .. (n - 1) /\ A(m) # 0  BY <3>5
      <3>7. l # i  BY <3>4, <3>6, <1>0, <1>u
      <3>8. bs[l].key # bs[i].key  BY <3>5, <3>7 DEF Sound, Distinct
      <3>9. QED  BY <3>5, <3>8 DEF Content, Other
    <2>2. ASSUME NEW c \in Other(bs, bs[i].key) PROVE c \in Content(cs)
      <3>1. PICK l \in Taken(bs) : c = <<bs[l].key, bs[l].val>>  BY DEF Content, Other
      <3>2. l # i  BY <3>1 DEF Other
      <3>3. PICK a \in 0 .. (n - 1) : P(a) = l  BY <1>t, <1>r
      <3>4. a \in 1 .. (n - 1)  BY <3>2, <3>3, <1>0
      <3>5. PICK m \in 0 .. (n - 1) : m # q /\ A(m) = a  BY <3>4, <1>b
      <3>6. P(m) \in Taken(cs) /\ c = <<cs[P(m)].key, cs[P(m)].val>>
        BY <3>1, <3>3, <3>5, <1>1
      <3>7. QED  BY <3>6 DEF Content
    <2>3. QED  BY <2>1, <2>2
  <1>6. Taken(cs) = Taken(bs) \ {P(q)}
    <2>1. ASSUME NEW j \in 0 .. (n - 1)
          PROVE  j \in Taken(cs) <=> j \in Taken(bs) \ {P(q)}
      <3>1. PICK m \in 0 .. (n - 1) : P(m) = j  BY <1>r
      <3>2. CASE m = q  BY <3>1, <3>2, <1>2
      <3>3. CASE m < q
        <4>1. q \in 0 .. (n - 1) /\ m # q  BY <3>3, <1>t
        <4>2. j # P(q)  BY <4>1, <3>1, <1>u
        <4>3. QED  BY <4>1, <4>2, <3>1, <3>3, <1>1
      <3>4. CASE m > q
        <4>1. q \in 0 .. (n - 1) /\ m # q  BY <3>4, <1>t
        <4>2. j # P(q)  BY <4>1, <3>1, <1>u
        <4>3. A(m) = m  BY <3>4, <1>n
        <4>4. QED  BY <4>1, <4>2, <4>3, <3>1, <1>1
      <3>5. QED  BY <3>2, <3>3, <3>4, <1>t
    <2>2. QED  BY <2>1, <1>t
  <1>7. QED  BY <1>c, <1>t, <1>2, <1>3, <1>4, <1>5, <1>6 DEF Sound

-----------------------------------------------------------------------------
(* Making a map larger or smaller                                          *)

(* A new map is empty and in order. *)
LEMMA NewSound ==
    ASSUME NEW c \in Nat
    PROVE  LET n == H!RoundUp(c) IN
           /\ n \in Nat \ {0} /\ Sound(H!New(c), n)
           /\ Taken(H!New(c)) = {} /\ Content(H!New(c)) = {}
  <1>n. PICK n \in Nat \ {0} : n = H!RoundUp(c)  BY RoundedUp, Capacities
  <1>1. PICK bs : bs = H!New(c)  OBVIOUS
  <1>2. bs = [i \in 0 .. (n - 1) |-> H!Empty]  BY <1>n, <1>1 DEF H!New
  <1>3. bs \in Maps(n)  BY <1>2 DEF Maps
  <1>4. Taken(bs) = {}  BY <1>2 DEF Taken, H!Occupied, H!Empty
  <1>5. Content(bs) = {} /\ Sound(bs, n)
    BY <1>3, <1>4 DEF Content, Sound, Ordered, Distinct
  <1>6. QED  BY <1>n, <1>1, <1>4, <1>5

(* A map is full if it has as many entries as buckets. *)
LEMMA NotFull ==
    ASSUME NEW n \in Nat \ {0}, NEW bs, Sound(bs, n)
    PROVE  /\ ~Full(bs, n) <=> Cardinality(Taken(bs)) < n
           /\ Cardinality(Taken(bs)) \in Nat /\ IsFiniteSet(Taken(bs))
  <1>1. bs \in Maps(n)  BY DEF Sound
  <1>2. /\ DOMAIN bs = 0 .. (n - 1) /\ Taken(bs) \in SUBSET (0 .. (n - 1))
        /\ Cardinality(Taken(bs)) \in 0 .. n /\ IsFiniteSet(Taken(bs))
        /\ Taken(bs) # DOMAIN bs => Cardinality(Taken(bs)) < n
        /\ Cardinality(Taken(bs)) < n => Taken(bs) # DOMAIN bs
    BY <1>1, MapSize
  <1>3. Full(bs, n) <=> Taken(bs) = DOMAIN bs  BY <1>2 DEF Full
  <1>4. QED  BY <1>2, <1>3

(* How many entries there are once one was placed. *)
LEMMA PlacedCount ==
    ASSUME NEW n \in Nat \ {0}, NEW before, Sound(before, n), NEW x, NEW bs,
           Placed(before, bs, n, x)
    PROVE  Cardinality(Taken(bs)) = Cardinality(Taken(before)) +
              (IF Absent(before, x.key) THEN 1 ELSE 0)
  <1>1. IsFiniteSet(Taken(before)) /\ Cardinality(Taken(before)) \in Nat  BY NotFull
  <1>2. CASE Absent(before, x.key)
    <2>1. PICK i : i \notin Taken(before) /\ Taken(bs) = Taken(before) \cup {i}
      BY <1>2 DEF Placed
    <2>2. Cardinality(Taken(bs)) = Cardinality(Taken(before)) + 1
      BY <2>1, <1>1, FS_AddElement
    <2>3. QED  BY <1>2, <2>2
  <1>3. CASE ~Absent(before, x.key)
    BY <1>1, <1>3 DEF Placed
  <1>4. QED  BY <1>2, <1>3

(* resize looks at the buckets in turn. *)
Moved(b) == [key |-> b.key, val |-> b.val, dib |-> 1]
Move(m, b) == IF b.dib > 0 THEN H!Place(m, Moved(b)) ELSE m

IsResize(f, n, bs, c) ==
    /\ f[0] = H!New(c) /\ f[n] = H!Resized(bs, c)
    /\ f \in [0 .. n -> Maps(H!RoundUp(c))]
    /\ \A i \in 0 .. (n - 1) : f[i + 1] = Move(f[i], bs[i])

(* resize runs through such maps: Resized is the last of them. *)
LEMMA ResizedTraced ==
    ASSUME NEW n \in Nat \ {0}, NEW bs \in Maps(n), NEW c \in Nat
    PROVE  \E f : IsResize(f, n, bs, c)
  <1>c. PICK o \in Nat \ {0} : o = H!RoundUp(c)  BY RoundedUp, Capacities
  <1> DEFINE X == Maps(o)
             a == H!New(c)
             F == [i \in 0 .. (n - 1) |-> [m \in X |-> Move(m, bs[i])]]
             N == H!NBuckets(bs)
             D == CHOOSE D : D = [i \in 0 .. N |->
                    IF i = 0 THEN a
                    ELSE IF H!Occupied(bs[i - 1])
                         THEN H!Place(D[i - 1], [bs[i - 1] EXCEPT !.dib = 1])
                         ELSE D[i - 1]]
  <1>1. a \in X  BY <1>c, NewSound DEF Sound
  <1>2. ASSUME NEW i \in 0 .. (n - 1), NEW m \in X PROVE Move(m, bs[i]) \in X
    <2>1. CASE bs[i].dib > 0
      <3>1. Moved(bs[i]) \in Entries
        BY <2>1 DEF Maps, Moved, Entries, H!Empty
      <3>2. PICK x \in Entries : x = Moved(bs[i])  BY <3>1
      <3>3. PICK g : IsTrace(g, o, m, x) /\ H!Place(m, x) = g[o].bs
        BY PlaceTraced
      <3>4. g[o].bs \in X  BY <3>3 DEF IsTrace, States
      <3>5. QED  BY <2>1, <3>2, <3>3, <3>4 DEF Move
    <2>2. CASE ~(bs[i].dib > 0)  BY <2>2 DEF Move
    <2>3. QED  BY <2>1, <2>2
  <1>3. F \in [0 .. (n - 1) -> [X -> X]]
    BY <1>2
  <1>4. \A i \in 0 .. (n - 1) : \A m \in X : F[i][m] = Move(m, bs[i])
    OBVIOUS
  <1> HIDE DEF F
  <1>5. PICK f : Solves(f, n, X, a, F)  BY <1>1, <1>3, Recursion
  <1>6. f \in [0 .. n -> X] /\ f[0] = a /\ \A i \in 0 .. (n - 1) : f[i + 1] = F[i][f[i]]
    BY <1>5 DEF Solves
  <1>7. \A i \in 0 .. (n - 1) : f[i + 1] = Move(f[i], bs[i])
    <2>1. \A i \in 0 .. (n - 1) : f[i] \in X  BY <1>6
    <2>2. QED  BY <2>1, <1>4, <1>6
  <1>8. \A i \in 0 .. (n - 1) : \A m :
            Move(m, bs[i]) = IF H!Occupied(bs[i])
                             THEN H!Place(m, [bs[i] EXCEPT !.dib = 1]) ELSE m
    <2>1. SUFFICES ASSUME NEW i \in 0 .. (n - 1), H!Occupied(bs[i])
                   PROVE  Moved(bs[i]) = [bs[i] EXCEPT !.dib = 1]
      BY DEF Move, H!Occupied
    <2>2. bs[i] \in Entries  BY <2>1 DEF Maps, H!Empty, H!Occupied
    <2>3. QED  BY <2>2 DEF Entries, Moved
  <1>9. f = [i \in 0 .. n |->
                IF i = 0 THEN a
                ELSE IF H!Occupied(bs[i - 1])
                     THEN H!Place(f[i - 1], [bs[i - 1] EXCEPT !.dib = 1])
                     ELSE f[i - 1]]
    <2>1. ASSUME NEW i \in 1 .. n
          PROVE  f[i] = IF H!Occupied(bs[i - 1])
                        THEN H!Place(f[i - 1], [bs[i - 1] EXCEPT !.dib = 1])
                        ELSE f[i - 1]
      <3>1. PICK k \in 0 .. (n - 1) : k = i - 1  OBVIOUS
      <3>2. k + 1 = i  BY <3>1
      <3>3. f[i] = Move(f[k], bs[k])  BY <3>2, <1>7
      <3>4. QED  BY <3>1, <3>3, <1>8
    <2>2. QED  BY <2>1, <1>6
  <1>10. N = n  BY MapSize
  <1>11. D = [i \in 0 .. N |->
                IF i = 0 THEN a
                ELSE IF H!Occupied(bs[i - 1])
                     THEN H!Place(D[i - 1], [bs[i - 1] EXCEPT !.dib = 1])
                     ELSE D[i - 1]]
    BY <1>9, <1>10
  <1>12. H!Resized(bs, c) = D[N]
    BY DEF H!Resized
  <1> HIDE DEF a, D, N
  <1>13. D[n] = f[n]
    <2> DEFINE S == {j \in 0 .. n : D[j] = f[j]}
    <2>1. 0 \in S  BY <1>9, <1>10, <1>11
    <2>2. ASSUME NEW j \in 0 .. (n - 1), j \in S PROVE j + 1 \in S
      <3>1. j + 1 \in 0 .. n /\ j + 1 # 0 /\ (j + 1) - 1 = j  OBVIOUS
      <3>2. f[j + 1] = IF H!Occupied(bs[j])
                       THEN H!Place(f[j], [bs[j] EXCEPT !.dib = 1]) ELSE f[j]
        BY <3>1, <1>9
      <3>3. D[j + 1] = IF H!Occupied(bs[j])
                       THEN H!Place(D[j], [bs[j] EXCEPT !.dib = 1]) ELSE D[j]
        BY <3>1, <1>10, <1>11
      <3>4. QED  BY <3>1, <3>2, <3>3, <2>2
    <2> HIDE DEF S
    <2>3. \A j \in 0 .. (n - 1) : j \in S => j + 1 \in S  BY <2>2
    <2>4. 0 .. n \subseteq S  BY <2>1, <2>3, Induction
    <2>5. QED  BY <2>4 DEF S
  <1>14. QED  BY <1>c, <1>6, <1>7, <1>10, <1>12, <1>13 DEF IsResize, a

(* A new map that is large enough has the same entries. *)
LEMMA ResizeWorks ==
    ASSUME NEW n \in Nat \ {0}, NEW bs, Sound(bs, n), NEW c \in Nat,
           Cardinality(Taken(bs)) <= H!RoundUp(c)
    PROVE  /\ Sound(H!Resized(bs, c), H!RoundUp(c))
           /\ Content(H!Resized(bs, c)) = Content(bs)
           /\ Cardinality(Taken(H!Resized(bs, c))) = Cardinality(Taken(bs))
  <1>c. PICK o \in Nat \ {0} : o = H!RoundUp(c)  BY RoundedUp, Capacities
  <1>t. bs \in Maps(n) /\ Taken(bs) \subseteq 0 .. (n - 1)  BY MapSize DEF Sound
  <1>f. PICK f : IsResize(f, n, bs, c)  BY <1>t, ResizedTraced
  <1> DEFINE Passed(m) == {i \in Taken(bs) : i < m}
             Pairs(m) == {<<bs[i].key, bs[i].val>> : i \in Passed(m)}
             Inv(m) == /\ Sound(f[m], o) /\ Content(f[m]) = Pairs(m)
                       /\ Cardinality(Taken(f[m])) = Cardinality(Passed(m))
             S == {m \in 0 .. n : Inv(m)}
  <1>1. Inv(0)
    <2>1. Passed(0) = {} /\ Pairs(0) = {}  BY <1>t
    <2>2. Sound(f[0], o) /\ Taken(f[0]) = {} /\ Content(f[0]) = {}
      BY <1>c, <1>f, NewSound DEF IsResize
    <2>3. QED  BY <2>1, <2>2
  <1>2. ASSUME NEW m \in 0 .. (n - 1), Inv(m) PROVE Inv(m + 1)
    <2>1. f[m + 1] = Move(f[m], bs[m])  BY <1>f DEF IsResize
    <2>2. CASE m \notin Taken(bs)
      <3>1. Passed(m + 1) = Passed(m)  BY <2>2, <1>t
      <3>2. Pairs(m + 1) = Pairs(m)  BY <3>1
      <3>3. ~(bs[m].dib > 0)  BY <2>2, <1>t, MapSize
      <3>4. f[m + 1] = f[m]  BY <2>1, <3>3 DEF Move
      <3>5. QED  BY <3>1, <3>2, <3>4, <1>2
    <2>3. CASE m \in Taken(bs)
      <3>1. bs[m] \in Entries /\ bs[m].dib > 0  BY <2>3, <1>t, MapSize
      <3>z. Moved(bs[m]) \in Entries  BY <3>1 DEF Entries, Moved
      <3>2. PICK x \in Entries : x = Moved(bs[m])  BY <3>z
      <3>3. x.key = bs[m].key /\ x.val = bs[m].val /\ x.dib = 1  BY <3>2 DEF Moved
      <3>4. f[m + 1] = H!Place(f[m], x)  BY <2>1, <3>1, <3>2 DEF Move
      <3>5. Passed(m + 1) = Passed(m) \cup {m} /\ m \notin Passed(m)
        BY <2>3, <1>t
      <3>6. IsFiniteSet(Taken(bs)) /\ Passed(m) \in SUBSET Taken(bs)
            /\ Passed(m + 1) \in SUBSET Taken(bs)
        BY <1>t, NotFull
      <3>7. /\ IsFiniteSet(Passed(m)) /\ Cardinality(Passed(m)) \in Nat
            /\ Cardinality(Passed(m + 1)) = Cardinality(Passed(m)) + 1
            /\ Cardinality(Passed(m + 1)) <= Cardinality(Taken(bs))
        BY <3>5, <3>6, FS_Subset, FS_AddElement, FS_CardinalityType
      <3>8. ~Full(f[m], o)
        <4>1. Cardinality(Taken(bs)) \in Nat  BY NotFull
        <4>2. Cardinality(Taken(f[m])) < o  BY <4>1, <3>7, <1>2, <1>c
        <4>3. QED  BY <4>2, <1>2, NotFull
      <3>9. Placed(f[m], f[m + 1], o, x)  BY <3>3, <3>4, <3>8, <1>2, PlaceWorks
      <3>10. Absent(f[m], x.key)
        <4>1. ASSUME NEW d \in Pairs(m) PROVE d[1] # x.key
          <5>1. PICK i \in Passed(m) : d = <<bs[i].key, bs[i].val>>  OBVIOUS
          <5>2. i \in Taken(bs) /\ i # m  BY <5>1, <1>t
          <5>3. bs[i].key # bs[m].key  BY <5>2, <2>3 DEF Sound, Distinct
          <5>4. QED  BY <5>1, <5>3, <3>3
        <4>2. QED  BY <4>1, <1>2, AbsentContent
      <3>11. Pairs(m + 1) = Pairs(m) \cup {<<x.key, x.val>>}
        BY <3>3, <3>5
      <3>12. Content(f[m + 1]) = Pairs(m + 1)
        <4>1. Other(f[m], x.key) = Content(f[m])  BY <3>10, AbsentContent
        <4>2. QED  BY <4>1, <3>9, <3>11, <1>2 DEF Placed
      <3>13. Cardinality(Taken(f[m + 1])) = Cardinality(Passed(m + 1))
        BY <3>7, <3>9, <3>10, <1>2, PlacedCount
      <3>14. QED  BY <3>9, <3>12, <3>13 DEF Placed
    <2>4. QED  BY <2>2, <2>3
  <1>3. 0 \in S  BY <1>1
  <1>4. \A m \in 0 .. (n - 1) : m \in S => m + 1 \in S
    <2>1. ASSUME NEW m \in 0 .. (n - 1), m \in S PROVE m + 1 \in S
      <3>1. Inv(m + 1)  BY <2>1, <1>2
      <3>2. QED  BY <3>1
    <2>2. QED  BY <2>1
  <1>5. Inv(n)
    <2> HIDE DEF S
    <2>1. 0 .. n \subseteq S  BY <1>3, <1>4, Induction
    <2>2. n \in S  BY <2>1
    <2>3. QED  BY <2>2 DEF S
  <1>6. Passed(n) = Taken(bs)  BY <1>t
  <1>7. Pairs(n) = Content(bs)  BY <1>6 DEF Content
  <1>8. f[n] = H!Resized(bs, c)  BY <1>f DEF IsResize
  <1>9. QED  BY <1>c, <1>5, <1>6, <1>7, <1>8

-----------------------------------------------------------------------------
(* What the calls of the map do                                            *)

(* A map of n buckets with m entries that is in order. *)
InOrder(bs, n, m) ==
    /\ n \in Capacity /\ Sound(bs, n)
    /\ m = Cardinality(Taken(bs)) /\ m <= (3 * n) \div 4

MapInv ==
    /\ \E n \in Capacity : InOrder(buckets, n, count) /\ cap <= n
    /\ cap \in Capacity /\ oom \in BOOLEAN

(* Such a map is never full: three quarters of n are less than n. *)
LEMMA OrderMeans ==
    ASSUME NEW bs, NEW n, NEW m, InOrder(bs, n, m)
    PROVE  /\ n \in Nat \ {0} /\ m \in Nat /\ m < n
           /\ H!NBuckets(bs) = n /\ H!GrowAt(bs) = (3 * n) \div 4
           /\ H!ShrinkAt(bs) = n \div 10
           /\ Sound(bs, n) /\ ~Full(bs, n) /\ bs \in Maps(n)
           /\ Cardinality(Taken(bs)) = m
  <1>1. n \in Nat \ {0}  BY Capacities DEF InOrder
  <1>2. Sound(bs, n) /\ bs \in Maps(n) /\ m = Cardinality(Taken(bs)) /\ m <= (3 * n) \div 4
    BY DEF InOrder, Sound
  <1>3. H!NBuckets(bs) = n  BY <1>1, <1>2, MapSize
  <1>4. m \in Nat  BY <1>1, <1>2, NotFull
  <1>5. (3 * n) \div 4 < n  BY <1>1
  <1>6. m < n
    <2>1. (3 * n) \div 4 \in Nat  BY <1>1
    <2>2. QED  BY <2>1, <1>1, <1>2, <1>4, <1>5
  <1>7. ~Full(bs, n)  BY <1>1, <1>2, <1>6, NotFull
  <1>8. QED  BY <1>1, <1>2, <1>3, <1>4, <1>6, <1>7 DEF H!GrowAt, H!ShrinkAt

(* hashmap_get returns the same for a key with the same entry. *)
LEMMA LookupSame ==
    ASSUME NEW n \in Nat \ {0}, NEW bs, Sound(bs, n), ~Full(bs, n),
           NEW o \in Nat \ {0}, NEW ds, Sound(ds, o), ~Full(ds, o), NEW k \in Key,
           \A v \in Desc : <<k, v>> \in Content(bs) <=> <<k, v>> \in Content(ds)
    PROVE  H!Lookup(ds, k) = H!Lookup(bs, k)
  <1>1. /\ \A v \in Desc : H!Lookup(bs, k) = v <=> <<k, v>> \in Content(bs)
        /\ H!Lookup(bs, k) \in Desc \cup {None}
    BY LookupContent
  <1>2. /\ \A v \in Desc : H!Lookup(ds, k) = v <=> <<k, v>> \in Content(ds)
        /\ H!Lookup(ds, k) \in Desc \cup {None}
    BY LookupContent
  <1>3. QED  BY <1>1, <1>2

(* What the lookups say when the contents differ in one key. *)
LEMMA LookupChanged ==
    ASSUME NEW n \in Nat \ {0}, NEW bs, Sound(bs, n), ~Full(bs, n),
           NEW o \in Nat \ {0}, NEW ds, Sound(ds, o), ~Full(ds, o), NEW k \in Key
    PROVE  /\ Content(ds) = Content(bs) =>
                \A j \in Key : H!Lookup(ds, j) = H!Lookup(bs, j)
           /\ Content(ds) = Other(bs, k) =>
                \A j \in Key : H!Lookup(ds, j) = IF j = k THEN None ELSE H!Lookup(bs, j)
           /\ \A v \in Desc : Content(ds) = Other(bs, k) \cup {<<k, v>>} =>
                \A j \in Key : H!Lookup(ds, j) = IF j = k THEN v ELSE H!Lookup(bs, j)
  <1>1. Content(ds) = Content(bs) => \A j \in Key : H!Lookup(ds, j) = H!Lookup(bs, j)
    BY LookupSame
  <1>2. ASSUME Content(ds) = Other(bs, k), NEW j \in Key
        PROVE  H!Lookup(ds, j) = IF j = k THEN None ELSE H!Lookup(bs, j)
    <2>1. CASE j = k
      <3>1. Absent(ds, k)  BY <1>2, AbsentContent DEF Other
      <3>2. QED  BY <2>1, <3>1, LookupContent
    <2>2. CASE j # k
      <3>1. \A v \in Desc : <<j, v>> \in Content(bs) <=> <<j, v>> \in Content(ds)
        BY <1>2, <2>2 DEF Other
      <3>2. QED  BY <3>1, <2>2, LookupSame
    <2>3. QED  BY <2>1, <2>2
  <1>3. ASSUME NEW v \in Desc, Content(ds) = Other(bs, k) \cup {<<k, v>>}, NEW j \in Key
        PROVE  H!Lookup(ds, j) = IF j = k THEN v ELSE H!Lookup(bs, j)
    <2>1. CASE j = k
      <3>1. <<k, v>> \in Content(ds)  BY <1>3
      <3>2. QED  BY <2>1, <3>1, LookupContent
    <2>2. CASE j # k
      <3>1. \A u \in Desc : <<j, u>> \in Content(bs) <=> <<j, u>> \in Content(ds)
        BY <1>3, <2>2 DEF Other
      <3>2. QED  BY <3>1, <2>2, LookupSame
    <2>3. QED  BY <2>1, <2>2
  <1>4. QED  BY <1>1, <1>2, <1>3

(* hashmap_new: a map in order, without entries. *)
LEMMA InitMap == Init => MapInv /\ count = 0 /\ \A k \in Key : hashmap_get(k) = None
  <1> SUFFICES ASSUME Init
               PROVE  MapInv /\ count = 0 /\ \A k \in Key : hashmap_get(k) = None
    OBVIOUS
  <1>1. PICK c \in Nat : cap = H!RoundUp(c) /\ buckets = H!New(c)
    BY KeyStoreAssumption DEF Init, H!Init
  <1>2. PICK n \in Nat \ {0} : n = H!RoundUp(c)  BY RoundedUp, Capacities
  <1>3. /\ n \in Capacity /\ cap = n /\ Sound(buckets, n) /\ Taken(buckets) = {}
        /\ count = 0 /\ oom = FALSE
    BY <1>1, <1>2, NewSound, RoundedUp DEF Init, H!Init
  <1>4. Cardinality(Taken(buckets)) = 0  BY <1>3, FS_EmptySet
  <1>5. InOrder(buckets, n, count)
    <2>1. (3 * n) \div 4 >= 0  BY <1>2
    <2>2. QED  BY <2>1, <1>3, <1>4 DEF InOrder
  <1>6. MapInv
    <2>1. cap <= n  BY <1>2, <1>3
    <2>2. cap \in Capacity /\ oom \in BOOLEAN  BY <1>3
    <2>3. QED  BY <2>1, <2>2, <1>3, <1>5 DEF MapInv
  <1>7. ~Full(buckets, n)  BY <1>5, OrderMeans
  <1>8. ASSUME NEW k \in Key PROVE hashmap_get(k) = None
    <2>1. Absent(buckets, k)  BY <1>3 DEF Absent
    <2>2. QED  BY <2>1, <1>2, <1>3, <1>7, LookupContent DEF hashmap_get
  <1>9. QED  BY <1>3, <1>6, <1>8

(* What hashmap_set has done when it returns. *)
WasSet(k, v) ==
    /\ MapInv' /\ oom' = FALSE /\ cap' = cap
    /\ \A j \in Key : hashmap_get(j)' = IF j = k THEN v ELSE hashmap_get(j)
    /\ count' = IF hashmap_get(k) = None THEN count + 1 ELSE count
    /\ count # H!GrowAt(buckets) => H!NBuckets(buckets)' = H!NBuckets(buckets)

(* It places the entry in the map bs: the one it had, or a larger one with *)
(* the same entries.                                                       *)
LEMMA SetInto ==
    ASSUME MapInv, NEW k \in Key, NEW v \in Desc, NEW bs, NEW n,
           InOrder(bs, n, count), count < (3 * n) \div 4, cap <= n,
           \A j \in Key : H!Lookup(bs, j) = hashmap_get(j),
           count # H!GrowAt(buckets) => n = H!NBuckets(buckets),
           buckets' = H!Place(bs, H!Entry(k, v)), oom' = FALSE, cap' = cap,
           count' = IF H!Lookup(bs, k) = None THEN count + 1 ELSE count
    PROVE  WasSet(k, v)
  <1>n. n \in Nat \ {0} /\ Sound(bs, n) /\ ~Full(bs, n) /\ count \in Nat
        /\ Cardinality(Taken(bs)) = count
    BY OrderMeans
  <1>1. H!Entry(k, v) \in Entries /\ H!Entry(k, v).dib = 1
        /\ H!Entry(k, v).key = k /\ H!Entry(k, v).val = v
    BY DEF Entries, H!Entry
  <1>2. PICK x \in Entries : x = H!Entry(k, v)  BY <1>1
  <1>3. PICK ds : ds = H!Place(bs, x)  OBVIOUS
  <1>4. Placed(bs, ds, n, x)  BY <1>1, <1>2, <1>3, <1>n, PlaceWorks
  <1>5. /\ Sound(ds, n) /\ Content(ds) = Other(bs, k) \cup {<<k, v>>}
        /\ Cardinality(Taken(ds)) = count + (IF Absent(bs, k) THEN 1 ELSE 0)
    BY <1>1, <1>2, <1>4, <1>n, PlacedCount DEF Placed
  <1>6. H!Lookup(bs, k) = None <=> Absent(bs, k)  BY <1>n, LookupContent
  <1>7. Cardinality(Taken(ds)) = count'  BY <1>5, <1>6, <1>n
  <1>8. InOrder(ds, n, count')
    <2>1. count' \in Nat /\ count' <= count + 1  BY <1>n
    <2>2. PICK g \in Nat : g = (3 * n) \div 4  BY <1>n
    <2>3. count' <= g  BY <2>1, <2>2, <1>n
    <2>4. QED  BY <2>2, <2>3, <1>5, <1>7 DEF InOrder
  <1>9. ~Full(ds, n) /\ H!NBuckets(ds) = n  BY <1>8, OrderMeans
  <1>10. \A j \in Key : H!Lookup(ds, j) = IF j = k THEN v ELSE H!Lookup(bs, j)
    BY <1>n, <1>5, <1>9, LookupChanged
  <1>11. buckets' = ds  BY <1>2, <1>3
  <1>12. MapInv'
    <2>1. cap' \in Capacity /\ oom' \in BOOLEAN /\ cap' <= n  BY DEF MapInv
    <2>2. n \in Capacity  BY DEF InOrder
    <2>3. InOrder(buckets', n, count')  BY <1>8, <1>11
    <2>4. QED  BY <2>1, <2>2, <2>3 DEF MapInv
  <1>13. \A j \in Key : hashmap_get(j)' = IF j = k THEN v ELSE hashmap_get(j)
    BY <1>10, <1>11 DEF hashmap_get
  <1>14. H!NBuckets(buckets)' = H!NBuckets(ds)  BY <1>11 DEF H!NBuckets
  <1>15. QED  BY <1>9, <1>12, <1>13, <1>14 DEF WasSet

(* hashmap_set, when it finds the memory it needs, sets the key and keeps  *)
(* the order.                                                              *)
LEMMA SetWorks ==
    ASSUME MapInv, NEW k \in Key, NEW v \in Desc, H!Set(k, v)
    PROVE  WasSet(k, v)
  <1>n. PICK n \in Capacity : InOrder(buckets, n, count) /\ cap <= n  BY DEF MapInv
  <1>0. /\ n \in Nat \ {0} /\ Sound(buckets, n) /\ ~Full(buckets, n) /\ count \in Nat
        /\ H!NBuckets(buckets) = n /\ H!GrowAt(buckets) = (3 * n) \div 4 /\ count < n
        /\ Cardinality(Taken(buckets)) = count /\ cap \in Nat
    BY <1>n, OrderMeans, Capacities DEF MapInv
  <1>1. CASE count # H!GrowAt(buckets)
    <2>1. buckets' = H!Place(buckets, H!Entry(k, v)) /\ oom' = FALSE /\ cap' = cap
          /\ count' = IF H!Lookup(buckets, k) = None THEN count + 1 ELSE count
      BY <1>1 DEF H!Set
    <2>2. count < (3 * n) \div 4
      <3>1. count <= (3 * n) \div 4  BY <1>n DEF InOrder
      <3>2. PICK g \in Nat : g = (3 * n) \div 4  BY <1>0
      <3>3. QED  BY <3>1, <3>2, <1>0, <1>1
    <2>3. \A j \in Key : H!Lookup(buckets, j) = hashmap_get(j)  BY DEF hashmap_get
    <2>4. QED  BY <2>1, <2>2, <2>3, <1>n, <1>0, SetInto
  <1>2. CASE count = H!GrowAt(buckets)
    <2>1. PICK o \in Nat \ {0} : o = 2 * n  BY <1>0
    <2>2. o \in Capacity /\ H!RoundUp(o) = o  BY <2>1, <1>n, Capacities, RoundedUp
    <2>3. PICK bs : bs = H!Resized(buckets, o)  OBVIOUS
    <2>4. buckets' = H!Place(bs, H!Entry(k, v)) /\ oom' = FALSE /\ cap' = cap
          /\ count' = IF H!Lookup(bs, k) = None THEN count + 1 ELSE count
      BY <1>0, <1>2, <2>1, <2>3 DEF H!Set
    <2>5. Cardinality(Taken(buckets)) <= H!RoundUp(o)  BY <1>0, <2>1, <2>2
    <2>6. /\ Sound(bs, o) /\ Content(bs) = Content(buckets)
          /\ Cardinality(Taken(bs)) = count
      <3>1. o \in Nat  BY <2>1
      <3>2. QED  BY <3>1, <1>0, <2>2, <2>3, <2>5, ResizeWorks
    <2>7. count < (3 * o) \div 4
      <3>1. (3 * n) \div 4 < (3 * (2 * n)) \div 4  BY <1>0
      <3>2. QED  BY <3>1, <1>0, <1>2, <2>1
    <2>8. InOrder(bs, o, count)
      <3>1. PICK g \in Nat : g = (3 * o) \div 4  BY <2>1
      <3>2. count <= g  BY <3>1, <2>7, <1>0
      <3>3. QED  BY <3>1, <3>2, <2>2, <2>6 DEF InOrder
    <2>9. \A j \in Key : H!Lookup(bs, j) = hashmap_get(j)
      <3>1. ~Full(bs, o)  BY <2>8, OrderMeans
      <3>2. QED  BY <3>1, <2>1, <2>6, <1>0, LookupChanged DEF hashmap_get
    <2>10. cap <= o  BY <1>n, <1>0, <2>1
    <2>11. QED  BY <2>4, <2>7, <2>8, <2>9, <2>10, <1>2, SetInto
  <1>3. QED  BY <1>1, <1>2

(* hashmap_set without memory leaves the map as it was. *)
LEMMA SetFails ==
    ASSUME MapInv, H!SetNoMemory
    PROVE  /\ MapInv' /\ UNCHANGED <<buckets, cap, count>> /\ oom' = TRUE
           /\ \A k \in Key : hashmap_get(k)' = hashmap_get(k)
           /\ count = H!GrowAt(buckets)
  <1>1. UNCHANGED <<buckets, cap, count>> /\ oom' = TRUE /\ count = H!GrowAt(buckets)
    BY DEF H!SetNoMemory
  <1>2. QED  BY <1>1 DEF MapInv, hashmap_get

(* What hashmap_delete has done when it returns. *)
WasDeleted(k) ==
    /\ MapInv' /\ oom' = FALSE /\ cap' = cap
    /\ \A j \in Key : hashmap_get(j)' = IF j = k THEN None ELSE hashmap_get(j)
    /\ count' = IF hashmap_get(k) = None THEN count ELSE count - 1
    /\ H!NBuckets(buckets) = cap => H!NBuckets(buckets)' = cap

(* hashmap_delete of a key that is not there changes nothing. *)
LEMMA DeleteAbsentWorks ==
    ASSUME MapInv, NEW k \in Key, H!DeleteAbsent(k)
    PROVE  WasDeleted(k)
  <1>1. UNCHANGED <<buckets, cap, count>> /\ oom' = FALSE /\ hashmap_get(k) = None
    BY DEF H!DeleteAbsent, hashmap_get
  <1>2. MapInv'  BY <1>1 DEF MapInv
  <1>3. \A j \in Key : hashmap_get(j)' = hashmap_get(j)  BY <1>1 DEF hashmap_get
  <1>4. H!NBuckets(buckets)' = H!NBuckets(buckets)  BY <1>1 DEF H!NBuckets
  <1>5. QED  BY <1>1, <1>2, <1>3, <1>4 DEF WasDeleted

(* The map without the entry, before it is made smaller. *)
LEMMA EntryRemoved ==
    ASSUME MapInv, NEW k \in Key, hashmap_get(k) # None,
           NEW n, InOrder(buckets, n, count)
    PROVE  LET bs == H!Shifted(buckets, H!Find(buckets, k)) IN
           /\ InOrder(bs, n, count - 1) /\ Content(bs) = Other(buckets, k)
           /\ \A j \in Key : H!Lookup(bs, j) = IF j = k THEN None ELSE hashmap_get(j)
  <1>0. /\ n \in Nat \ {0} /\ Sound(buckets, n) /\ ~Full(buckets, n) /\ count \in Nat
        /\ Cardinality(Taken(buckets)) = count /\ n \in Capacity /\ count <= (3 * n) \div 4
    BY OrderMeans DEF InOrder
  <1>1. ~Absent(buckets, k)  BY <1>0, LookupContent DEF hashmap_get
  <1>2. PICK i \in Taken(buckets) : buckets[i].key = k  BY <1>1 DEF Absent
  <1>3. H!Find(buckets, k) = i  BY <1>0, <1>2, LookupWorks
  <1>4. PICK bs : bs = H!Shifted(buckets, i)  OBVIOUS
  <1>5. /\ Sound(bs, n) /\ Content(bs) = Other(buckets, k)
        /\ \E j \in Taken(buckets) : Taken(bs) = Taken(buckets) \ {j}
    BY <1>0, <1>2, <1>4, ShiftWorks
  <1>6. Cardinality(Taken(bs)) = count - 1
    <2>1. IsFiniteSet(Taken(buckets))  BY <1>0, NotFull
    <2>2. QED  BY <2>1, <1>0, <1>5, FS_RemoveElement
  <1>7. InOrder(bs, n, count - 1)
    <2>1. PICK g \in Nat : g = (3 * n) \div 4  BY <1>0
    <2>2. count - 1 <= g  BY <2>1, <1>0
    <2>3. QED  BY <2>1, <2>2, <1>0, <1>5, <1>6 DEF InOrder
  <1>8. ~Full(bs, n)  BY <1>7, OrderMeans
  <1>9. \A j \in Key : H!Lookup(bs, j) = IF j = k THEN None ELSE hashmap_get(j)
    BY <1>0, <1>5, <1>8, LookupChanged DEF hashmap_get
  <1>10. QED  BY <1>3, <1>4, <1>5, <1>7, <1>9

(* hashmap_delete of a key that is there removes it and keeps the order,   *)
(* whether the map is made smaller or not.                                 *)
LEMMA DeletePresentWorks ==
    ASSUME MapInv, NEW k \in Key, H!DeletePresent(k)
    PROVE  WasDeleted(k)
  <1>n. PICK n \in Capacity : InOrder(buckets, n, count) /\ cap <= n  BY DEF MapInv
  <1>0. /\ n \in Nat \ {0} /\ count \in Nat /\ H!NBuckets(buckets) = n
        /\ cap \in Capacity /\ cap \in Nat \ {0}
    BY <1>n, OrderMeans, Capacities DEF MapInv
  <1>p. hashmap_get(k) # None  BY DEF H!DeletePresent, hashmap_get
  <1>1. PICK bs : bs = H!Shifted(buckets, H!Find(buckets, k))  OBVIOUS
  <1>2. /\ InOrder(bs, n, count - 1) /\ Content(bs) = Other(buckets, k)
        /\ \A j \in Key : H!Lookup(bs, j) = IF j = k THEN None ELSE hashmap_get(j)
    BY <1>n, <1>1, <1>p, EntryRemoved
  <1>3. /\ Sound(bs, n) /\ ~Full(bs, n) /\ Cardinality(Taken(bs)) = count - 1
        /\ H!NBuckets(bs) = n /\ H!ShrinkAt(bs) = n \div 10 /\ count - 1 \in Nat
    BY <1>2, OrderMeans
  <1>4. /\ buckets' = bs \/ /\ n > cap /\ count - 1 <= n \div 10
                            /\ buckets' = H!Resized(bs, n \div 2)
        /\ count' = count - 1 /\ oom' = FALSE /\ cap' = cap
    BY <1>1, <1>3 DEF H!DeletePresent
  <1>5. ASSUME NEW o, NEW ds, buckets' = ds, InOrder(ds, o, count - 1), cap <= o,
               \A j \in Key : H!Lookup(ds, j) = H!Lookup(bs, j),
               n = cap => o = cap
        PROVE  WasDeleted(k)
    <2>1. MapInv'
      <3>1. o \in Capacity  BY <1>5 DEF InOrder
      <3>2. InOrder(buckets', o, count') /\ cap' <= o  BY <1>4, <1>5
      <3>3. cap' \in Capacity /\ oom' \in BOOLEAN  BY <1>0, <1>4
      <3>4. QED  BY <3>1, <3>2, <3>3 DEF MapInv
    <2>2. \A j \in Key : hashmap_get(j)' = IF j = k THEN None ELSE hashmap_get(j)
      BY <1>2, <1>5 DEF hashmap_get
    <2>3. H!NBuckets(buckets)' = o
      <3>1. H!NBuckets(ds) = o  BY <1>5, OrderMeans
      <3>2. QED  BY <3>1, <1>5 DEF H!NBuckets
    <2>4. QED  BY <2>1, <2>2, <2>3, <1>0, <1>4, <1>5, <1>p DEF WasDeleted
  <1>6. CASE buckets' = bs
    BY <1>6, <1>n, <1>2, <1>5
  <1>7. CASE n > cap /\ count - 1 <= n \div 10 /\ buckets' = H!Resized(bs, n \div 2)
    <2>1. PICK o \in Nat \ {0} : o = n \div 2
      <3>1. n \div 2 \in Capacity  BY <1>7, <1>n, <1>0, Capacities
      <3>2. QED  BY <3>1, Capacities
    <2>2. o \in Capacity /\ n = 2 * o /\ cap <= o
      <3>1. n \div 2 \in Capacity /\ n = 2 * (n \div 2) /\ 2 * cap <= n
        BY <1>7, <1>n, <1>0, Capacities
      <3>2. QED  BY <3>1, <2>1, <1>0
    <2>3. H!RoundUp(o) = o  BY <2>1, <2>2, RoundedUp
    <2>4. PICK m \in Nat : m = count - 1  BY <1>3
    <2>5. m <= (2 * o) \div 10  BY <2>2, <2>4, <1>7
    <2>6. m <= o /\ m <= (3 * o) \div 4  BY <2>1, <2>5
    <2>7. PICK ds : ds = H!Resized(bs, o)  OBVIOUS
    <2>8. /\ Sound(ds, o) /\ Content(ds) = Content(bs) /\ Cardinality(Taken(ds)) = m
      <3>1. Cardinality(Taken(bs)) <= H!RoundUp(o)  BY <2>3, <2>4, <2>6, <1>3
      <3>2. o \in Nat  BY <2>1
      <3>3. QED  BY <3>1, <3>2, <2>3, <2>4, <2>7, <1>0, <1>3, ResizeWorks
    <2>9. InOrder(ds, o, m)  BY <2>2, <2>6, <2>8 DEF InOrder
    <2>10. \A j \in Key : H!Lookup(ds, j) = H!Lookup(bs, j)
      <3>1. ~Full(ds, o)  BY <2>9, OrderMeans
      <3>2. QED  BY <3>1, <2>1, <2>8, <1>0, <1>3, LookupChanged
    <2>11. InOrder(ds, o, count - 1)  BY <2>4, <2>9
    <2>12. buckets' = ds  BY <2>1, <2>7, <1>7
    <2>13. n # cap  BY <1>0, <1>7
    <2>14. QED  BY <2>2, <2>10, <2>11, <2>12, <2>13, <1>5
  <1>8. QED  BY <1>4, <1>6, <1>7
=============================================================================
