--------------------------- MODULE RenderingProofs ---------------------------
(***************************************************************************)
(* The in-process cache for any templates, any sizes of their modules, any *)
(* limits and any nesting: its counters describe its map, and its limits   *)
(* hold but for the module that was added last.                            *)
(*                                                                         *)
(* The first part is about the sum of the sizes of the modules in a map:   *)
(* what it is of a map that is cut in two, and that no order of the map    *)
(* changes it.  The second part is about the cache.                        *)
(***************************************************************************)
EXTENDS Rendering, SequenceLemmas, FiniteSetTheorems

-----------------------------------------------------------------------------
(* Sums *)

(* f adds up the sizes of the first n entries.                             *)
IsSum(f, s, n) ==
    /\ f = [i \in 0 .. n |-> f[i]]
    /\ f[0] = 0
    /\ \A i \in 0 .. n - 1 : f[i + 1] = f[i] + SizeOf[s[i + 1].key]

(* Such a function exists: the recursion is well founded.                  *)
LEMMA SumExists ==
    ASSUME NEW s, NEW n \in Nat
    PROVE  \E f : IsSum(f, s, n)
  <1> DEFINE S == {k \in Nat : \E f : IsSum(f, s, k)}
  <1>1. 0 \in S
    <2> DEFINE f == [i \in 0 .. 0 |-> 0]
    <2>1. IsSum(f, s, 0)
      BY DEF IsSum
    <2> QED
      BY <2>1
  <1>2. ASSUME NEW k \in Nat, k \in S PROVE k + 1 \in S
    <2>1. PICK f : IsSum(f, s, k)
      BY <1>2
    <2> DEFINE y == f[k] + SizeOf[s[k + 1].key]
               g == [i \in 0 .. k + 1 |-> IF i = k + 1 THEN y ELSE f[i]]
    <2>2. g = [i \in 0 .. k + 1 |-> g[i]]
      OBVIOUS
    <2>3. \A i \in 0 .. k : g[i] = f[i]
      OBVIOUS
    <2>4. g[k + 1] = y
      OBVIOUS
    <2>5. 0 \in 0 .. k
      OBVIOUS
    <2>6. f[0] = 0 /\ \A i \in 0 .. k - 1 : f[i + 1] = f[i] + SizeOf[s[i + 1].key]
      BY <2>1 DEF IsSum
    <2> HIDE DEF g
    <2>7. ASSUME NEW i \in 0 .. k PROVE g[i + 1] = g[i] + SizeOf[s[i + 1].key]
      <3>1. CASE i = k
        BY <2>3, <2>4, <3>1
      <3>2. CASE i # k
        <4>1. i \in 0 .. k - 1 /\ i + 1 \in 0 .. k
          BY <3>2
        <4> QED
          BY <2>3, <2>6, <4>1
      <3> QED
        BY <3>1, <3>2
    <2>8. \A i \in 0 .. (k + 1) - 1 : g[i + 1] = g[i] + SizeOf[s[i + 1].key]
      BY <2>7
    <2>9. IsSum(g, s, k + 1)
      BY <2>2, <2>3, <2>5, <2>6, <2>8 DEF IsSum
    <2> QED
      BY <2>9
  <1> HIDE DEF S
  <1>3. n \in S
    BY <1>1, <1>2, NatInduct
  <1> QED
    BY <1>3 DEF S

(* Sizes is the last value of one.                                         *)
LEMMA SizesIsSum ==
    ASSUME NEW s, Len(s) \in Nat
    PROVE  \E f : IsSum(f, s, Len(s)) /\ Sizes(s) = f[Len(s)]
  <1> DEFINE n == Len(s)
             R(f) == [i \in 0 .. n |-> IF i = 0 THEN 0 ELSE f[i - 1] + SizeOf[s[i].key]]
             F == CHOOSE f : f = R(f)
  <1>1. Sizes(s) = F[n]
    BY DEF Sizes
  <1>2. \E f : f = R(f)
    <2>1. PICK f : IsSum(f, s, n)
      BY SumExists
    <2>2. ASSUME NEW i \in 0 .. n
          PROVE  f[i] = R(f)[i]
      <3>1. CASE i = 0
        BY <2>1, <3>1 DEF IsSum
      <3>2. CASE i # 0
        <4>1. i - 1 \in 0 .. n - 1 /\ (i - 1) + 1 = i
          BY <3>2
        <4>2. f[i] = f[i - 1] + SizeOf[s[i].key]
          BY <2>1, <4>1 DEF IsSum
        <4> QED
          BY <3>2, <4>2
      <3> QED
        BY <3>1, <3>2
    <2>3. f = [i \in 0 .. n |-> f[i]]
      BY <2>1 DEF IsSum
    <2>4. R(f) = [i \in 0 .. n |-> R(f)[i]]
      OBVIOUS
    <2>5. f = R(f)
      <3> HIDE DEF R
      <3> QED
        BY <2>2, <2>3, <2>4
    <2> QED
      BY <2>5
  <1>3. F = R(F)
    BY <1>2
  <1> HIDE DEF F
  <1>4. F = [i \in 0 .. n |-> F[i]]
    BY <1>3
  <1>5. F[0] = 0
    <2>1. 0 \in 0 .. n
      OBVIOUS
    <2> QED
      BY <1>3, <2>1
  <1>6. ASSUME NEW i \in 0 .. n - 1
        PROVE  F[i + 1] = F[i] + SizeOf[s[i + 1].key]
    <2>1. i + 1 \in 0 .. n /\ i + 1 # 0 /\ (i + 1) - 1 = i
      OBVIOUS
    <2>2. R(F)[i + 1] = F[i] + SizeOf[s[i + 1].key]
      BY <2>1
    <2> QED
      BY <1>3, <2>2
  <1>7. IsSum(F, s, n)
    BY <1>4, <1>5, <1>6 DEF IsSum
  <1> QED
    BY <1>1, <1>7

(* The entries of a map.                                                   *)
Entries(s) == IsSeq(s) /\ \A i \in 1 .. Len(s) : s[i].key \in Templates

(* Two sums agree as long as the keys do.                                  *)
LEMMA SumsAgree ==
    ASSUME NEW s, NEW t, NEW f, NEW g, NEW n \in Nat, NEW m \in Nat, NEW k \in Nat,
           k <= n, k <= m, IsSum(f, s, n), IsSum(g, t, m),
           \A i \in 1 .. k : s[i].key \in Templates /\ t[i].key = s[i].key
    PROVE  f[k] = g[k] /\ f[k] \in Nat
  <1> DEFINE S == {i \in Nat : i <= k => f[i] = g[i] /\ f[i] \in Nat}
  <1>1. 0 \in S
    BY DEF IsSum
  <1>2. ASSUME NEW i \in Nat, i \in S PROVE i + 1 \in S
    <2> SUFFICES ASSUME i + 1 <= k PROVE f[i + 1] = g[i + 1] /\ f[i + 1] \in Nat
      OBVIOUS
    <2>1. f[i] = g[i] /\ f[i] \in Nat
      BY <1>2
    <2>2. i \in 0 .. n - 1 /\ i \in 0 .. m - 1 /\ i + 1 \in 1 .. k
      OBVIOUS
    <2>3. f[i + 1] = f[i] + SizeOf[s[i + 1].key]
      BY <2>2 DEF IsSum
    <2>4. g[i + 1] = g[i] + SizeOf[t[i + 1].key]
      BY <2>2 DEF IsSum
    <2>5. t[i + 1].key = s[i + 1].key /\ SizeOf[s[i + 1].key] \in Nat
      BY <2>2, SizesAssumption
    <2> QED
      BY <2>1, <2>3, <2>4, <2>5
  <1> HIDE DEF S
  <1>3. k \in S
    BY <1>1, <1>2, NatInduct
  <1> QED
    BY <1>3 DEF S

(* The size of a map with one entry more.                                  *)
LEMMA SizesStep ==
    ASSUME NEW s, NEW t, Entries(s), Len(t) + 1 = Len(s), Len(t) \in Nat,
           \A i \in 1 .. Len(t) : t[i].key = s[i].key
    PROVE  Sizes(s) = Sizes(t) + SizeOf[s[Len(s)].key] /\ Sizes(t) \in Nat
  <1> DEFINE n == Len(s)
             k == Len(t)
  <1>1. n \in Nat /\ n = k + 1
    OBVIOUS
  <1>2. PICK f : IsSum(f, s, n) /\ Sizes(s) = f[n]
    BY <1>1, SizesIsSum
  <1>3. PICK g : IsSum(g, t, k) /\ Sizes(t) = g[k]
    BY SizesIsSum
  <1> HIDE DEF n, k
  <1>4. k \in Nat /\ k <= n /\ k <= k /\ k \in 0 .. n - 1
    BY <1>1 DEF k
  <1>5. \A i \in 1 .. k : s[i].key \in Templates /\ t[i].key = s[i].key
    BY <1>1, <1>4 DEF Entries, n, k
  <1>6. f[k] = g[k] /\ f[k] \in Nat
    BY <1>1, <1>2, <1>3, <1>4, <1>5, SumsAgree
  <1>7. f[n] = f[k] + SizeOf[s[n].key]
    BY <1>1, <1>2, <1>4 DEF IsSum
  <1> QED
    BY <1>2, <1>3, <1>6, <1>7 DEF n

(* The sum depends on the keys only; the sum of nothing is 0.              *)
LEMMA SizesSame ==
    ASSUME NEW s, NEW t, Entries(s), Len(t) = Len(s),
           \A i \in 1 .. Len(s) : t[i].key = s[i].key
    PROVE  Sizes(s) = Sizes(t) /\ Sizes(s) \in Nat /\ (Len(s) = 0 => Sizes(s) = 0)
  <1> DEFINE n == Len(s)
  <1>1. n \in Nat
    BY DEF Entries, IsSeq
  <1>2. PICK f : IsSum(f, s, n) /\ Sizes(s) = f[n]
    BY <1>1, SizesIsSum
  <1>3. PICK g : IsSum(g, t, n) /\ Sizes(t) = g[n]
    BY <1>1, SizesIsSum
  <1> HIDE DEF n
  <1>4. \A i \in 1 .. n : s[i].key \in Templates /\ t[i].key = s[i].key
    BY DEF Entries, n
  <1>5. n <= n
    BY <1>1
  <1>6. f[n] = g[n] /\ f[n] \in Nat
    BY <1>1, <1>2, <1>3, <1>4, <1>5, SumsAgree
  <1>7. n = 0 => f[n] = 0
    BY <1>2 DEF IsSum
  <1> QED
    BY <1>2, <1>3, <1>6, <1>7 DEF n

(* Every value of a sum of sizes is a natural number.                      *)
LEMMA SumsAreNat ==
    ASSUME NEW s, Entries(s), NEW f, IsSum(f, s, Len(s))
    PROVE  \A k \in 0 .. Len(s) : f[k] \in Nat
  <1> DEFINE n == Len(s)
  <1>1. n \in Nat
    BY DEF Entries, IsSeq
  <1>2. ASSUME NEW k \in 0 .. n PROVE f[k] \in Nat
    <2>1. \A i \in 1 .. k : s[i].key \in Templates /\ s[i].key = s[i].key
      BY <1>1 DEF Entries
    <2>2. k \in Nat /\ k <= n
      BY <1>1
    <2>3. IsSum(f, s, n)
      OBVIOUS
    <2> HIDE DEF n
    <2> QED
      BY <1>1, <2>1, <2>2, <2>3, SumsAgree
  <1> QED
    BY <1>2

(* A map that is cut in two: the sizes of the parts add up.                *)
LEMMA SizesSplit ==
    ASSUME NEW s, Entries(s), NEW m \in 0 .. Len(s),
           NEW p, IsSeq(p), Len(p) = m, \A i \in 1 .. m : p[i] = s[i],
           NEW t, IsSeq(t), Len(t) = Len(s) - m, \A i \in 1 .. Len(s) - m : t[i] = s[m + i]
    PROVE  Sizes(s) = Sizes(p) + Sizes(t) /\ Sizes(p) \in Nat /\ Sizes(t) \in Nat
  <1> DEFINE n == Len(s)
             r == Len(t)
  <1>1. n \in Nat /\ m \in Nat /\ r \in Nat /\ m <= n /\ m <= m /\ n = m + r
    BY DEF Entries, IsSeq
  <1>2. Entries(t)
    <2>1. ASSUME NEW i \in 1 .. r PROVE t[i].key \in Templates
      <3>1. m + i \in 1 .. n /\ t[i] = s[m + i]
        BY <1>1
      <3> QED
        BY <3>1 DEF Entries
    <2> QED
      BY <2>1 DEF Entries
  <1>3. PICK f : IsSum(f, s, n) /\ Sizes(s) = f[n]
    BY <1>1, SizesIsSum
  <1>4. PICK g : IsSum(g, p, m) /\ Sizes(p) = g[m]
    BY <1>1, SizesIsSum
  <1>5. PICK h : IsSum(h, t, r) /\ Sizes(t) = h[r]
    BY <1>1, SizesIsSum
  <1>6. \A k \in 0 .. r : h[k] \in Nat
    BY <1>2, <1>5, SumsAreNat
  <1>7. f[m] = g[m] /\ f[m] \in Nat
    <2>1. \A i \in 1 .. m : s[i].key \in Templates /\ p[i].key = s[i].key
      BY <1>1 DEF Entries
    <2> HIDE DEF n
    <2> QED
      BY <1>1, <1>3, <1>4, <2>1, SumsAgree
  <1>8. \A i \in 1 .. r : t[i] = s[m + i] /\ s[m + i].key \in Templates
    <2>1. \A i \in 1 .. r : m + i \in 1 .. n
      BY <1>1
    <2> QED
      BY <1>1, <2>1 DEF Entries
  <1> HIDE DEF n, r
  <1> DEFINE S == {i \in Nat : i <= r => f[m + i] = f[m] + h[i]}
  <1>9. 0 \in S
    BY <1>1, <1>5, <1>7 DEF IsSum
  <1>10. ASSUME NEW i \in Nat, i \in S PROVE i + 1 \in S
    <2> SUFFICES ASSUME i + 1 <= r PROVE f[m + (i + 1)] = f[m] + h[i + 1]
      OBVIOUS
    <2>1. f[m + i] = f[m] + h[i]
      BY <1>1, <1>10
    <2>2. m + i \in 0 .. n - 1 /\ i \in 0 .. r - 1 /\ i + 1 \in 1 .. r
          /\ m + (i + 1) = (m + i) + 1 /\ i \in 0 .. r
      BY <1>1
    <2>3. f[(m + i) + 1] = f[m + i] + SizeOf[s[(m + i) + 1].key]
      BY <1>3, <2>2 DEF IsSum
    <2>4. h[i + 1] = h[i] + SizeOf[t[i + 1].key]
      BY <1>5, <2>2 DEF IsSum
    <2>5. t[i + 1] = s[(m + i) + 1] /\ SizeOf[t[i + 1].key] \in Nat
      BY <1>8, <2>2, SizesAssumption
    <2>6. h[i] \in Nat
      BY <1>6, <2>2
    <2> QED
      BY <1>7, <2>1, <2>2, <2>3, <2>4, <2>5, <2>6
  <1> HIDE DEF S
  <1>11. r \in S
    BY <1>1, <1>9, <1>10, NatInduct
  <1>12. f[m + r] = f[m] + h[r]
    BY <1>1, <1>11 DEF S
  <1>13. h[r] \in Nat
    BY <1>1, <1>6
  <1> QED
    BY <1>1, <1>3, <1>4, <1>5, <1>7, <1>12, <1>13

(* A map without its entry j.                                              *)
Without(u, t, j) ==
    /\ IsSeq(u) /\ Len(u) + 1 = Len(t)
    /\ \A i \in 1 .. Len(u) : u[i] = t[IF i < j THEN i ELSE i + 1]

(* The size of the map is that of the rest and of the entry.               *)
LEMMA SizesRemove ==
    ASSUME NEW t, Entries(t), NEW j \in 1 .. Len(t), NEW u, Without(u, t, j)
    PROVE  Sizes(t) = Sizes(u) + SizeOf[t[j].key] /\ Entries(u)
  <1> DEFINE n == Len(t)
             r == Len(u)
  <1>0. n \in Nat /\ r \in Nat /\ n = r + 1
    <2>1. Len(t) \in Nat
      BY DEF Entries, IsSeq
    <2>2. Len(u) \in Nat /\ Len(u) + 1 = Len(t)
      BY DEF Without, IsSeq
    <2> QED
      BY <2>1, <2>2
  <1>1. n \in Nat /\ r \in Nat /\ n = r + 1 /\ j \in Nat /\ j >= 1 /\ j <= n
    <2> HIDE DEF r
    <2> QED
      BY <1>0
  <1>2. \A i \in 1 .. r : u[i] = t[IF i < j THEN i ELSE i + 1]
    BY DEF Without
  <1>3. \A i \in 1 .. n : t[i].key \in Templates /\ SizeOf[t[i].key] \in Nat
    BY SizesAssumption DEF Entries
  <1>4. Entries(u)
    <2>1. ASSUME NEW i \in 1 .. r PROVE u[i].key \in Templates
      <3>1. (IF i < j THEN i ELSE i + 1) \in 1 .. n
        BY <1>1
      <3> QED
        BY <1>2, <1>3, <3>1
    <2> QED
      BY <2>1 DEF Entries, Without
  <1>5. PICK f : IsSum(f, t, n) /\ Sizes(t) = f[n]
    BY <1>1, SizesIsSum
  <1>6. PICK g : IsSum(g, u, r) /\ Sizes(u) = g[r]
    BY <1>1, SizesIsSum
  <1>7. \A k \in 0 .. n : f[k] \in Nat
    BY <1>5, SumsAreNat
  <1>8. \A k \in 0 .. r : g[k] \in Nat
    BY <1>4, <1>6, SumsAreNat
  <1> DEFINE z == SizeOf[t[j].key]
  <1>9. z \in Nat
    BY <1>1, <1>3
  <1> HIDE DEF n, r, z
  <1> DEFINE S == {i \in Nat : i <= r => /\ i < j => g[i] = f[i]
                                         /\ i + 1 >= j => f[i + 1] = g[i] + z}
  <1>10. \A i \in 0 .. n - 1 : f[i + 1] = f[i] + SizeOf[t[i + 1].key]
    BY <1>5 DEF IsSum
  <1>11. \A i \in 0 .. r - 1 : g[i + 1] = g[i] + SizeOf[u[i + 1].key]
    BY <1>6 DEF IsSum
  <1>12. f[0] = 0 /\ g[0] = 0
    BY <1>5, <1>6 DEF IsSum
  <1>13. 0 \in S
    <2>1. 0 \in 0 .. n - 1
      BY <1>1
    <2>2. f[0 + 1] = f[0] + SizeOf[t[0 + 1].key]
      BY <1>10, <2>1
    <2>3. CASE j = 1
      BY <1>9, <1>12, <2>2, <2>3 DEF z
    <2>4. CASE j > 1
      BY <1>1, <1>12, <2>4
    <2> QED
      BY <1>1, <2>3, <2>4
  <1>14. ASSUME NEW i \in Nat, i \in S PROVE i + 1 \in S
    <2> SUFFICES ASSUME i + 1 <= r
                 PROVE  /\ i + 1 < j => g[i + 1] = f[i + 1]
                        /\ (i + 1) + 1 >= j => f[(i + 1) + 1] = g[i + 1] + z
      OBVIOUS
    <2>1. i <= r /\ i \in 0 .. r - 1 /\ i \in 0 .. n - 1 /\ i + 1 \in 0 .. n - 1
          /\ i + 1 \in 1 .. r /\ i + 1 \in 1 .. n /\ (i + 1) + 1 \in 1 .. n
      BY <1>1
    <2>2. f[i + 1] = f[i] + SizeOf[t[i + 1].key]
      BY <1>10, <2>1
    <2>3. f[(i + 1) + 1] = f[i + 1] + SizeOf[t[(i + 1) + 1].key]
      BY <1>10, <2>1
    <2>4. g[i + 1] = g[i] + SizeOf[u[i + 1].key]
      BY <1>11, <2>1
    <2>5. u[i + 1] = t[IF i + 1 < j THEN i + 1 ELSE (i + 1) + 1]
      BY <1>2, <2>1 DEF r
    <2>6. (i < j => g[i] = f[i]) /\ (i + 1 >= j => f[i + 1] = g[i] + z)
      BY <1>14, <2>1 DEF S
    <2>7. i + 1 < j => g[i + 1] = f[i + 1]
      BY <1>1, <2>2, <2>4, <2>5, <2>6
    <2>8. ASSUME (i + 1) + 1 >= j PROVE f[(i + 1) + 1] = g[i + 1] + z
      <3>1. CASE (i + 1) + 1 = j
        <4>1. i + 1 < j /\ SizeOf[t[(i + 1) + 1].key] = z
          BY <1>1, <3>1 DEF z
        <4> QED
          BY <2>3, <2>7, <4>1
      <3>2. CASE i + 1 >= j
        <4>1. f[i + 1] = g[i] + z /\ u[i + 1] = t[(i + 1) + 1]
          BY <1>1, <2>5, <2>6, <3>2
        <4>2. g[i] \in Nat /\ SizeOf[t[(i + 1) + 1].key] \in Nat
          <5>1. i \in 0 .. r /\ (i + 1) + 1 \in 1 .. n
            BY <1>1, <2>1
          <5> QED
            BY <1>3, <1>8, <5>1 DEF n
        <4> HIDE DEF S
        <4> QED
          BY <1>9, <2>3, <2>4, <4>1, <4>2
      <3> QED
        BY <1>1, <2>8, <3>1, <3>2
    <2> QED
      BY <2>7, <2>8
  <1> HIDE DEF S
  <1>15. r \in S
    BY <1>1, <1>13, <1>14, NatInduct
  <1>16. f[r + 1] = g[r] + z
    BY <1>1, <1>15 DEF S
  <1> QED
    BY <1>1, <1>4, <1>5, <1>6, <1>16 DEF z

(* No key is in a map twice.                                               *)
OneEach(s) == \A i, k \in 1 .. Len(s) : s[i].key = s[k].key => i = k

(* Two maps with the same keys, in any two orders.                         *)
SameKeys(s, t) ==
    /\ Entries(s) /\ OneEach(s)
    /\ Entries(t) /\ OneEach(t)
    /\ Len(s) = Len(t)
    /\ \A i \in 1 .. Len(s) : \E j \in 1 .. Len(t) : t[j].key = s[i].key

(* They still have the same keys when the last of one and its like in the  *)
(* other are taken away.                                                   *)
LEMMA SameKeysLess ==
    ASSUME NEW s, NEW t, SameKeys(s, t), NEW n \in Nat, Len(s) = n + 1,
           NEW j \in 1 .. n + 1, t[j].key = s[n + 1].key,
           NEW p, IsSeq(p), Len(p) = n, \A i \in 1 .. n : p[i] = s[i],
           NEW u, Without(u, t, j)
    PROVE  SameKeys(p, u)
  <1>1. Len(t) = n + 1 /\ Len(u) = n
    <2>1. Len(t) = n + 1
      BY DEF SameKeys
    <2>2. Len(u) + 1 = Len(t) /\ Len(u) \in Nat
      BY DEF Without, IsSeq
    <2> QED
      BY <2>1, <2>2
  <1>2. Entries(u)
    <2>1. Entries(t)
      BY DEF SameKeys
    <2> QED
      BY <1>1, <2>1, SizesRemove
  <1>3. \A i \in 1 .. n : u[i] = t[IF i < j THEN i ELSE i + 1]
    BY <1>1 DEF Without
  <1>4. /\ \A i \in 1 .. n + 1 : s[i].key \in Templates
        /\ \A i, k \in 1 .. n + 1 : s[i].key = s[k].key => i = k
        /\ \A i, k \in 1 .. n + 1 : t[i].key = t[k].key => i = k
        /\ \A i \in 1 .. n + 1 : \E k \in 1 .. n + 1 : t[k].key = s[i].key
    BY <1>1 DEF SameKeys, Entries, OneEach
  <1>5. Entries(p) /\ OneEach(p)
    <2>1. \A i \in 1 .. n : i \in 1 .. n + 1 /\ p[i] = s[i]
      OBVIOUS
    <2> QED
      BY ZenonT(30), <1>4, <2>1 DEF Entries, OneEach
  <1>6. OneEach(u)
    <2>1. ASSUME NEW i \in 1 .. n, NEW k \in 1 .. n, u[i].key = u[k].key PROVE i = k
      <3> DEFINE x == IF i < j THEN i ELSE i + 1
                 y == IF k < j THEN k ELSE k + 1
      <3>1. x \in 1 .. n + 1 /\ y \in 1 .. n + 1 /\ (x = y => i = k)
        OBVIOUS
      <3>2. u[i] = t[x] /\ u[k] = t[y]
        BY <1>3
      <3> HIDE DEF x, y
      <3> QED
        BY <1>4, <2>1, <3>1, <3>2
    <2> QED
      BY <1>1, <2>1 DEF OneEach
  <1>7. ASSUME NEW i \in 1 .. n PROVE \E k \in 1 .. n : u[k].key = p[i].key
    <2>1. i \in 1 .. n + 1 /\ n + 1 \in 1 .. n + 1 /\ i # n + 1 /\ p[i] = s[i]
      OBVIOUS
    <2>2. PICK k \in 1 .. n + 1 : t[k].key = s[i].key
      BY <1>4, <2>1
    <2>3. k # j
      <3>1. SUFFICES ASSUME k = j PROVE FALSE
        OBVIOUS
      <3>2. s[i].key = s[n + 1].key
        BY <2>2, <3>1
      <3>3. i = n + 1
        BY <1>4, <2>1, <3>2
      <3> QED
        BY <3>3
    <2>4. CASE k < j
      <3>1. k \in 1 .. n /\ u[k] = t[k]
        BY <1>3, <2>4
      <3> QED
        BY <2>1, <2>2, <3>1
    <2>5. CASE k > j
      <3>1. k - 1 \in 1 .. n /\ ~(k - 1 < j) /\ (k - 1) + 1 = k
        BY <2>5
      <3>2. u[k - 1] = t[k]
        BY <1>3, <3>1
      <3> QED
        BY <2>1, <2>2, <3>1, <3>2
    <2> QED
      BY <2>3, <2>4, <2>5
  <1> QED
    BY <1>1, <1>2, <1>5, <1>6, <1>7 DEF SameKeys

(* The order of the map does not matter to the sum.                        *)
LEMMA SizesPermuted ==
    ASSUME NEW s, NEW t, SameKeys(s, t)
    PROVE  Sizes(s) = Sizes(t)
  <1> DEFINE S == {n \in Nat : \A x, y : SameKeys(x, y) /\ Len(x) = n => Sizes(x) = Sizes(y)}
  <1>1. 0 \in S
    <2> SUFFICES ASSUME NEW x, NEW y, SameKeys(x, y), Len(x) = 0
                 PROVE  Sizes(x) = Sizes(y)
      OBVIOUS
    <2>1. Entries(x) /\ Entries(y) /\ Len(y) = Len(x)
      BY DEF SameKeys
    <2>2. \A i \in 1 .. Len(x) : y[i].key = x[i].key
      OBVIOUS
    <2> QED
      BY <2>1, <2>2, SizesSame
  <1>2. ASSUME NEW n \in Nat, n \in S PROVE n + 1 \in S
    <2> SUFFICES ASSUME NEW x, NEW y, SameKeys(x, y), Len(x) = n + 1
                 PROVE  Sizes(x) = Sizes(y)
      OBVIOUS
    <2>1. Entries(x) /\ Entries(y) /\ Len(y) = n + 1 /\ IsSeq(x) /\ IsSeq(y)
      BY DEF SameKeys, Entries
    <2>2. PICK j \in 1 .. n + 1 : y[j].key = x[n + 1].key
      <3>1. n + 1 \in 1 .. Len(x)
        OBVIOUS
      <3> QED
        BY <2>1, <3>1 DEF SameKeys
    <2> DEFINE p == SubSeq(x, 1, n)
               u == [i \in 1 .. n |-> y[IF i < j THEN i ELSE i + 1]]
    <2>3. IsSeq(p) /\ Len(p) = n /\ \A i \in 1 .. n : p[i] = x[i]
      <3>1. n \in 0 .. Len(x)
        OBVIOUS
      <3> QED
        BY <2>1, <3>1, PrefixSeq
    <2>4. Without(u, y, j)
      <3>1. u = [i \in 1 .. n |-> u[i]]
        OBVIOUS
      <3>2. \A i \in 1 .. n : u[i] = y[IF i < j THEN i ELSE i + 1]
        OBVIOUS
      <3> HIDE DEF u
      <3>3. IsSeq(u) /\ Len(u) = n
        BY <3>1, FunctionSeq
      <3> QED
        BY <2>1, <3>2, <3>3 DEF Without
    <2> HIDE DEF p, u
    <2>5. SameKeys(p, u)
      BY <2>2, <2>3, <2>4, SameKeysLess
    <2>6. Sizes(p) = Sizes(u)
      BY <1>2, <2>3, <2>5
    <2>7. Sizes(x) = Sizes(p) + SizeOf[x[n + 1].key]
      <3>1. Len(p) + 1 = Len(x) /\ Len(p) \in Nat
        BY <2>3
      <3>2. \A i \in 1 .. Len(p) : p[i].key = x[i].key
        BY <2>3
      <3> QED
        BY <2>1, <3>1, <3>2, SizesStep
    <2>8. Sizes(y) = Sizes(u) + SizeOf[y[j].key]
      BY <2>1, <2>4, SizesRemove
    <2> QED
      BY <2>2, <2>6, <2>7, <2>8
  <1> HIDE DEF S
  <1>3. Len(s) \in Nat
    BY DEF SameKeys, Entries, IsSeq
  <1>4. Len(s) \in S
    BY <1>1, <1>2, <1>3, NatInduct
  <1> QED
    BY <1>4 DEF S

-----------------------------------------------------------------------------
(* The cache *)

(* A map of the cache: entries with a key each.                            *)
Cached(m) == Entries(m) /\ OneEach(m)

(* What the counters should say of a map.                                  *)
Counters(m) == [entries |-> Len(m), size |-> Sizes(m)]

(* A map that the limits of an owner leave alone.                          *)
Within(l, m) ==
    /\ l.entries > 0 => Len(m) <= l.entries
    /\ l.size > 0 => Sizes(m) <= l.size

(* What holds after every step: the limits hold of the map without the     *)
(* module that was added last.                                             *)
CacheInv ==
    /\ limits \in Limits
    /\ Cached(map)
    /\ stat = Counters(map)
    /\ map # <<>> => Within(limits, Front(map))

(* The counters are numbers.                                               *)
LEMMA CountersNat ==
    ASSUME NEW m, Entries(m)
    PROVE  Counters(m).entries \in Nat /\ Counters(m).size \in Nat
  <1>1. Len(m) \in Nat
    BY DEF Entries, IsSeq
  <1>2. Sizes(m) \in Nat
    <2>1. Len(m) = Len(m) /\ \A i \in 1 .. Len(m) : m[i].key = m[i].key
      OBVIOUS
    <2> QED
      BY <2>1, SizesSame
  <1> QED
    BY <1>1, <1>2 DEF Counters

(* A map has as many keys as entries, and its entries are as many.         *)
LEMMA KeysCounted ==
    ASSUME NEW m, Cached(m)
    PROVE  /\ DOMAIN m = 1 .. Len(m)
           /\ Cardinality(Keys(m)) = Len(m)
           /\ IsFiniteSet(ToSet(m)) /\ Cardinality(ToSet(m)) = Len(m)
  <1> DEFINE n == Len(m)
  <1>1. n \in Nat /\ DOMAIN m = 1 .. n /\ m \in [1 .. n -> {m[i] : i \in 1 .. n}]
    BY DEF Cached, Entries, IsSeq
  <1>2. \A i, k \in 1 .. n : m[i].key = m[k].key => i = k
    BY DEF Cached, OneEach
  <1>3. IsFiniteSet(1 .. n) /\ Cardinality(1 .. n) = n
    <2>1. 1 \in Int /\ n \in Int
      BY <1>1
    <2> HIDE DEF n
    <2>2. /\ IsFiniteSet(1 .. n)
          /\ Cardinality(1 .. n) = IF 1 > n THEN 0 ELSE n - 1 + 1
      BY <2>1, FS_Interval, Zenon
    <2> QED
      BY <1>1, <2>2
  <1> DEFINE f == [i \in 1 .. n |-> m[i].key]
  <1>4. Keys(m) = {m[i].key : i \in 1 .. n} /\ ToSet(m) = {m[i] : i \in 1 .. n}
    BY <1>1 DEF Keys, ToSet
  <1>5. f \in Bijection(1 .. n, Keys(m))
    BY <1>2, <1>4 DEF Bijection, Injection, Surjection, IsInjective
  <1>6. m \in Bijection(1 .. n, ToSet(m))
    BY <1>1, <1>2, <1>4 DEF Bijection, Injection, Surjection, IsInjective
  <1> HIDE DEF n, f
  <1>7. Cardinality(Keys(m)) = n
    BY <1>3, <1>5, FS_Bijection DEF ExistsBijection
  <1>8. IsFiniteSet(ToSet(m)) /\ Cardinality(ToSet(m)) = n
    BY <1>3, <1>6, FS_Bijection DEF ExistsBijection
  <1> QED
    BY <1>1, <1>7, <1>8 DEF n

(* The sort changes the order and nothing else.                            *)
LEMMA SortedSame ==
    ASSUME NEW m, Cached(m), NEW s \in Sorted(m)
    PROVE  SameKeys(s, m) /\ Cached(s)
  <1> DEFINE n == Len(m)
             T == ToSet(m)
  <1>1. n \in Nat /\ DOMAIN m = 1 .. n /\ IsFiniteSet(T) /\ Cardinality(T) = n
    BY KeysCounted DEF Cached, Entries, IsSeq
  <1>2. T = {m[i] : i \in 1 .. n}
    BY <1>1 DEF ToSet
  <1>3. /\ \A i \in 1 .. n : m[i].key \in Templates
        /\ \A i, k \in 1 .. n : m[i].key = m[k].key => i = k
        /\ Entries(m) /\ OneEach(m)
    BY DEF Cached, Entries, OneEach
  <1> HIDE DEF n, T
  <1>4. s \in [1 .. n -> T] /\ \A i, k \in 1 .. n : i # k => s[i] # s[k]
    <2>1. s \in SetToSeqs(T)
      BY DEF Sorted, T
    <2> QED
      BY <1>1, <2>1 DEF SetToSeqs
  <1>5. IsSeq(s) /\ Len(s) = n
    <2>1. s \in Seq(T) /\ Len(s) = n
      BY <1>1, <1>4
    <2> QED
      BY <2>1, SeqIsSeq
  <1>6. \A i \in 1 .. n : \E j \in 1 .. n : s[i] = m[j]
    BY <1>2, <1>4
  <1>7. Entries(s)
    BY <1>3, <1>5, <1>6 DEF Entries
  <1>8. OneEach(s)
    <2>1. ASSUME NEW i \in 1 .. n, NEW k \in 1 .. n, s[i].key = s[k].key PROVE i = k
      <3>1. PICK x \in 1 .. n : s[i] = m[x]
        BY <1>6
      <3>2. PICK y \in 1 .. n : s[k] = m[y]
        BY <1>6
      <3>3. x = y
        BY <1>3, <2>1, <3>1, <3>2
      <3> QED
        BY <1>4, <3>1, <3>2, <3>3
    <2> QED
      BY <1>5, <2>1 DEF OneEach
  <1>9. Len(m) = n
    BY DEF n
  <1>10. \A i \in 1 .. Len(s) : \E j \in 1 .. Len(m) : m[j].key = s[i].key
    BY <1>5, <1>6, <1>9
  <1> QED
    BY <1>3, <1>5, <1>7, <1>8, <1>9, <1>10 DEF SameKeys, Cached

(* The loop of cache_gc ends, with the map empty or with an entry that may *)
(* stay, and the limits hold of what it leaves.                            *)
LEMMA RemovalEnds ==
    ASSUME NEW s, Len(s) \in Nat
    PROVE  /\ RemovedFrom(s) \in 0 .. Len(s)
           /\ \/ RemovedFrom(s) = Len(s)
              \/ ~ShouldGc(StatAfter(s, RemovedFrom(s)))
  <1> DEFINE l == Len(s)
             May(n) == ShouldGcEntry(s[n + 1], StatAfter(s, n))
             T == {n \in 0 .. l : n = l \/ ~May(n)}
  <1>1. l \in Nat
    OBVIOUS
  <1>2. RemovedFrom(s) = CHOOSE n \in 0 .. l :
                            /\ n = l \/ ~May(n)
                            /\ \A k \in 0 .. n - 1 : May(k)
    BY DEF RemovedFrom
  <1>3. ASSUME NEW n, ~May(n) PROVE ~ShouldGc(StatAfter(s, n))
    BY <1>3 DEF ShouldGcEntry
  <1> HIDE DEF l, May
  <1>4. T # {} /\ T \in SUBSET Nat
    <2>1. l \in T
      BY <1>1
    <2> QED
      BY SMTT(30), <1>1, <2>1
  <1>5. PICK x \in T : \A y \in T : x <= y
    BY <1>4, LeastNat
  <1>6. \A k \in 0 .. x - 1 : May(k)
    <2>1. ASSUME NEW k \in 0 .. x - 1, ~May(k) PROVE FALSE
      <3>1. k \in 0 .. l
        BY <1>1, <2>1
      <3>2. k \in T
        BY <2>1, <3>1
      <3> QED
        BY <1>5, <2>1, <3>2
    <2> QED
      BY <2>1
  <1>7. \E n \in 0 .. l : (n = l \/ ~May(n)) /\ \A k \in 0 .. n - 1 : May(k)
    BY <1>5, <1>6
  <1> DEFINE r == RemovedFrom(s)
  <1>8. r \in 0 .. l /\ (r = l \/ ~May(r))
    BY <1>2, <1>7, Zenon
  <1> HIDE DEF r
  <1>9. r = l \/ ~ShouldGc(StatAfter(s, r))
    BY <1>3, <1>8
  <1> QED
    BY <1>8, <1>9 DEF r, l

(* What the limits say of the counters they say of the map.                *)
LEMMA LimitsOfCounters ==
    ASSUME NEW m, Entries(m), limits \in Limits, ~ShouldGc(Counters(m))
    PROVE  Within(limits, m)
  <1>1. Len(m) \in Nat /\ Sizes(m) \in Nat
    BY CountersNat DEF Counters
  <1>2. limits.entries \in Nat /\ limits.size \in Nat
    BY LimitsAssumption
  <1> QED
    BY <1>1, <1>2 DEF ShouldGc, Counters, Within

(* A collection leaves a map that its counters describe and its limits     *)
(* leave alone.                                                            *)
LEMMA CollectedGood ==
    ASSUME CacheInv, NEW c \in Collected(map)
    PROVE  Cached(c.map) /\ c.stat = Counters(c.map) /\ Within(limits, c.map)
  <1>1. PICK s \in Sorted(map) :
            c = [map |-> SubSeq(s, RemovedFrom(s) + 1, Len(s)),
                 stat |-> StatAfter(s, RemovedFrom(s))]
    BY DEF Collected
  <1>2. SameKeys(s, map) /\ Cached(s) /\ Entries(s) /\ IsSeq(s) /\ Len(s) \in Nat
    <2>1. SameKeys(s, map) /\ Cached(s)
      BY SortedSame DEF CacheInv
    <2> QED
      BY <2>1 DEF Cached, Entries, IsSeq
  <1>3. Sizes(s) = Sizes(map) /\ Len(s) = Len(map)
    BY <1>2, SizesPermuted DEF SameKeys
  <1> DEFINE n == RemovedFrom(s)
             p == SubSeq(s, 1, n)
             t == SubSeq(s, n + 1, Len(s))
  <1>4. n \in 0 .. Len(s) /\ (n = Len(s) \/ ~ShouldGc(StatAfter(s, n)))
    BY <1>2, RemovalEnds
  <1>5. c.map = t /\ c.stat = StatAfter(s, n)
    BY <1>1
  <1>6. StatAfter(s, n) = [entries |-> stat.entries - n, size |-> stat.size - Sizes(p)]
    BY DEF StatAfter
  <1> HIDE DEF n
  <1>7. IsSeq(p) /\ Len(p) = n /\ \A i \in 1 .. n : p[i] = s[i]
    BY <1>2, <1>4, PrefixSeq
  <1>8. IsSeq(t) /\ Len(t) = Len(s) - n /\ \A i \in 1 .. Len(s) - n : t[i] = s[n + i]
    BY <1>2, <1>4, SuffixSeq
  <1> HIDE DEF p, t
  <1>9. Sizes(s) = Sizes(p) + Sizes(t) /\ Sizes(p) \in Nat /\ Sizes(t) \in Nat
    BY <1>2, <1>4, <1>7, <1>8, SizesSplit
  <1>10. Cached(t)
    <2>1. \A i \in 1 .. Len(s) : s[i].key \in Templates
      BY <1>2 DEF Entries
    <2>2. \A i, k \in 1 .. Len(s) : s[i].key = s[k].key => i = k
      BY <1>2 DEF Cached, OneEach
    <2>3. \A i \in 1 .. Len(t) : t[i] = s[n + i] /\ n + i \in 1 .. Len(s)
      BY <1>2, <1>4, <1>8
    <2>4. Entries(t)
      BY <1>8, <2>1, <2>3 DEF Entries
    <2>5. OneEach(t)
      <3>1. ASSUME NEW i \in 1 .. Len(t), NEW k \in 1 .. Len(t), t[i].key = t[k].key
            PROVE  i = k
        <4>1. n + i = n + k
          BY <2>2, <2>3, <3>1
        <4> QED
          BY <1>2, <1>4, <4>1
      <3> QED
        BY <3>1 DEF OneEach
    <2> QED
      BY <2>4, <2>5 DEF Cached
  <1>11. StatAfter(s, n) = Counters(t)
    <2>1. stat.entries = Len(s) /\ stat.size = Sizes(s)
      BY <1>3 DEF CacheInv, Counters
    <2>2. Sizes(s) - Sizes(p) = Sizes(t)
      BY <1>9
    <2> QED
      BY <1>6, <1>8, <2>1, <2>2 DEF Counters
  <1>12. Within(limits, t)
    <2>1. CASE n = Len(s)
      <3>1. Len(t) = 0
        BY <1>2, <1>8, <2>1
      <3>2. Sizes(t) = 0
        <4>1. Entries(t) /\ \A i \in 1 .. Len(t) : t[i].key = t[i].key
          BY <1>10 DEF Cached
        <4> QED
          BY <3>1, <4>1, SizesSame
      <3>3. limits.entries \in Nat /\ limits.size \in Nat
        BY LimitsAssumption DEF CacheInv
      <3> QED
        BY <3>1, <3>2, <3>3 DEF Within
    <2>2. CASE ~ShouldGc(StatAfter(s, n))
      <3>1. ~ShouldGc(Counters(t))
        BY <1>11, <2>2
      <3> QED
        BY <1>10, <3>1, LimitsOfCounters DEF Cached, CacheInv
    <2> QED
      BY <1>4, <2>1, <2>2
  <1> QED
    BY <1>5, <1>10, <1>11, <1>12

(* A collection adds nothing.                                              *)
LEMMA CollectedKeys ==
    ASSUME CacheInv, NEW c \in Collected(map)
    PROVE  Keys(c.map) \subseteq Keys(map)
  <1>1. PICK s \in Sorted(map) : c.map = SubSeq(s, RemovedFrom(s) + 1, Len(s))
    BY DEF Collected
  <1>2. SameKeys(s, map) /\ Cached(s) /\ IsSeq(s) /\ Len(s) \in Nat /\ Cached(map)
    BY SortedSame DEF CacheInv, Cached, Entries, IsSeq
  <1> DEFINE n == RemovedFrom(s)
             t == SubSeq(s, n + 1, Len(s))
  <1>3. n \in 0 .. Len(s)
    BY <1>2, RemovalEnds
  <1> HIDE DEF n
  <1>4. IsSeq(t) /\ Len(t) = Len(s) - n /\ \A i \in 1 .. Len(s) - n : t[i] = s[n + i]
    BY <1>2, <1>3, SuffixSeq
  <1>5. c.map = t
    BY <1>1 DEF n
  <1> HIDE DEF t
  <1>6. DOMAIN t = 1 .. Len(t)
    BY <1>4 DEF IsSeq
  <1>7. DOMAIN map = 1 .. Len(map)
    BY <1>2, KeysCounted
  <1>8. ASSUME NEW i \in 1 .. Len(t) PROVE t[i].key \in Keys(map)
    <2>1. n + i \in 1 .. Len(s) /\ t[i] = s[n + i]
      BY <1>2, <1>3, <1>4, <1>8
    <2>2. PICK j \in 1 .. Len(map) : map[j].key = s[n + i].key
      BY <1>2, <2>1 DEF SameKeys
    <2> QED
      BY <1>7, <2>1, <2>2 DEF Keys
  <1> QED
    BY <1>5, <1>6, <1>8 DEF Keys

(* What cache_add finds when it comes to the map: one that its counters    *)
(* describe, that the limits leave alone, and that has no key more.        *)
LEMMA BeforeAddGood ==
    ASSUME CacheInv, NEW c \in BeforeAdd
    PROVE  /\ Cached(c.map) /\ c.stat = Counters(c.map) /\ Within(limits, c.map)
           /\ Keys(c.map) \subseteq Keys(map)
  <1>1. CASE ShouldGc(stat)
    <2>1. c \in Collected(map)
      BY <1>1 DEF BeforeAdd
    <2> QED
      BY <2>1, CollectedGood, CollectedKeys
  <1>2. CASE ~ShouldGc(stat)
    <2>1. c.map = map /\ c.stat = stat
      BY <1>2 DEF BeforeAdd
    <2>2. Cached(map) /\ stat = Counters(map) /\ Entries(map) /\ limits \in Limits
      BY DEF CacheInv, Cached
    <2>3. Within(limits, map)
      BY <1>2, <2>2, LimitsOfCounters
    <2> QED
      BY <2>1, <2>2, <2>3
  <1> QED
    BY <1>1, <1>2

(* An add after a miss does not throw.                                     *)
LEMMA MissAdds ==
    ASSUME CacheInv, NEW t, FindMiss(t)
    PROVE  ~AddThrows(t)
  <1>1. \A c \in BeforeAdd : t \notin Keys(c.map)
    BY BeforeAddGood DEF FindMiss
  <1> QED
    BY <1>1 DEF AddThrows

(* Limits that hold of a map hold of it without its last entry.            *)
LEMMA FrontWithin ==
    ASSUME NEW l \in Limits, NEW m, Entries(m), m # <<>>, Within(l, m)
    PROVE  Within(l, Front(m))
  <1> DEFINE n == Len(m)
             p == SubSeq(m, 1, n - 1)
  <1>1. IsSeq(m) /\ n \in Nat /\ n > 0
    <2>1. IsSeq(m) /\ Len(m) \in Nat
      BY DEF Entries, IsSeq
    <2>2. Len(m) = 0 => m = <<>>
      BY <2>1, EmptyIsSeq, EqualSeq
    <2> QED
      BY <2>1, <2>2
  <1>2. Front(m) = p
    BY DEF Front
  <1>3. IsSeq(p) /\ Len(p) = n - 1 /\ \A i \in 1 .. n - 1 : p[i] = m[i]
    <2>1. n - 1 \in 0 .. Len(m)
      BY <1>1
    <2> QED
      BY <1>1, <2>1, PrefixSeq
  <1> HIDE DEF p
  <1>4. Sizes(m) = Sizes(p) + SizeOf[m[n].key] /\ Sizes(p) \in Nat
    <2>1. Len(p) + 1 = Len(m) /\ Len(p) \in Nat /\ \A i \in 1 .. Len(p) : p[i].key = m[i].key
      BY <1>1, <1>3
    <2> QED
      BY <2>1, SizesStep
  <1>5. SizeOf[m[n].key] \in Nat
    <2>1. n \in 1 .. Len(m)
      BY <1>1
    <2> QED
      BY <2>1, SizesAssumption DEF Entries
  <1>6. Len(p) <= Len(m) /\ Sizes(p) <= Sizes(m) /\ Len(p) \in Nat /\ Sizes(m) \in Nat
    BY <1>1, <1>3, <1>4, <1>5
  <1>7. l.entries \in Nat /\ l.size \in Nat
    BY LimitsAssumption
  <1> QED
    BY <1>1, <1>2, <1>4, <1>6, <1>7 DEF Within

(* A module that is added to such a map.                                   *)
LEMMA AddedGood ==
    ASSUME NEW m, Cached(m), Within(limits, m), NEW t \in Templates, t \notin Keys(m),
           NEW e, e.key = t
    PROVE  /\ Cached(Append(m, e))
           /\ Counters(Append(m, e)) = [entries |-> Len(m) + 1, size |-> Sizes(m) + SizeOf[t]]
           /\ Within(limits, Front(Append(m, e)))
  <1> DEFINE a == Append(m, e)
             n == Len(m)
  <1>1. Entries(m) /\ OneEach(m) /\ IsSeq(m) /\ n \in Nat
    BY DEF Cached, Entries, IsSeq
  <1>2. IsSeq(a) /\ Len(a) = n + 1 /\ a[n + 1] = e /\ \A i \in 1 .. n : a[i] = m[i]
    BY <1>1, AppendSeq
  <1> HIDE DEF a
  <1>3. \A i \in 1 .. n : m[i].key \in Templates /\ m[i].key # t
    <2>1. DOMAIN m = 1 .. n
      BY KeysCounted
    <2> QED
      BY <1>1, <2>1 DEF Keys, Entries
  <1>4. Entries(a)
    <2>1. ASSUME NEW i \in 1 .. n + 1 PROVE a[i].key \in Templates
      <3>1. CASE i \in 1 .. n
        BY <1>2, <1>3, <3>1
      <3>2. CASE i = n + 1
        BY <1>2, <3>2
      <3> QED
        BY <1>1, <3>1, <3>2
    <2> QED
      BY <1>2, <2>1 DEF Entries
  <1>5. OneEach(a)
    <2>1. ASSUME NEW i \in 1 .. n + 1, NEW k \in 1 .. n + 1, a[i].key = a[k].key PROVE i = k
      <3>1. CASE i \in 1 .. n /\ k \in 1 .. n
        <4>1. m[i].key = m[k].key
          BY <1>2, <2>1, <3>1
        <4> QED
          BY <1>1, <3>1, <4>1 DEF OneEach
      <3>2. CASE i \in 1 .. n /\ k = n + 1
        BY <1>2, <1>3, <2>1, <3>2
      <3>3. CASE i = n + 1 /\ k \in 1 .. n
        BY <1>2, <1>3, <2>1, <3>3
      <3> QED
        BY <1>1, <2>1, <3>1, <3>2, <3>3
    <2> QED
      BY <1>2, <2>1 DEF OneEach
  <1>6. Sizes(a) = Sizes(m) + SizeOf[t]
    <2>1. Len(m) + 1 = Len(a) /\ Len(m) \in Nat /\ \A i \in 1 .. Len(m) : m[i].key = a[i].key
      BY <1>1, <1>2
    <2>2. Sizes(a) = Sizes(m) + SizeOf[a[Len(a)].key]
      BY <1>4, <2>1, SizesStep
    <2> QED
      BY <1>2, <2>2
  <1>7. Within(limits, Front(a))
    <2> DEFINE p == SubSeq(a, 1, n)
    <2>1. Front(a) = p
      <3>1. Len(a) - 1 = n
        BY <1>1, <1>2
      <3> QED
        BY <3>1 DEF Front
    <2>2. IsSeq(p) /\ Len(p) = n /\ \A i \in 1 .. n : p[i] = a[i]
      <3>1. n \in 0 .. Len(a)
        BY <1>1, <1>2
      <3> QED
        BY <1>2, <3>1, PrefixSeq
    <2> HIDE DEF p
    <2>3. Len(p) = Len(m) /\ \A i \in 1 .. Len(m) : p[i].key = m[i].key
      BY <1>2, <2>2
    <2>4. Sizes(p) = Sizes(m)
      BY <1>1, <2>3, SizesSame
    <2> QED
      BY <2>1, <2>3, <2>4 DEF Within
  <1> QED
    BY <1>2, <1>4, <1>5, <1>6, <1>7 DEF Cached, Counters, a

-----------------------------------------------------------------------------
(* One lemma for each operation of the cache *)

(* A collection keeps the invariant.                                       *)
LEMMA GcCacheInv == CacheInv /\ Gc => CacheInv'
  <1> SUFFICES ASSUME CacheInv, Gc PROVE CacheInv'
    OBVIOUS
  <1>1. PICK c \in Collected(map) : map' = c.map /\ stat' = c.stat /\ limits' = limits
    BY DEF Gc
  <1> DEFINE m == c.map
  <1>2. Cached(m) /\ c.stat = Counters(m) /\ Within(limits, m)
    BY CollectedGood
  <1>3. limits \in Limits
    BY DEF CacheInv
  <1>4. m # <<>> => Within(limits, Front(m))
    <2>1. Entries(m)
      BY <1>2 DEF Cached
    <2> HIDE DEF m
    <2> QED
      BY <1>2, <1>3, <2>1, FrontWithin
  <1> QED
    BY <1>1, <1>2, <1>3, <1>4 DEF CacheInv

(* A hit changes a time stamp, and no key.                                 *)
LEMMA HitCacheInv == ASSUME NEW t, CacheInv, FindHit(t) PROVE CacheInv'
  <1> DEFINE n == Len(map)
             g == [i \in DOMAIN map |-> IF map[i].key = t THEN [key |-> t, ts |-> now] ELSE map[i]]
  <1>1. n \in Nat /\ DOMAIN map = 1 .. n /\ Cached(map) /\ Entries(map) /\ IsSeq(map)
    <2>1. Cached(map) /\ Entries(map)
      BY DEF CacheInv, Cached
    <2> QED
      BY <2>1, KeysCounted DEF Entries, IsSeq
  <1>2. map' = g /\ stat' = stat /\ limits' = limits
    BY DEF FindHit
  <1>3. g = [i \in 1 .. n |-> g[i]] /\ \A i \in 1 .. n : g[i].key = map[i].key
    BY <1>1
  <1> HIDE DEF g
  <1>4. IsSeq(g) /\ Len(g) = n
    BY <1>1, <1>3, FunctionSeq
  <1>5. Entries(g)
    BY <1>1, <1>3, <1>4 DEF Entries
  <1>6. OneEach(g)
    BY <1>1, <1>3, <1>4 DEF Cached, OneEach
  <1>7. Sizes(g) = Sizes(map)
    BY <1>1, <1>3, <1>4, SizesSame
  <1>8. Counters(g) = Counters(map)
    BY <1>4, <1>7 DEF Counters
  <1>9. ASSUME g # <<>> PROVE Within(limits, Front(g))
    <2> DEFINE p == SubSeq(map, 1, n - 1)
               q == SubSeq(g, 1, n - 1)
    <2>1. n > 0
      <3>1. n = 0 => g = <<>>
        BY <1>4, EmptyIsSeq, EqualSeq
      <3> QED
        BY <1>1, <1>9, <3>1
    <2>2. n - 1 \in 0 .. Len(map) /\ n - 1 \in 0 .. Len(g)
      BY <1>1, <1>4, <2>1
    <2>3. IsSeq(p) /\ Len(p) = n - 1 /\ \A i \in 1 .. n - 1 : p[i] = map[i]
      BY <1>1, <2>2, PrefixSeq
    <2>4. IsSeq(q) /\ Len(q) = n - 1 /\ \A i \in 1 .. n - 1 : q[i] = g[i]
      BY <1>4, <2>2, PrefixSeq
    <2>5. Front(map) = p /\ Front(g) = q
      BY <1>4 DEF Front
    <2>6. \A i \in 1 .. n - 1 : i \in 1 .. n
      BY <1>1
    <2> HIDE DEF p, q
    <2>7. Entries(p)
      BY <1>1, <2>3, <2>6 DEF Entries
    <2>8. Len(q) = Len(p) /\ \A i \in 1 .. Len(p) : q[i].key = p[i].key
      BY <1>3, <2>3, <2>4, <2>6
    <2>9. Sizes(p) = Sizes(q)
      BY <2>7, <2>8, SizesSame
    <2>10. map # <<>>
      BY <2>1, EmptyIsSeq
    <2> QED
      BY <2>5, <2>8, <2>9, <2>10 DEF CacheInv, Within
  <1> QED
    BY <1>2, <1>5, <1>6, <1>8, <1>9 DEF CacheInv, Cached

(* An add, with a collection before it when the cache is full.             *)
LEMMA AddCacheInv == ASSUME NEW t \in Templates, CacheInv, Add(t) PROVE CacheInv'
  <1> DEFINE e == [key |-> t, ts |-> now]
  <1>1. PICK c \in BeforeAdd :
            /\ t \notin Keys(c.map) /\ map' = Append(c.map, e) /\ limits' = limits
            /\ stat' = [entries |-> c.stat.entries + 1, size |-> c.stat.size + SizeOf[t]]
    BY DEF Add
  <1>2. e.key = t
    OBVIOUS
  <1> HIDE DEF e
  <1>3. Cached(c.map) /\ c.stat = Counters(c.map) /\ Within(limits, c.map)
    BY BeforeAddGood
  <1>4. /\ Cached(map') /\ Within(limits, Front(map'))
        /\ Counters(map') = [entries |-> Len(c.map) + 1, size |-> Sizes(c.map) + SizeOf[t]]
    BY <1>1, <1>2, <1>3, AddedGood
  <1>5. c.stat.entries = Len(c.map) /\ c.stat.size = Sizes(c.map)
    BY <1>3 DEF Counters
  <1> QED
    BY <1>1, <1>4, <1>5 DEF CacheInv, Cached, Entries, OneEach, IsSeq, Counters, Within

(* An add that throws leaves the map as the collection before it did.      *)
LEMMA ThrowCacheInv == ASSUME NEW t, CacheInv, AddThrows(t) PROVE CacheInv'
  <1>1. PICK c \in BeforeAdd : map' = c.map /\ stat' = c.stat /\ limits' = limits
    BY DEF AddThrows
  <1> DEFINE m == c.map
  <1>2. Cached(m) /\ c.stat = Counters(m) /\ Within(limits, m) /\ limits \in Limits
    BY BeforeAddGood DEF CacheInv
  <1>3. m # <<>> => Within(limits, Front(m))
    <2>1. Entries(m)
      BY <1>2 DEF Cached
    <2> HIDE DEF m
    <2> QED
      BY <1>2, <2>1, FrontWithin
  <1> QED
    BY <1>1, <1>2, <1>3 DEF CacheInv

(* An empty map and counters of zero.                                      *)
LEMMA EmptyCached == Cached(<<>>) /\ Counters(<<>>) = [entries |-> 0, size |-> 0]
  <1>1. IsSeq(<<>>) /\ Len(<<>>) = 0
    BY EmptyIsSeq
  <1> DEFINE e == <<>>
  <1>2. IsSeq(e) /\ Len(e) = 0
    BY <1>1
  <1> HIDE DEF e
  <1>3. Entries(e) /\ OneEach(e)
    BY <1>2 DEF Entries, OneEach
  <1>4. Sizes(e) = 0
    BY <1>2, <1>3, SizesSame
  <1> QED
    BY <1>2, <1>3, <1>4 DEF e, Cached, Counters

(* The cache as it is made, and as a reset or a new process leaves it.     *)
LEMMA EmptyCacheInv ==
    ASSUME NEW l \in Limits
    PROVE  /\ limits = l /\ map = <<>> /\ stat = [entries |-> 0, size |-> 0] => CacheInv
           /\ limits' = l /\ map' = <<>> /\ stat' = [entries |-> 0, size |-> 0] => CacheInv'
  BY EmptyCached DEF CacheInv

-----------------------------------------------------------------------------
(* The invariant and its theorems *)

(* The invariant holds at the start.                                       *)
LEMMA InitCacheInv == Init => CacheInv
  BY EmptyCacheInv DEF Init, CacheInit

(* Every step keeps it.                                                    *)
LEMMA NextCacheInv == CacheInv /\ [Next]_vars => CacheInv'
  <1> SUFFICES ASSUME CacheInv, [Next]_vars PROVE CacheInv'
    OBVIOUS
  <1>1. ASSUME UNCHANGED cacheVars PROVE CacheInv'
    BY <1>1 DEF CacheInv, cacheVars
  <1>2. ASSUME NEW t \in Templates, ExecuteTemplate(t) PROVE CacheInv'
    <2>1. CASE ExecuteCached(t)
      BY <2>1, HitCacheInv DEF ExecuteCached
    <2>2. CASE ExecuteCompiled(t)
      <3>1. Compiled(t) \in Templates
        BY RewrittenAssumption DEF Compiled
      <3> QED
        BY <2>2, <3>1, AddCacheInv DEF ExecuteCompiled
    <2>3. CASE ExecuteThrows(t)
      BY <2>3, ThrowCacheInv DEF ExecuteThrows
    <2> QED
      BY <1>2, <2>1, <2>2, <2>3 DEF ExecuteTemplate
  <1>3. CASE \E n \in Names : CallLoaded(n)
    BY <1>2, <1>3 DEF CallLoaded
  <1>4. CASE \E n \in Names : CallRead(n)
    BY <1>2, <1>4 DEF CallRead
  <1>5. CASE \E n \in Names : CallThrows(n)
    BY <1>1, <1>5 DEF CallThrows
  <1>6. CASE \E t \in Templates : CallText(t)
    BY <1>2, <1>6 DEF CallText
  <1>7. CASE Return
    BY <1>1, <1>7 DEF Return
  <1>8. CASE Crash
    BY <1>8, EmptyCacheInv DEF Crash, CacheInv
  <1>9. CASE OwnerCalls
    <2>1. CASE Gc
      BY <2>1, GcCacheInv
    <2>2. CASE Reset
      BY <2>2, EmptyCacheInv DEF Reset, CacheInv
    <2>3. CASE \E t \in Templates : Add(t)
      BY <2>3, AddCacheInv
    <2>4. CASE \E t \in Templates : AddThrows(t)
      BY <2>4, ThrowCacheInv
    <2>5. CASE UNCHANGED cacheVars
      BY <1>1, <2>5
    <2> QED
      BY <1>9, <2>1, <2>2, <2>3, <2>4, <2>5 DEF OwnerCalls
  <1>10. CASE Time
    BY <1>10 DEF Time, Tick, CacheInv
  <1>11. CASE UNCHANGED vars
    BY <1>1, <1>11 DEF vars, cacheVars
  <1> QED
    BY <1>3, <1>4, <1>5, <1>6, <1>7, <1>8, <1>9, <1>10, <1>11 DEF Next

(* The counters and the limits of the in-process cache: cache_gc,          *)
(* cache_add, cache_find and cache_reset, called in any order from         *)
(* templates and from the owner, for any templates, sizes and limits.      *)
THEOREM CacheCoherent == Spec => []CacheInv
  BY InitCacheInv, NextCacheInv, PTL DEF Spec

(* current_entries and current_size describe the map, in which no key is   *)
(* twice, after any sequence of finds, adds, collections and resets, and   *)
(* after adds that threw, in compat mode or not, as long as intern->map    *)
(* points to one.                                                          *)
THEOREM CountersAgree == Spec => []StatsAgree
  <1>1. CacheInv => StatsAgree
    <2> SUFFICES ASSUME CacheInv PROVE StatsAgree
      OBVIOUS
    <2>1. Cached(map) /\ stat.entries = Len(map) /\ stat.size = Sizes(map)
      BY DEF CacheInv, Counters
    <2>2. Cardinality(Keys(map)) = Len(map)
      BY <2>1, KeysCounted
    <2> QED
      BY <2>1, <2>2 DEF StatsAgree
  <1> QED
    BY <1>1, CacheCoherent, PTL

(* Outside of compat mode execute_template adds only what it did not find: *)
(* no template runs on a cache whose map an add has freed.                 *)
THEOREM MapLives == Spec => []TemplatesKeepMap
  <1> DEFINE Inv == CacheInv /\ TemplatesKeepMap
  <1>1. Init => Inv
    BY InitCacheInv DEF Init, TemplatesKeepMap
  <1>2. Inv /\ [Next]_vars => Inv'
    <2> SUFFICES ASSUME CacheInv, TemplatesKeepMap, [Next]_vars PROVE TemplatesKeepMap'
      BY NextCacheInv
    <2>1. ASSUME NEW t, ExecuteTemplate(t) PROVE TemplatesKeepMap'
      <3>1. CASE ExecuteCached(t)
        BY <3>1 DEF ExecuteCached, FindHit, TemplatesKeepMap
      <3>2. CASE ExecuteCompiled(t)
        BY <3>2 DEF ExecuteCompiled, Add, TemplatesKeepMap
      <3>3. CASE ExecuteThrows(t)
        <4>1. compat \/ Compiled(t) = t
          BY DEF Compiled
        <4>2. compat
          BY <3>3, <4>1, MissAdds DEF ExecuteThrows
        <4> QED
          BY <2>1, <4>2 DEF ExecuteTemplate, TemplatesKeepMap
      <3> QED
        BY <2>1, <3>1, <3>2, <3>3 DEF ExecuteTemplate
    <2>2. ASSUME frames # <<>>, UNCHANGED <<mapFreed, compat>> PROVE TemplatesKeepMap'
      BY <2>2 DEF TemplatesKeepMap
    <2>3. CASE \E n \in Names : CallLoaded(n)
      BY <2>1, <2>3 DEF CallLoaded
    <2>4. CASE \E n \in Names : CallRead(n)
      BY <2>1, <2>4 DEF CallRead
    <2>5. CASE \E n \in Names : CallThrows(n)
      BY <2>2, <2>5 DEF CallThrows, cacheVars
    <2>6. CASE \E t \in Templates : CallText(t)
      BY <2>1, <2>6 DEF CallText
    <2>7. CASE Return
      BY <2>2, <2>7 DEF Return, cacheVars
    <2>8. CASE Crash
      BY <2>8 DEF Crash, TemplatesKeepMap
    <2>9. CASE OwnerCalls
      BY <2>9 DEF OwnerCalls, TemplatesKeepMap
    <2>10. CASE Time
      BY <2>10 DEF Time, Tick, TemplatesKeepMap
    <2>11. CASE UNCHANGED vars
      BY <2>11 DEF vars, TemplatesKeepMap
    <2> QED
      BY <2>3, <2>4, <2>5, <2>6, <2>7, <2>8, <2>9, <2>10, <2>11 DEF Next
  <1> QED
    BY <1>1, <1>2, PTL DEF Spec

(* should_gc in front of an add is enough: without the module that was     *)
(* added last, the cache is within max_entries and max_size.               *)
THEOREM LimitsHold == Spec => []LimitsKept
  <1>1. CacheInv => LimitsKept
    BY DEF CacheInv, LimitsKept, Within
  <1> QED
    BY <1>1, CacheCoherent, PTL
=============================================================================
