--------------------------- MODULE SequenceLemmas ---------------------------
(***************************************************************************)
(* Facts about sequences whose elements are of no common type, such as the *)
(* frames of a call stack, and induction over the naturals in a form that  *)
(* takes a set where the library takes an operator.                        *)
(***************************************************************************)
EXTENDS Integers, Sequences, WellFoundedInduction, TLAPS

(* A sequence of anything.                                                 *)
IsSeq(s) == Len(s) \in Nat /\ s \in [1 .. Len(s) -> {s[i] : i \in 1 .. Len(s)}]

(* A set of naturals has a least element.                                  *)
LEMMA LeastNat ==
    ASSUME NEW T \in SUBSET Nat, T # {}
    PROVE  \E x \in T : \A y \in T : x <= y
  <1>1. PICK x \in T : \A y \in T : ~ (<<y, x>> \in OpToRel(<, Nat))
    BY WFMin, NatLessThanWellFounded, Zenon
  <1>2. \A y \in T : <<y, x>> \in Nat \X Nat
    OBVIOUS
  <1>3. \A y \in T : ~ (y < x)
    BY <1>1, <1>2 DEF OpToRel
  <1> QED
    BY <1>3

(* Induction over the naturals: a set that holds 0 and is closed under the *)
(* successor holds them all.                                               *)
LEMMA NatInduct ==
    ASSUME NEW S, 0 \in S, \A n \in Nat : n \in S => n + 1 \in S
    PROVE  \A n \in Nat : n \in S
  <1> SUFFICES ASSUME {n \in Nat : n \notin S} # {} PROVE FALSE
    OBVIOUS
  <1>1. PICK x \in Nat \ S : \A y \in Nat \ S : x <= y
    BY LeastNat, Nat \ S \in SUBSET Nat
  <1>2. x # 0
    OBVIOUS
  <1>3. x - 1 \in Nat /\ x - 1 \in S
    BY <1>1, <1>2
  <1> QED
    BY <1>3

(* A sequence over a set is a sequence.                                    *)
LEMMA SeqIsSeq ==
    ASSUME NEW S, NEW s \in Seq(S)
    PROVE  IsSeq(s)
  BY DEF IsSeq

(* A sequence is one over the set of its elements.                         *)
LEMMA IsSeqSeq ==
    ASSUME NEW s, IsSeq(s)
    PROVE  s \in Seq({s[i] : i \in 1 .. Len(s)})
  BY DEF IsSeq

(* The empty sequence is one.                                              *)
LEMMA EmptyIsSeq == IsSeq(<<>>) /\ Len(<<>>) = 0
  BY DEF IsSeq

(* What Append returns.                                                    *)
LEMMA AppendSeq ==
    ASSUME NEW s, IsSeq(s), NEW e
    PROVE  /\ IsSeq(Append(s, e))
           /\ Len(Append(s, e)) = Len(s) + 1
           /\ \A i \in 1 .. Len(s) : Append(s, e)[i] = s[i]
           /\ Append(s, e)[Len(s) + 1] = e
  <1> DEFINE S == {s[i] : i \in 1 .. Len(s)} \cup {e}
  <1>1. s \in Seq(S)
    BY IsSeqSeq DEF IsSeq
  <1> HIDE DEF S
  <1>2. e \in S
    BY DEF S
  <1>3. /\ Append(s, e) \in Seq(S)
        /\ Len(Append(s, e)) = Len(s) + 1
        /\ \A i \in 1 .. Len(s) : Append(s, e)[i] = s[i]
        /\ Append(s, e)[Len(s) + 1] = e
    BY <1>1, <1>2
  <1> QED
    BY <1>3, SeqIsSeq

(* The first m elements.                                                   *)
LEMMA PrefixSeq ==
    ASSUME NEW s, IsSeq(s), NEW m \in 0 .. Len(s)
    PROVE  /\ IsSeq(SubSeq(s, 1, m))
           /\ Len(SubSeq(s, 1, m)) = m
           /\ \A i \in 1 .. m : SubSeq(s, 1, m)[i] = s[i]
  <1> DEFINE S == {s[i] : i \in 1 .. Len(s)}
  <1>1. s \in Seq(S)
    BY IsSeqSeq
  <1>0. Len(s) \in Nat
    BY DEF IsSeq
  <1> HIDE DEF S
  <1>2. SubSeq(s, 1, m) \in Seq(S)
    BY <1>0, <1>1
  <1>3. Len(SubSeq(s, 1, m)) = m
    BY <1>0, <1>1
  <1>4. \A i \in 1 .. m : SubSeq(s, 1, m)[i] = s[i]
    BY <1>0, <1>1
  <1> QED
    BY <1>2, <1>3, <1>4, SeqIsSeq

(* A sequence with one element replaced.                                   *)
LEMMA ReplaceSeq ==
    ASSUME NEW s, IsSeq(s), NEW k \in 1 .. Len(s), NEW e
    PROVE  /\ IsSeq([s EXCEPT ![k] = e])
           /\ Len([s EXCEPT ![k] = e]) = Len(s)
           /\ \A i \in 1 .. Len(s) : [s EXCEPT ![k] = e][i] = IF i = k THEN e ELSE s[i]
  <1> DEFINE S == {s[i] : i \in 1 .. Len(s)} \cup {e}
  <1>1. s \in Seq(S)
    <2>1. s \in Seq({s[i] : i \in 1 .. Len(s)})
      BY IsSeqSeq
    <2> QED
      BY <2>1
  <1>0. Len(s) \in Nat
    BY DEF IsSeq
  <1>4. e \in S
    OBVIOUS
  <1> HIDE DEF S
  <1>2. [s EXCEPT ![k] = e] \in Seq(S)
    BY <1>1, <1>4
  <1>3. Len([s EXCEPT ![k] = e]) = Len(s)
    BY <1>0, <1>1, <1>4
  <1>5. \A i \in 1 .. Len(s) : [s EXCEPT ![k] = e][i] = IF i = k THEN e ELSE s[i]
    BY <1>1
  <1> QED
    BY <1>2, <1>3, <1>5, SeqIsSeq

(* What a concatenation returns.                                           *)
LEMMA ConcatSeq ==
    ASSUME NEW s, IsSeq(s), NEW t, IsSeq(t)
    PROVE  /\ IsSeq(s \o t)
           /\ Len(s \o t) = Len(s) + Len(t)
           /\ \A i \in 1 .. Len(s) : (s \o t)[i] = s[i]
           /\ \A i \in Len(s) + 1 .. Len(s) + Len(t) : (s \o t)[i] = t[i - Len(s)]
  <1> DEFINE S == {s[i] : i \in 1 .. Len(s)} \cup {t[i] : i \in 1 .. Len(t)}
  <1>0. Len(s) \in Nat /\ Len(t) \in Nat
    BY DEF IsSeq
  <1>1. s \in Seq(S)
    BY IsSeqSeq DEF IsSeq
  <1>2. t \in Seq(S)
    BY IsSeqSeq DEF IsSeq
  <1> HIDE DEF S
  <1>3. s \o t \in Seq(S) /\ Len(s \o t) = Len(s) + Len(t)
    BY <1>1, <1>2
  <1>4. \A i \in 1 .. Len(s) : (s \o t)[i] = s[i]
    BY <1>0, <1>1, <1>2
  <1>5. \A i \in Len(s) + 1 .. Len(s) + Len(t) : (s \o t)[i] = t[i - Len(s)]
    BY <1>0, <1>1, <1>2
  <1> QED
    BY <1>3, <1>4, <1>5, SeqIsSeq

(* Two sequences with the same elements are equal.                         *)
LEMMA EqualSeq ==
    ASSUME NEW s, NEW t, IsSeq(s), IsSeq(t), Len(s) = Len(t),
           \A i \in 1 .. Len(s) : s[i] = t[i]
    PROVE  s = t
  <1> DEFINE n == Len(s)
  <1>1. s = [i \in 1 .. n |-> s[i]] /\ t = [i \in 1 .. n |-> t[i]]
    BY DEF IsSeq
  <1>2. \A i \in 1 .. n : s[i] = t[i]
    OBVIOUS
  <1> HIDE DEF n
  <1>3. [i \in 1 .. n |-> s[i]] = [i \in 1 .. n |-> t[i]]
    BY <1>2
  <1> QED
    BY <1>1, <1>3

(* Concatenating what has been written out is appending.                   *)
LEMMA AppendOne ==
    ASSUME NEW s, IsSeq(s), NEW e
    PROVE  s \o <<e>> = Append(s, e)
  <1>1. IsSeq(<<e>>) /\ Len(<<e>>) = 1 /\ <<e>>[1] = e
    BY DEF IsSeq
  <1>2. Len(s) \in Nat
    BY DEF IsSeq
  <1>3. /\ IsSeq(s \o <<e>>) /\ Len(s \o <<e>>) = Len(s) + 1
        /\ \A i \in 1 .. Len(s) : (s \o <<e>>)[i] = s[i]
        /\ (s \o <<e>>)[Len(s) + 1] = e
    BY <1>1, ConcatSeq
  <1>4. \A i \in 1 .. Len(s) + 1 : i \in 1 .. Len(s) \/ i = Len(s) + 1
    BY <1>2
  <1> QED
    BY <1>3, <1>4, AppendSeq, EqualSeq

(* Concatenating a sequence of two is appending twice.                     *)
LEMMA AppendPair ==
    ASSUME NEW s, IsSeq(s), NEW t, IsSeq(t), Len(t) = 2
    PROVE  s \o t = Append(Append(s, t[1]), t[2])
  <1> DEFINE u == s \o t
             w == Append(s, t[1])
             v == Append(w, t[2])
  <1>1. Len(s) \in Nat
    BY DEF IsSeq
  <1>2. /\ IsSeq(u) /\ Len(u) = Len(s) + 2
        /\ \A i \in 1 .. Len(s) : u[i] = s[i]
    <2>1. IsSeq(u)
      BY ConcatSeq
    <2>2. Len(u) = Len(s) + Len(t)
      BY ConcatSeq
    <2>3. \A i \in 1 .. Len(s) : u[i] = s[i]
      BY ConcatSeq
    <2> QED
      BY <2>1, <2>2, <2>3
  <1>3. /\ IsSeq(w) /\ Len(w) = Len(s) + 1
        /\ \A i \in 1 .. Len(s) : w[i] = s[i]
        /\ w[Len(s) + 1] = t[1]
    BY AppendSeq
  <1> HIDE DEF w
  <1>4. /\ IsSeq(v) /\ Len(v) = Len(w) + 1
        /\ \A i \in 1 .. Len(w) : v[i] = w[i]
        /\ v[Len(w) + 1] = t[2]
    BY <1>3, AppendSeq
  <1>5. u[Len(s) + 1] = t[1] /\ u[Len(s) + 2] = t[2]
    <2>1. \A i \in Len(s) + 1 .. Len(s) + Len(t) : u[i] = t[i - Len(s)]
      BY ConcatSeq
    <2> HIDE DEF u
    <2> QED
      BY <1>1, <2>1
  <1> HIDE DEF u, v
  <1>6. ASSUME NEW i \in 1 .. Len(u) PROVE u[i] = v[i]
    <2>1. i \in 1 .. Len(s) \/ i = Len(s) + 1 \/ i = Len(s) + 2
      BY <1>1, <1>2
    <2> QED
      BY <1>1, <1>2, <1>3, <1>4, <1>5, <2>1
  <1>7. u = v
    BY <1>1, <1>2, <1>3, <1>4, <1>6, EqualSeq
  <1> QED
    BY <1>7 DEF u, v, w

(* The same, of two elements that are written out.                         *)
LEMMA AppendTwo ==
    ASSUME NEW s, IsSeq(s), NEW e, NEW f
    PROVE  s \o <<e, f>> = Append(Append(s, e), f)
  <1>1. IsSeq(<<e, f>>) /\ Len(<<e, f>>) = 2 /\ <<e, f>>[1] = e /\ <<e, f>>[2] = f
    BY DEF IsSeq
  <1> QED
    BY <1>1, AppendPair

(* A function on 1 .. n is a sequence of length n.                         *)
LEMMA FunctionSeq ==
    ASSUME NEW n \in Nat, NEW f, f = [i \in 1 .. n |-> f[i]]
    PROVE  IsSeq(f) /\ Len(f) = n
  <1> DEFINE S == {f[i] : i \in 1 .. n}
  <1>1. f \in [1 .. n -> S]
    OBVIOUS
  <1> HIDE DEF S
  <1>2. f \in Seq(S) /\ Len(f) = n
    BY <1>1
  <1> QED
    BY <1>2, SeqIsSeq

(* What is left when the first m elements are taken away.                  *)
LEMMA SuffixSeq ==
    ASSUME NEW s, IsSeq(s), NEW m \in 0 .. Len(s)
    PROVE  /\ IsSeq(SubSeq(s, m + 1, Len(s)))
           /\ Len(SubSeq(s, m + 1, Len(s))) = Len(s) - m
           /\ \A i \in 1 .. Len(s) - m : SubSeq(s, m + 1, Len(s))[i] = s[m + i]
  <1> DEFINE S == {s[i] : i \in 1 .. Len(s)}
             t == SubSeq(s, m + 1, Len(s))
  <1>1. s \in Seq(S)
    BY IsSeqSeq
  <1>0. Len(s) \in Nat
    BY DEF IsSeq
  <1> HIDE DEF S
  <1>2. t \in Seq(S)
    BY <1>0, <1>1
  <1>3. Len(t) = Len(s) - m
    BY <1>0, <1>1
  <1>4. \A i \in 1 .. Len(s) - m : t[i] = s[m + i]
    BY <1>0, <1>1
  <1>5. IsSeq(t)
    BY <1>2, SeqIsSeq
  <1> QED
    BY <1>3, <1>4, <1>5

(* t is s with y in place r.                                               *)
Replaced(s, t, r, y) ==
    IsSeq(t) /\ Len(t) = Len(s) /\ \A i \in 1 .. Len(s) : t[i] = IF i = r THEN y ELSE s[i]

(* There is only one such sequence.                                        *)
LEMMA ReplacedIs ==
    ASSUME NEW s, IsSeq(s), NEW r \in 1 .. Len(s), NEW y, NEW t, Replaced(s, t, r, y)
    PROVE  t = [s EXCEPT ![r] = y]
  <1> DEFINE u == [s EXCEPT ![r] = y]
  <1>1. IsSeq(u)
    BY ReplaceSeq
  <1>2. Len(u) = Len(s)
    BY ReplaceSeq
  <1>3. \A i \in 1 .. Len(s) : u[i] = IF i = r THEN y ELSE s[i]
    BY DEF IsSeq
  <1> HIDE DEF u
  <1>4. IsSeq(t) /\ Len(t) = Len(u) /\ \A i \in 1 .. Len(t) : t[i] = u[i]
    BY <1>2, <1>3 DEF Replaced
  <1>5. t = u
    BY <1>1, <1>4, EqualSeq
  <1> QED
    BY <1>5 DEF u

(* Sequences that end alike.                                               *)
LEMMA ReplaceThenAppend ==
    ASSUME NEW s, IsSeq(s), NEW r \in 1 .. Len(s), NEW y, NEW t, Replaced(s, t, r, y), NEW e
    PROVE  Replaced(Append(s, e), Append(t, e), r, y)
  <1> DEFINE a == Append(s, e)
             u == Append(t, e)
  <1>0. Len(s) \in Nat
    BY DEF IsSeq
  <1>1. IsSeq(t) /\ Len(t) = Len(s) /\ \A i \in 1 .. Len(s) : t[i] = IF i = r THEN y ELSE s[i]
    BY DEF Replaced
  <1>2. /\ IsSeq(a) /\ Len(a) = Len(s) + 1
        /\ \A i \in 1 .. Len(s) : a[i] = s[i]
        /\ a[Len(s) + 1] = e
    BY AppendSeq
  <1>3. /\ IsSeq(u) /\ Len(u) = Len(t) + 1
        /\ \A i \in 1 .. Len(t) : u[i] = t[i]
        /\ u[Len(t) + 1] = e
    BY <1>1, AppendSeq
  <1> HIDE DEF a, u
  <1>4. ASSUME NEW i \in 1 .. Len(a) PROVE u[i] = IF i = r THEN y ELSE a[i]
    <2>1. CASE i \in 1 .. Len(s)
      BY <1>0, <1>1, <1>2, <1>3, <2>1
    <2>2. CASE i = Len(s) + 1
      <3>1. i # r
        BY <1>0, <2>2
      <3> QED
        BY <1>1, <1>2, <1>3, <2>2, <3>1
    <2> QED
      BY <1>0, <1>2, <2>1, <2>2
  <1>5. Replaced(a, u, r, y)
    BY <1>1, <1>2, <1>3, <1>4 DEF Replaced
  <1> QED
    BY <1>5 DEF a, u

(* The last element replaced.                                              *)
LEMMA ReplaceAppended ==
    ASSUME NEW s, IsSeq(s), NEW e, NEW y
    PROVE  Replaced(Append(s, e), Append(s, y), Len(s) + 1, y)
  <1> DEFINE r == Len(s) + 1
             a == Append(s, e)
             b == Append(s, y)
  <1>0. Len(s) \in Nat
    BY DEF IsSeq
  <1>1. /\ IsSeq(a) /\ Len(a) = Len(s) + 1
        /\ \A i \in 1 .. Len(s) : a[i] = s[i]
    BY AppendSeq
  <1>2. /\ IsSeq(b) /\ Len(b) = Len(s) + 1
        /\ \A i \in 1 .. Len(s) : b[i] = s[i]
        /\ b[Len(s) + 1] = y
    BY AppendSeq
  <1> HIDE DEF a, b, r
  <1>3. \A i \in 1 .. Len(a) : b[i] = IF i = r THEN y ELSE a[i]
    BY <1>0, <1>1, <1>2 DEF r
  <1>4. Replaced(a, b, r, y)
    BY <1>1, <1>2, <1>3 DEF Replaced
  <1> QED
    BY <1>4 DEF a, b, r

(* k is l without the element at r.                                        *)
TakenOut(l, k, r, y) ==
    /\ IsSeq(l) /\ IsSeq(k) /\ r \in 1 .. Len(l) /\ Len(k) = Len(l) - 1
    /\ l[r] = y
    /\ \A x \in 1 .. r - 1 : k[x] = l[x]
    /\ \A x \in r .. Len(l) - 1 : k[x] = l[x + 1]

(* The last element taken out, and a turn of the listing behind it.        *)
LEMMA TakenLast ==
    ASSUME NEW s, IsSeq(s), NEW e
    PROVE  TakenOut(Append(s, e), s, Len(s) + 1, e)
  <1>0. Len(s) \in Nat
    BY DEF IsSeq
  <1>1. PICK a : a = Append(s, e)
    OBVIOUS
  <1>2. /\ IsSeq(a) /\ Len(a) = Len(s) + 1
        /\ \A i \in 1 .. Len(s) : a[i] = s[i]
        /\ a[Len(s) + 1] = e
    BY <1>1, AppendSeq
  <1>3. PICK n \in Nat : n = Len(s)
    BY <1>0
  <1>4. n + 1 \in 1 .. n + 1 /\ n = (n + 1) - 1 /\ ~ \E x : x \in n + 1 .. (n + 1) - 1
    OBVIOUS
  <1> QED
    BY <1>1, <1>2, <1>3, <1>4 DEF TakenOut

(* Appending the same to both keeps that.                                  *)
LEMMA TakenOn ==
    ASSUME NEW l, NEW k, NEW r, NEW y, TakenOut(l, k, r, y), NEW e
    PROVE  TakenOut(Append(l, e), Append(k, e), r, y)
  <1>1. /\ IsSeq(l) /\ IsSeq(k) /\ r \in 1 .. Len(l) /\ Len(k) = Len(l) - 1
        /\ l[r] = y
        /\ \A x \in 1 .. r - 1 : k[x] = l[x]
        /\ \A x \in r .. Len(l) - 1 : k[x] = l[x + 1]
    BY DEF TakenOut
  <1>2. PICK a, b : a = Append(l, e) /\ b = Append(k, e)
    OBVIOUS
  <1>3. /\ IsSeq(a) /\ Len(a) = Len(l) + 1
        /\ \A i \in 1 .. Len(l) : a[i] = l[i]
        /\ a[Len(l) + 1] = e
    BY <1>1, <1>2, AppendSeq
  <1>4. /\ IsSeq(b) /\ Len(b) = Len(k) + 1
        /\ \A i \in 1 .. Len(k) : b[i] = k[i]
        /\ b[Len(k) + 1] = e
    BY <1>1, <1>2, AppendSeq
  <1>5. PICK n \in Nat : n = Len(l)
    BY <1>1 DEF IsSeq
  <1>6. r \in 1 .. n /\ Len(k) = n - 1 /\ Len(a) = n + 1 /\ Len(b) = n
    BY <1>1, <1>3, <1>4, <1>5
  <1>7. \A x \in 1 .. r - 1 : b[x] = a[x]
    BY <1>1, <1>3, <1>4, <1>5, <1>6
  <1>8. ASSUME NEW x \in r .. n PROVE b[x] = a[x + 1]
    <2>1. CASE x = n
      <3>1. b[n] = e /\ a[n + 1] = e
        BY <1>3, <1>4, <1>5, <1>6
      <3> QED
        BY <2>1, <3>1
    <2>2. CASE x # n
      <3>1. x \in r .. n - 1 /\ x \in 1 .. n - 1 /\ x + 1 \in 1 .. n
        BY <1>6, <2>2
      <3>2. b[x] = k[x] /\ k[x] = l[x + 1] /\ a[x + 1] = l[x + 1]
        BY <1>1, <1>3, <1>4, <1>5, <1>6, <3>1
      <3> QED
        BY <3>2
    <2> QED
      BY <2>1, <2>2
  <1>9. r \in 1 .. Len(a) /\ Len(b) = Len(a) - 1 /\ a[r] = y /\ Len(a) - 1 = n
    BY <1>1, <1>3, <1>5, <1>6
  <1>10. TakenOut(a, b, r, y)
    BY <1>3, <1>4, <1>7, <1>8, <1>9 DEF TakenOut
  <1> QED
    BY <1>2, <1>10

(* There is only one such sequence.                                        *)
LEMMA TakenIs ==
    ASSUME NEW l, NEW k, NEW r, NEW y, TakenOut(l, k, r, y)
    PROVE  k = SubSeq(l, 1, r - 1) \o SubSeq(l, r + 1, Len(l))
  <1>1. /\ IsSeq(l) /\ IsSeq(k) /\ r \in 1 .. Len(l) /\ Len(k) = Len(l) - 1
        /\ \A x \in 1 .. r - 1 : k[x] = l[x]
        /\ \A x \in r .. Len(l) - 1 : k[x] = l[x + 1]
    BY DEF TakenOut
  <1>2. PICK n \in Nat : n = Len(l)
    BY <1>1 DEF IsSeq
  <1>3. PICK a, b : a = SubSeq(l, 1, r - 1) /\ b = SubSeq(l, r + 1, Len(l))
    OBVIOUS
  <1>4. IsSeq(a) /\ Len(a) = r - 1 /\ \A x \in 1 .. r - 1 : a[x] = l[x]
    <2>1. PICK q : q = r - 1
      OBVIOUS
    <2>2. q \in 0 .. Len(l)
      BY <1>1, <1>2, <2>1
    <2>3. IsSeq(SubSeq(l, 1, q)) /\ Len(SubSeq(l, 1, q)) = q /\ \A x \in 1 .. q : SubSeq(l, 1, q)[x] = l[x]
      BY <1>1, <2>2, PrefixSeq
    <2> QED
      BY <1>3, <2>1, <2>3
  <1>5. IsSeq(b) /\ Len(b) = n - r /\ \A x \in 1 .. n - r : b[x] = l[r + x]
    <2>1. r \in 0 .. Len(l)
      BY <1>1, <1>2
    <2>2. /\ IsSeq(SubSeq(l, r + 1, Len(l))) /\ Len(SubSeq(l, r + 1, Len(l))) = Len(l) - r
          /\ \A x \in 1 .. Len(l) - r : SubSeq(l, r + 1, Len(l))[x] = l[r + x]
      BY <1>1, <2>1, SuffixSeq
    <2> QED
      BY <1>2, <1>3, <2>2
  <1>6. PICK c : c = a \o b
    OBVIOUS
  <1>7. /\ IsSeq(c) /\ Len(c) = Len(a) + Len(b)
        /\ \A x \in 1 .. Len(a) : c[x] = a[x]
        /\ \A x \in Len(a) + 1 .. Len(a) + Len(b) : c[x] = b[x - Len(a)]
    BY <1>4, <1>5, <1>6, ConcatSeq
  <1>8. r \in 1 .. n /\ Len(a) = r - 1 /\ Len(b) = n - r /\ Len(c) = n - 1 /\ Len(k) = n - 1
    BY <1>1, <1>2, <1>4, <1>5, <1>7
  <1>9. ASSUME NEW x \in 1 .. n - 1 PROVE k[x] = c[x]
    <2>1. CASE x < r
      <3>1. x \in 1 .. r - 1
        BY <1>8, <2>1
      <3> QED
        BY <1>1, <1>4, <1>7, <1>8, <3>1
    <2>2. CASE ~(x < r)
      <3>1. /\ x \in r .. n - 1 /\ x \in (r - 1) + 1 .. (r - 1) + (n - r)
            /\ x - (r - 1) \in 1 .. n - r /\ r + (x - (r - 1)) = x + 1
        BY <1>8, <2>2
      <3>2. c[x] = b[x - (r - 1)] /\ b[x - (r - 1)] = l[x + 1]
        BY <1>5, <1>7, <1>8, <3>1
      <3>3. k[x] = l[x + 1]
        BY <1>1, <1>2, <3>1
      <3> QED
        BY <3>2, <3>3
    <2> QED
      BY <2>1, <2>2
  <1>10. Len(k) = Len(c) /\ \A x \in 1 .. Len(k) : k[x] = c[x]
    BY <1>8, <1>9
  <1>11. k = c
    BY <1>1, <1>7, <1>10, EqualSeq
  <1> QED
    BY <1>3, <1>6, <1>11
=============================================================================
