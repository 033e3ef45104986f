-------------------------- MODULE ShieldedTxProofs --------------------------
(***************************************************************************)
(* Shielded plans, for every funding, every set of notes, every placement  *)
(* of the builder and every alteration of the PCZT.  What verification     *)
(* lets through pays what was planned, and a PCZT nobody touched passes.   *)
(***************************************************************************)
EXTENDS ShieldedTx, TransactionProofs, FiniteSetTheorems

(***************************************************************************)
(* Sums: what is added up in another order, or with zeros in between, adds *)
(* up to the same.                                                         *)
(***************************************************************************)
\* n integers.
AllInt(n, s) == Len(s) = n /\ \A i \in 1..n : s[i] \in Int

LEMMA SumDiffers ==
  ASSUME NEW n \in Nat, NEW u, NEW v, AllInt(n, u), AllInt(n, v),
         NEW k \in 1..n, \A i \in 1..n : i # k => u[i] = v[i]
  PROVE  Sum(u) = Sum(v) + u[k] - v[k] /\ Sum(u) \in Int /\ Sum(v) \in Int
<1>0. /\ Len(u) = n /\ Len(v) = n
      /\ \A i \in 1..n : u[i] \in Int /\ v[i] \in Int
  BY DEF AllInt
<1>1. PICK g : Adds(g, u) /\ Sum(u) = g[n]
  BY <1>0, SumAdds
<1>2. PICK h : Adds(h, v) /\ Sum(v) = h[n]
  BY <1>0, SumAdds
<1>3. /\ g[0] = 0 /\ h[0] = 0
      /\ \A i \in 1..n : g[i] = g[i - 1] + u[i] /\ h[i] = h[i - 1] + v[i]
  BY <1>0, <1>1, <1>2 DEF Adds
<1> DEFINE Fine(i) == /\ g[i] \in Int /\ h[i] \in Int
                      /\ g[i] = h[i] + (IF i < k THEN 0 ELSE u[k] - v[k])
           B == {i \in 0..n : ~Fine(i)}
<1>4. B = {}
  <2> SUFFICES ASSUME B # {} PROVE FALSE
    OBVIOUS
  <2>1. B \in SUBSET Nat
    OBVIOUS
  <2>2. PICK i \in B : \A j \in B : i <= j
    BY <2>1, LeastOf
  <2>3. i \in 0..n /\ ~Fine(i)
    OBVIOUS
  <2>4. Fine(0)
    BY <1>3
  <2>5. i # 0
    BY <2>3, <2>4
  <2>6. i - 1 \in 0..n /\ i \in 1..n /\ ~(i <= i - 1)
    BY <2>3, <2>5
  <2>7. Fine(i - 1)
    <3>1. i - 1 \notin B
      <4> HIDE DEF B
      <4> QED
        BY <2>2, <2>6
    <3> QED
      BY <2>6, <3>1
  <2>8. g[i] = g[i - 1] + u[i] /\ h[i] = h[i - 1] + v[i]
    BY <1>3, <2>6
  <2>9. u[i] \in Int /\ v[i] \in Int /\ u[k] \in Int /\ v[k] \in Int /\ (i # k => u[i] = v[i])
    BY <1>0, <2>6
  <2>10. CASE i = k
    BY <2>3, <2>6, <2>7, <2>8, <2>9, <2>10
  <2>11. CASE i < k
    BY <2>3, <2>6, <2>7, <2>8, <2>9, <2>11
  <2>12. CASE i > k
    BY <2>3, <2>6, <2>7, <2>8, <2>9, <2>12
  <2> QED
    BY <2>6, <2>10, <2>11, <2>12
<1>5. Fine(n)
  BY <1>4
<1>6. u[k] \in Int /\ v[k] \in Int
  BY <1>0
<1> QED
  BY <1>1, <1>2, <1>5, <1>6

LEMMA SumBoth ==
  ASSUME NEW n \in Nat, NEW u, NEW v, NEW w, AllInt(n, u), AllInt(n, v), Len(w) = n,
         \A i \in 1..n : w[i] = u[i] + v[i]
  PROVE  Sum(w) = Sum(u) + Sum(v)
<1>0. /\ Len(u) = n /\ Len(v) = n
      /\ \A i \in 1..n : u[i] \in Int /\ v[i] \in Int
  BY DEF AllInt
<1>1. PICK g : Adds(g, u) /\ Sum(u) = g[n]
  BY <1>0, SumAdds
<1>2. PICK h : Adds(h, v) /\ Sum(v) = h[n]
  BY <1>0, SumAdds
<1>2a. PICK q : Adds(q, w) /\ Sum(w) = q[n]
  BY SumAdds
<1>3. /\ g[0] = 0 /\ h[0] = 0 /\ q[0] = 0
      /\ \A i \in 1..n : /\ g[i] = g[i - 1] + u[i] /\ h[i] = h[i - 1] + v[i]
                         /\ q[i] = q[i - 1] + w[i]
  BY <1>0, <1>1, <1>2, <1>2a DEF Adds
<1> DEFINE Fine(i) == g[i] \in Int /\ h[i] \in Int /\ q[i] = g[i] + h[i]
           B == {i \in 0..n : ~Fine(i)}
<1>4. B = {}
  <2> SUFFICES ASSUME B # {} PROVE FALSE
    OBVIOUS
  <2>1. B \in SUBSET Nat
    OBVIOUS
  <2>2. PICK i \in B : \A j \in B : i <= j
    BY <2>1, LeastOf
  <2>3. i \in 0..n /\ ~Fine(i)
    OBVIOUS
  <2>4. Fine(0)
    BY <1>3
  <2>5. i # 0
    BY <2>3, <2>4
  <2>6. i - 1 \in 0..n /\ i \in 1..n /\ ~(i <= i - 1)
    BY <2>3, <2>5
  <2>7. Fine(i - 1)
    <3>1. i - 1 \notin B
      <4> HIDE DEF B
      <4> QED
        BY <2>2, <2>6
    <3> QED
      BY <2>6, <3>1
  <2>8. g[i] = g[i - 1] + u[i] /\ h[i] = h[i - 1] + v[i] /\ q[i] = q[i - 1] + w[i]
    BY <1>3, <2>6
  <2>9. u[i] \in Int /\ v[i] \in Int /\ w[i] = u[i] + v[i]
    BY <1>0, <2>6
  <2> QED
    BY <2>3, <2>7, <2>8, <2>9
<1>5. Fine(n)
  BY <1>4
<1> QED
  BY <1>1, <1>2, <1>2a, <1>5

\* b's numbers stand in a at the places m says, and elsewhere a has zeros.
Scattered(a, n, b, k, m) ==
  /\ AllInt(n, a) /\ AllInt(k, b)
  /\ \A j \in 1..k : m[j] \in 1..n /\ a[m[j]] = b[j]
  /\ \A i, j \in 1..k : m[i] = m[j] => i = j
  /\ \A i \in 1..n : (\A j \in 1..k : m[j] # i) => a[i] = 0

LEMMA SumPlaced ==
  ASSUME NEW n \in Nat, NEW k \in Nat, NEW a, NEW b, NEW m, Scattered(a, n, b, k, m)
  PROVE  Sum(a) = Sum(b) /\ Sum(a) \in Int
<1>0. /\ Len(a) = n /\ Len(b) = k
      /\ \A i \in 1..n : a[i] \in Int
      /\ \A j \in 1..k : b[j] \in Int /\ m[j] \in 1..n /\ a[m[j]] = b[j]
      /\ \A i, j \in 1..k : m[i] = m[j] => i = j
      /\ \A i \in 1..n : (\A j \in 1..k : m[j] # i) => a[i] = 0
  BY DEF Scattered, AllInt
<1>1. PICK h : Adds(h, b) /\ Sum(b) = h[k]
  BY <1>0, SumAdds
<1>2. h[0] = 0 /\ \A j \in 1..k : h[j] = h[j - 1] + b[j]
  BY <1>0, <1>1 DEF Adds
<1> DEFINE Hit(j, i) == \E l \in 1..j : m[l] = i
           w(j) == [i \in 1..n |-> IF Hit(j, i) THEN a[i] ELSE 0]
<1>3. ASSUME NEW j \in 0..k PROVE AllInt(n, w(j)) /\ Len(w(j)) = n
  <2>1. PICK x : x = w(j)
    OBVIOUS
  <2>2. x \in [1..n -> Int]
    BY <1>0, <2>1
  <2> HIDE DEF w
  <2>3. Len(x) = n /\ \A i \in 1..n : x[i] \in Int
    BY <2>2
  <2> QED
    BY <2>1, <2>3 DEF AllInt
<1> DEFINE Fine(j) == h[j] \in Int /\ Sum(w(j)) = h[j]
           B == {j \in 0..k : ~Fine(j)}
<1>4. B = {}
  <2> SUFFICES ASSUME B # {} PROVE FALSE
    OBVIOUS
  <2>1. B \in SUBSET Nat
    OBVIOUS
  <2>2. PICK j \in B : \A l \in B : j <= l
    BY <2>1, LeastOf
  <2>3. j \in 0..k /\ ~Fine(j)
    OBVIOUS
  <2>4. Fine(0)
    <3>1. PICK x : x = w(0)
      OBVIOUS
    <3>2. \A i \in 1..n : x[i] \in Int /\ 0 <= x[i] /\ x[i] <= 0
      BY <3>1
    <3>3. Len(x) = n
      <4> HIDE DEF w
      <4> QED
        BY <1>3, <3>1
    <3>4. Sum(x) \in Int /\ n * 0 <= Sum(x) /\ Sum(x) <= n * 0
      BY <3>2, <3>3, SumBounds
    <3>5. Sum(x) = 0
      BY <3>4
    <3> HIDE DEF w
    <3> QED
      BY <1>2, <3>1, <3>5
  <2>5. j # 0
    BY <2>3, <2>4
  <2>6. j - 1 \in 0..k /\ j \in 1..k /\ ~(j <= j - 1)
    BY <2>3, <2>5
  <2>7. Fine(j - 1)
    <3>1. j - 1 \notin B
      <4> HIDE DEF B
      <4> QED
        BY <2>2, <2>6
    <3> QED
      BY <2>6, <3>1
  <2>8. PICK i0 : i0 = m[j]
    OBVIOUS
  <2>9. i0 \in 1..n /\ a[i0] = b[j] /\ a[i0] \in Int
    BY <1>0, <2>6, <2>8
  <2>10. PICK x, y : x = w(j) /\ y = w(j - 1)
    OBVIOUS
  <2>11. AllInt(n, x) /\ AllInt(n, y)
    <3> HIDE DEF w
    <3> QED
      BY <1>3, <2>3, <2>6, <2>10
  <2>12. Hit(j, i0)
    BY <2>6, <2>8
  <2>13. ~Hit(j - 1, i0)
    <3> SUFFICES ASSUME NEW l \in 1..(j - 1), m[l] = i0 PROVE FALSE
      OBVIOUS
    <3>1. l \in 1..k /\ l # j
      BY <2>6
    <3> QED
      BY <1>0, <2>6, <2>8, <3>1
  <2>14. \A i \in 1..n : i # i0 => (Hit(j, i) <=> Hit(j - 1, i))
    <3> SUFFICES ASSUME NEW i \in 1..n, i # i0 PROVE Hit(j, i) <=> Hit(j - 1, i)
      OBVIOUS
    <3>1. \A l \in 1..j : l = j \/ l \in 1..(j - 1)
      BY <2>6
    <3>2. \A l \in 1..(j - 1) : l \in 1..j
      BY <2>6
    <3> QED
      BY <2>8, <3>1, <3>2
  <2>15. x[i0] = a[i0] /\ y[i0] = 0
    <3> HIDE DEF Hit
    <3> QED
      BY <2>9, <2>10, <2>12, <2>13
  <2>16. \A i \in 1..n : i # i0 => x[i] = y[i]
    <3> HIDE DEF Hit
    <3> QED
      BY <2>10, <2>14
  <2>17. Sum(x) = Sum(y) + x[i0] - y[i0] /\ Sum(y) \in Int
    BY <2>9, <2>11, <2>16, SumDiffers
  <2>18. h[j] = h[j - 1] + b[j]
    BY <1>2, <2>6
  <2> HIDE DEF w
  <2>19. Sum(y) = h[j - 1]
    BY <2>7, <2>10
  <2>20. Sum(x) = h[j] /\ h[j] \in Int
    BY <2>9, <2>15, <2>17, <2>18, <2>19
  <2> QED
    BY <2>3, <2>10, <2>20
<1>5. Fine(k)
  <2>1. k \in 0..k /\ k \notin B
    <3> HIDE DEF B
    <3> QED
      BY <1>4
  <2> QED
    BY <2>1
<1>6. \A i \in 1..n : w(k)[i] = a[i]
  BY <1>0
<1>7. PICK x : x = w(k)
  OBVIOUS
<1>8. Len(x) = n /\ AllInt(n, x)
  <2> HIDE DEF w
  <2> QED
    BY <1>3, <1>7
<1>9. \A i \in 1..n : x[i] = a[i]
  BY <1>6, <1>7
<1>10. Sum(x) = Sum(a)
  <2>1. PICK f : Adds(f, x) /\ Sum(x) = f[n]
    BY <1>8, SumAdds
  <2>2. PICK g : g = [i \in 1..n |-> 0]
    OBVIOUS
  <2>3. AllInt(n, g)
    <3>1. g \in [1..n -> Int]
      BY <2>2
    <3>2. Len(g) = n
      BY <3>1
    <3> QED
      BY <3>1, <3>2 DEF AllInt
  <2>4. \A i \in 1..n : x[i] = a[i] + g[i] /\ a[i] = a[i] + g[i]
    BY <1>0, <1>9, <2>2
  <2>5. AllInt(n, a) /\ Len(a) = n
    BY DEF Scattered, AllInt
  <2>6. Sum(x) = Sum(a) + Sum(g)
    BY <1>8, <2>3, <2>4, <2>5, SumBoth
  <2>7. Sum(a) = Sum(a) + Sum(g)
    BY <2>3, <2>4, <2>5, SumBoth
  <2> QED
    BY <2>6, <2>7
<1> HIDE DEF w
<1> QED
  BY <1>1, <1>5, <1>7, <1>10

\* InPool keeps the notes of one pool, in their order.
Keeping(kept, x, pool) == IF x.pool = pool THEN Append(kept, x) ELSE kept

Keeps(g, s, pool) == g[0] = <<>> /\ \A i \in 1..Len(s) : g[i] = Keeping(g[i - 1], s[i], pool)

LEMMA KeepsExists ==
  ASSUME NEW s, Len(s) \in Nat, NEW pool
  PROVE  \E g : Keeps(g, s, pool) /\ g = [i \in 0..Len(s) |-> g[i]]
<1> DEFINE Good(g, k) == /\ g = [i \in 0..k |-> g[i]]
                         /\ g[0] = <<>>
                         /\ \A i \in 1..k : g[i] = Keeping(g[i - 1], s[i], pool)
           B == {k \in 0..Len(s) : ~ \E g : Good(g, k)}
<1>1. B = {}
  <2> SUFFICES ASSUME B # {} PROVE FALSE
    OBVIOUS
  <2>1. B \in SUBSET Nat
    OBVIOUS
  <2>2. PICK k \in B : \A j \in B : k <= j
    BY <2>1, LeastOf
  <2>3. k \in 0..Len(s) /\ k \in Nat /\ ~ \E g : Good(g, k)
    OBVIOUS
  <2>4. CASE k = 0
    <3> DEFINE g == [i \in 0..0 |-> <<>>]
    <3>1. Good(g, k)
      BY <2>4
    <3> QED
      BY <2>3, <3>1
  <2>5. CASE k # 0
    <3>1. k - 1 \in 0..Len(s) /\ k - 1 \notin B /\ k \in 1..Len(s)
      <4>1. k - 1 \in 0..Len(s) /\ k \in 1..Len(s) /\ ~(k <= k - 1)
        BY <2>3, <2>5
      <4> HIDE DEF B
      <4> QED
        BY <2>2, <4>1
    <3>2. PICK g : Good(g, k - 1)
      BY <3>1
    <3>3. PICK e : e = Keeping(g[k - 1], s[k], pool)
      OBVIOUS
    <3> DEFINE f == [i \in 0..k |-> IF i = k THEN e ELSE g[i]]
    <3>4. f[0] = <<>>
      BY <2>3, <2>5, <3>2
    <3>5. ASSUME NEW i \in 1..k PROVE f[i] = Keeping(f[i - 1], s[i], pool)
      <4>1. f[i - 1] = g[i - 1]
        BY <2>3, <3>5
      <4>2. i # k => i \in 1..(k - 1) /\ f[i] = g[i]
        BY <2>3, <3>5
      <4>3. i = k => f[i] = e
        BY <2>3
      <4> HIDE DEF f
      <4> QED
        BY <3>2, <3>3, <4>1, <4>2, <4>3
    <3>6. f = [i \in 0..k |-> f[i]]
      OBVIOUS
    <3> HIDE DEF f
    <3>7. Good(f, k)
      BY <3>4, <3>5, <3>6
    <3> QED
      BY <2>3, <3>7
  <2> QED
    BY <2>4, <2>5
<1>2. PICK g : Good(g, Len(s))
  BY <1>1
<1> QED
  BY <1>2 DEF Keeps

LEMMA InPoolKeeps ==
  ASSUME NEW s, Len(s) \in Nat, NEW pool
  PROVE  \E g : Keeps(g, s, pool) /\ InPool(s, pool) = g[Len(s)]
<1> DEFINE Eqn(g) == g = [i \in 0..Len(s) |-> IF i = 0 THEN <<>> ELSE Keeping(g[i - 1], s[i], pool)]
           F == CHOOSE g : Eqn(g)
<1>1. InPool(s, pool) = F[Len(s)]
  BY DEF InPool, Fold, Keeping
<1>2. PICK g : Keeps(g, s, pool) /\ g = [i \in 0..Len(s) |-> g[i]]
  BY KeepsExists
<1>3. Eqn(g)
  <2>1. \A i \in 0..Len(s) : g[i] = IF i = 0 THEN <<>> ELSE Keeping(g[i - 1], s[i], pool)
    <3>1. \A i \in 0..Len(s) : i # 0 => i \in 1..Len(s)
      OBVIOUS
    <3> QED
      BY <1>2, <3>1 DEF Keeps
  <2> QED
    BY <1>2, <2>1
<1> HIDE DEF Eqn
<1>4. Eqn(F)
  BY <1>3
<1> HIDE DEF F
<1>5. Keeps(F, s, pool)
  <2>1. F = [i \in 0..Len(s) |-> IF i = 0 THEN <<>> ELSE Keeping(F[i - 1], s[i], pool)]
    BY <1>4 DEF Eqn
  <2>2. \A i \in 1..Len(s) : i \in 0..Len(s) /\ i # 0
    OBVIOUS
  <2>3. 0 \in 0..Len(s)
    OBVIOUS
  <2> QED
    BY <2>1, <2>2, <2>3 DEF Keeps
<1> QED
  BY <1>1, <1>5

\* t lists the elements of s[1] .. s[k] that are in the pool; m says where each
\* of them stands in s.
Picks(m, t, s, k, pool) ==
  /\ Len(t) <= k
  /\ \A j \in 1..Len(t) : m[j] \in 1..k /\ t[j] = s[m[j]] /\ s[m[j]].pool = pool
  /\ \A i, j \in 1..Len(t) : m[i] = m[j] => i = j
  /\ \A i \in 1..k : s[i].pool = pool => \E j \in 1..Len(t) : m[j] = i

LEMMA InPoolPicks ==
  ASSUME NEW S, NEW s \in Seq(S), NEW pool
  PROVE  /\ InPool(s, pool) \in Seq(S)
         /\ \E m : Picks(m, InPool(s, pool), s, Len(s), pool)
<1>0. PICK n \in Nat : n = Len(s)
  OBVIOUS
<1>1. PICK g : Keeps(g, s, pool) /\ InPool(s, pool) = g[n]
  BY <1>0, InPoolKeeps
<1>2. g[0] = <<>> /\ \A i \in 1..n : g[i] = Keeping(g[i - 1], s[i], pool)
  BY <1>0, <1>1 DEF Keeps
<1> DEFINE Fine(i) == g[i] \in Seq(S) /\ \E m : Picks(m, g[i], s, i, pool)
           B == {i \in 0..n : ~Fine(i)}
<1>4. B = {}
  <2> SUFFICES ASSUME B # {} PROVE FALSE
    OBVIOUS
  <2>1. B \in SUBSET Nat
    OBVIOUS
  <2>2. PICK i \in B : \A j \in B : i <= j
    BY <2>1, LeastOf
  <2>3. i \in 0..n /\ ~Fine(i)
    OBVIOUS
  <2>4. Fine(0)
    <3>1. g[0] \in Seq(S) /\ Len(g[0]) = 0
      BY <1>2
    <3>2. Picks(<<>>, g[0], s, 0, pool)
      BY <3>1 DEF Picks
    <3> QED
      BY <3>1, <3>2
  <2>5. i # 0
    BY <2>3, <2>4
  <2>6. i - 1 \in 0..n /\ i \in 1..n /\ ~(i <= i - 1)
    BY <2>3, <2>5
  <2>7. Fine(i - 1)
    <3>1. i - 1 \notin B
      <4> HIDE DEF B
      <4> QED
        BY <2>2, <2>6
    <3> QED
      BY <2>6, <3>1
  <2>8. PICK t, e : t = g[i - 1] /\ e = s[i]
    OBVIOUS
  <2>9. t \in Seq(S) /\ \E m : Picks(m, t, s, i - 1, pool)
    BY <2>7, <2>8
  <2>10. PICK m : Picks(m, t, s, i - 1, pool)
    BY <2>9
  <2>11. PICK l \in Nat : l = Len(t)
    BY <2>9
  <2>12. /\ l <= i - 1
         /\ \A j \in 1..l : m[j] \in 1..(i - 1) /\ t[j] = s[m[j]] /\ s[m[j]].pool = pool
         /\ \A a, j \in 1..l : m[a] = m[j] => a = j
         /\ \A a \in 1..(i - 1) : s[a].pool = pool => \E j \in 1..l : m[j] = a
    BY <2>10, <2>11 DEF Picks
  <2>13. \A j \in 1..(i - 1) : j \in 1..i /\ j # i
    BY <2>6
  <2>14. e \in S
    BY <1>0, <2>6, <2>8
  <2>15. CASE e.pool = pool
    <3>1. g[i] = Append(t, e)
      BY <1>2, <2>6, <2>8, <2>15 DEF Keeping
    <3>2. PICK u : u = Append(t, e)
      OBVIOUS
    <3>3. u \in Seq(S) /\ Len(u) = l + 1 /\ \A j \in 1..(l + 1) : u[j] = IF j = l + 1 THEN e ELSE t[j]
      BY <2>9, <2>11, <2>14, <3>2
    <3>4. PICK q : q = [j \in 1..(l + 1) |-> IF j = l + 1 THEN i ELSE m[j]]
      OBVIOUS
    <3>5. q[l + 1] = i /\ \A j \in 1..l : q[j] = m[j]
      BY <3>4
    <3>6. \A j \in 1..(l + 1) : j = l + 1 \/ j \in 1..l
      OBVIOUS
    <3>7. u[l + 1] = e /\ \A j \in 1..l : u[j] = t[j]
      BY <3>3
    <3>8. \A j \in 1..(l + 1) : q[j] \in 1..i /\ u[j] = s[q[j]] /\ s[q[j]].pool = pool
      <4> SUFFICES ASSUME NEW j \in 1..(l + 1)
                   PROVE  q[j] \in 1..i /\ u[j] = s[q[j]] /\ s[q[j]].pool = pool
        OBVIOUS
      <4>1. CASE j = l + 1
        BY <2>6, <2>8, <2>15, <3>5, <3>7, <4>1
      <4>2. CASE j \in 1..l
        BY <2>12, <2>13, <3>5, <3>7, <4>2
      <4> QED
        BY <3>6, <4>1, <4>2
    <3>9. \A a, j \in 1..(l + 1) : q[a] = q[j] => a = j
      <4> SUFFICES ASSUME NEW a \in 1..(l + 1), NEW j \in 1..(l + 1), q[a] = q[j] PROVE a = j
        OBVIOUS
      <4>1. \A b \in 1..l : q[b] # i
        BY <2>12, <2>13, <3>5
      <4>2. CASE a \in 1..l /\ j \in 1..l
        BY <2>12, <3>5, <4>2
      <4>3. CASE a = l + 1
        BY <3>5, <3>6, <4>1, <4>3
      <4>4. CASE j = l + 1
        BY <3>5, <3>6, <4>1, <4>4
      <4> QED
        BY <3>6, <4>2, <4>3, <4>4
    <3>10. \A a \in 1..i : s[a].pool = pool => \E j \in 1..(l + 1) : q[j] = a
      <4> SUFFICES ASSUME NEW a \in 1..i, s[a].pool = pool PROVE \E j \in 1..(l + 1) : q[j] = a
        OBVIOUS
      <4>1. CASE a = i
        <5>1. l + 1 \in 1..(l + 1)
          OBVIOUS
        <5> QED
          BY <3>5, <4>1, <5>1
      <4>2. CASE a # i
        <5>1. a \in 1..(i - 1)
          BY <2>6, <4>2
        <5>2. PICK j \in 1..l : m[j] = a
          BY <2>12, <5>1
        <5>3. j \in 1..(l + 1)
          OBVIOUS
        <5> QED
          BY <3>5, <5>2, <5>3
      <4> QED
        BY <4>1, <4>2
    <3>11. Picks(q, u, s, i, pool)
      <4>1. Len(u) <= i
        BY <2>6, <2>12, <3>3
      <4> QED
        BY <3>3, <3>8, <3>9, <3>10, <4>1 DEF Picks
    <3> QED
      BY <2>3, <3>1, <3>2, <3>3, <3>11
  <2>16. CASE e.pool # pool
    <3>1. g[i] = t
      BY <1>2, <2>6, <2>8, <2>16 DEF Keeping
    <3>2. \A a \in 1..i : s[a].pool = pool => \E j \in 1..l : m[j] = a
      <4> SUFFICES ASSUME NEW a \in 1..i, s[a].pool = pool PROVE \E j \in 1..l : m[j] = a
        OBVIOUS
      <4>1. a \in 1..(i - 1)
        BY <2>6, <2>8, <2>16
      <4> QED
        BY <2>12, <4>1
    <3>3. \A j \in 1..l : m[j] \in 1..i
      BY <2>12, <2>13
    <3>4. l <= i
      BY <2>6, <2>12
    <3>5. Picks(m, t, s, i, pool)
      BY <2>11, <2>12, <3>2, <3>3, <3>4 DEF Picks
    <3> QED
      BY <2>3, <2>9, <3>1, <3>5
  <2> QED
    BY <2>15, <2>16
<1>5. Fine(n)
  <2>1. n \in 0..n /\ n \notin B
    <3> HIDE DEF B
    <3> QED
      BY <1>4
  <2> QED
    BY <2>1
<1> QED
  BY <1>0, <1>1, <1>5

\* No two notes of s share a nullifier.
Distinct(s) == \A i, j \in 1..Len(s) : s[i].id = s[j].id => i = j

Notes(S) == \A x \in S : x.pool \in ValuePool /\ x.value \in Nat \ {0} /\ x.id # "other"

\* t has the elements of s that are in the pool, and no others.
PoolOf(t, s, pool) ==
  /\ \A i \in 1..Len(t) : t[i].pool = pool
  /\ \A x : (\E i \in 1..Len(t) : t[i] = x) <=> (\E i \in 1..Len(s) : s[i] = x) /\ x.pool = pool

LEMMA InPoolNotes ==
  ASSUME NEW S, NEW s \in Seq(S), Distinct(s), NEW pool
  PROVE  /\ InPool(s, pool) \in Seq(S) /\ Distinct(InPool(s, pool))
         /\ PoolOf(InPool(s, pool), s, pool)
<1>1. PICK t : t = InPool(s, pool)
  OBVIOUS
<1>2. t \in Seq(S) /\ \E m : Picks(m, t, s, Len(s), pool)
  BY <1>1, InPoolPicks
<1>3. PICK m : Picks(m, t, s, Len(s), pool)
  BY <1>2
<1>4. /\ \A j \in 1..Len(t) : m[j] \in 1..Len(s) /\ t[j] = s[m[j]] /\ s[m[j]].pool = pool
      /\ \A i, j \in 1..Len(t) : m[i] = m[j] => i = j
      /\ \A i \in 1..Len(s) : s[i].pool = pool => \E j \in 1..Len(t) : m[j] = i
  BY <1>3 DEF Picks
<1>5. Distinct(t)
  <2> SUFFICES ASSUME NEW i \in 1..Len(t), NEW j \in 1..Len(t), t[i].id = t[j].id PROVE i = j
    BY DEF Distinct
  <2>1. m[i] = m[j]
    BY <1>4 DEF Distinct
  <2> QED
    BY <1>4, <2>1
<1>6. \A i \in 1..Len(t) : t[i].pool = pool
  BY <1>4
<1>7. ASSUME NEW x
      PROVE  (\E i \in 1..Len(t) : t[i] = x) <=> (\E i \in 1..Len(s) : s[i] = x) /\ x.pool = pool
  <2>1. ASSUME NEW i \in 1..Len(t), t[i] = x
        PROVE  (\E j \in 1..Len(s) : s[j] = x) /\ x.pool = pool
    BY <1>4, <2>1
  <2>2. ASSUME NEW i \in 1..Len(s), s[i] = x, x.pool = pool
        PROVE  \E j \in 1..Len(t) : t[j] = x
    <3>1. PICK j \in 1..Len(t) : m[j] = i
      BY <1>4, <2>2
    <3> QED
      BY <1>4, <2>2, <3>1
  <2> QED
    BY <2>1, <2>2
<1> QED
  BY <1>1, <1>2, <1>5, <1>6, <1>7 DEF PoolOf

\* One sequence behind another.
LEMMA Behind ==
  ASSUME NEW S, NEW a \in Seq(S), NEW b \in Seq(S)
  PROVE  /\ a \o b \in Seq(S) /\ Len(a \o b) = Len(a) + Len(b)
         /\ \A i \in 1..Len(a \o b) :
              (a \o b)[i] = IF i <= Len(a) THEN a[i] ELSE b[i - Len(a)]
  BY ConcatProperties

Both(s) == InPool(s, "orchard") \o InPool(s, "ironwood")

LEMMA BothDistinct ==
  ASSUME NEW S, NEW s \in Seq(S), Distinct(s)
  PROVE  Both(s) \in Seq(S) /\ Distinct(Both(s))
<1>1. PICK a, b : a = InPool(s, "orchard") /\ b = InPool(s, "ironwood")
  OBVIOUS
<1>2. /\ a \in Seq(S) /\ Distinct(a) /\ \A i \in 1..Len(a) : a[i].pool = "orchard"
      /\ \A x : (\E i \in 1..Len(a) : a[i] = x) <=> (\E i \in 1..Len(s) : s[i] = x) /\ x.pool = "orchard"
  <2>1. a \in Seq(S) /\ Distinct(a) /\ PoolOf(a, s, "orchard")
    BY <1>1, InPoolNotes
  <2> QED
    BY <2>1 DEF PoolOf
<1>3. /\ b \in Seq(S) /\ Distinct(b) /\ \A i \in 1..Len(b) : b[i].pool = "ironwood"
      /\ \A x : (\E i \in 1..Len(b) : b[i] = x) <=> (\E i \in 1..Len(s) : s[i] = x) /\ x.pool = "ironwood"
  <2>1. b \in Seq(S) /\ Distinct(b) /\ PoolOf(b, s, "ironwood")
    BY <1>1, InPoolNotes
  <2> QED
    BY <2>1 DEF PoolOf
<1>4. PICK c : c = a \o b
  OBVIOUS
<1>5. PICK k \in Nat, l \in Nat : k = Len(a) /\ l = Len(b)
  BY <1>2, <1>3
<1>6. /\ c \in Seq(S) /\ Len(c) = k + l
      /\ \A i \in 1..(k + l) : c[i] = IF i <= k THEN a[i] ELSE b[i - k]
  BY <1>2, <1>3, <1>4, <1>5, Behind
<1>7. \A i \in 1..k, j \in 1..l : a[i].id # b[j].id
  <2> SUFFICES ASSUME NEW i \in 1..k, NEW j \in 1..l, a[i].id = b[j].id PROVE FALSE
    OBVIOUS
  <2>1. PICK p \in 1..Len(s) : s[p] = a[i]
    BY <1>2, <1>5
  <2>2. PICK q \in 1..Len(s) : s[q] = b[j]
    BY <1>3, <1>5
  <2>3. p = q
    BY <2>1, <2>2 DEF Distinct
  <2>4. a[i].pool = "orchard" /\ b[j].pool = "ironwood" /\ a[i] = b[j]
    BY <1>2, <1>3, <1>5, <2>1, <2>2, <2>3
  <2> QED
    BY <2>4
<1>8. Distinct(c)
  <2> SUFFICES ASSUME NEW i \in 1..(k + l), NEW j \in 1..(k + l), c[i].id = c[j].id PROVE i = j
    BY <1>6 DEF Distinct
  <2>1. CASE i <= k /\ j <= k
    <3>1. i \in 1..k /\ j \in 1..k /\ c[i] = a[i] /\ c[j] = a[j]
      BY <1>6, <2>1
    <3> QED
      BY <1>2, <1>5, <3>1 DEF Distinct
  <2>2. CASE i > k /\ j > k
    <3>1. i - k \in 1..l /\ j - k \in 1..l /\ c[i] = b[i - k] /\ c[j] = b[j - k]
      BY <1>6, <2>2
    <3>2. i - k = j - k
      BY <1>3, <1>5, <3>1 DEF Distinct
    <3> QED
      BY <3>2
  <2>3. CASE i <= k /\ j > k
    <3>1. i \in 1..k /\ j - k \in 1..l /\ c[i] = a[i] /\ c[j] = b[j - k]
      BY <1>6, <2>3
    <3> QED
      BY <1>7, <3>1
  <2>4. CASE i > k /\ j <= k
    <3>1. j \in 1..k /\ i - k \in 1..l /\ c[j] = a[j] /\ c[i] = b[i - k]
      BY <1>6, <2>4
    <3> QED
      BY <1>7, <3>1
  <2> QED
    BY <2>1, <2>2, <2>3, <2>4
<1> QED
  BY <1>1, <1>4, <1>6, <1>8 DEF Both

LEMMA FundingNotes ==
  ASSUME NEW f \in Funding
  PROVE  /\ f.notes \in Seq(Range(f.notes)) /\ Notes(Range(f.notes)) /\ Distinct(f.notes)
         /\ f.size \in Nat /\ f.carriers \in Seq(Nat)
<1>1. f.notes \in Seq(Range(f.notes)) /\ f.size \in Nat /\ f.carriers \in Seq(Nat)
  BY FundingAssumption
<1>2. \A n \in Range(f.notes) : n.pool \in ValuePool /\ n.value \in Nat \ {0} /\ n.id # "other"
  BY FundingAssumption
<1>3. \A i, j \in DOMAIN f.notes : f.notes[i].id = f.notes[j].id => i = j
  BY FundingAssumption
<1>4. DOMAIN f.notes = 1..Len(f.notes)
  BY <1>1
<1> QED
  BY <1>1, <1>2, <1>3, <1>4 DEF Notes, Distinct

LEMMA SelectSpends ==
  ASSUME NEW f \in Funding, NEW required
  PROVE  /\ select_spends(f, required) \in Seq(Range(f.notes))
         /\ Distinct(select_spends(f, required))
<1>1. PICK s, S : s = f.notes /\ S = Range(f.notes)
  OBVIOUS
<1>2. s \in Seq(S) /\ Distinct(s)
  BY <1>1, FundingNotes
<1>3. PICK n \in Nat : n = Len(s)
  BY <1>2
<1> DEFINE K == {k \in 0..Len(f.notes) : k = Len(f.notes) \/ Values(SubSeq(f.notes, 1, k)) >= required}
<1>4. K \in SUBSET Nat /\ n \in K /\ \A k \in K : k \in 0..n
  BY <1>1, <1>3
<1>5. PICK k : k = CHOOSE i \in K : \A j \in K : i <= j
  OBVIOUS
<1>6. select_spends(f, required) = InPool(SubSeq(f.notes, 1, k), "orchard") \o InPool(SubSeq(f.notes, 1, k), "ironwood")
  BY <1>5 DEF select_spends
<1>7. k \in 0..n
  <2> HIDE DEF K
  <2>1. \E i \in K : \A j \in K : i <= j
    BY <1>4, LeastOf
  <2>2. k \in K
    BY <1>5, <2>1
  <2> QED
    BY <1>4, <2>2
<1>8. PICK t : t = SubSeq(s, 1, k)
  OBVIOUS
<1>9. t \in Seq(S) /\ Len(t) = k /\ \A i \in 1..k : t[i] = s[i] /\ i \in 1..n
  <2>1. k <= n /\ k \in Nat
    BY <1>7
  <2>2. t \in Seq(S) /\ Len(t) = k
    BY <1>2, <1>3, <1>8, <2>1
  <2>3. \A i \in 1..k : t[i] = s[i]
    BY <1>2, <1>3, <1>8, <2>1
  <2> QED
    BY <2>1, <2>2, <2>3
<1>10. Distinct(t)
  BY <1>2, <1>3, <1>9 DEF Distinct
<1>11. Both(t) \in Seq(S) /\ Distinct(Both(t))
  BY <1>9, <1>10, BothDistinct
<1> QED
  BY <1>1, <1>6, <1>8, <1>11 DEF Both

\* f lists the values of the notes.
ValueList(f, s) == f = [i \in 1..Len(s) |-> s[i].value] /\ AllInt(Len(s), f)

LEMMA ValuesIs ==
  ASSUME NEW S, NEW s \in Seq(S), Notes(S)
  PROVE  \E f : ValueList(f, s) /\ Values(s) = Sum(f) /\ Values(s) \in Nat
<1>1. PICK n \in Nat : n = Len(s)
  OBVIOUS
<1>2. PICK f : f = [i \in 1..n |-> s[i].value]
  OBVIOUS
<1>3. <<>> \o f = f /\ Len(f) = n
  <2>1. f = [i \in 1..n |-> f[i]]
    BY <1>2
  <2> QED
    BY <2>1, Listed
<1>4. \A i \in 1..n : f[i] \in Nat
  <2>1. \A i \in 1..n : s[i] \in S
    BY <1>1
  <2> QED
    BY <1>2, <2>1 DEF Notes
<1>5. Values(s) = Sum(f)
  BY <1>1, <1>2, <1>3 DEF Values, Map
<1>6. AllInt(n, f)
  BY <1>3, <1>4 DEF AllInt
<1>7. Sum(f) \in Nat
  <2>1. PICK g : Adds(g, f) /\ Sum(f) = g[n]
    BY <1>3, SumAdds
  <2>2. g[0] = 0 /\ \A i \in 1..n : g[i] = g[i - 1] + f[i]
    BY <1>3, <2>1 DEF Adds
  <2> DEFINE B == {i \in 0..n : g[i] \notin Nat}
  <2>3. B = {}
    <3> SUFFICES ASSUME B # {} PROVE FALSE
      OBVIOUS
    <3>1. B \in SUBSET Nat
      OBVIOUS
    <3>2. PICK i \in B : \A j \in B : i <= j
      BY <3>1, LeastOf
    <3>3. i \in 0..n /\ g[i] \notin Nat
      OBVIOUS
    <3>4. i - 1 \in 0..n /\ i \in 1..n /\ ~(i <= i - 1)
      BY <2>2, <3>3
    <3>5. g[i - 1] \in Nat
      <4>1. i - 1 \notin B
        <5> HIDE DEF B
        <5> QED
          BY <3>2, <3>4
      <4> QED
        BY <3>4, <4>1
    <3>6. g[i] = g[i - 1] + f[i] /\ f[i] \in Nat
      <4> HIDE DEF B
      <4> QED
        BY <1>4, <2>2, <3>4
    <3> QED
      BY <3>3, <3>5, <3>6
  <2>4. g[n] \in Nat
    BY <2>3
  <2> QED
    BY <2>1, <2>4
<1> QED
  BY <1>1, <1>2, <1>5, <1>6, <1>7 DEF ValueList

\* The values of one pool, and zero for the notes of the other.
Share(s, pool) == [i \in 1..Len(s) |-> IF s[i].pool = pool THEN s[i].value ELSE 0]

LEMMA PoolShare ==
  ASSUME NEW S, NEW s \in Seq(S), Notes(S), NEW pool
  PROVE  /\ Values(InPool(s, pool)) = Sum(Share(s, pool)) /\ AllInt(Len(s), Share(s, pool))
         /\ Values(InPool(s, pool)) \in Nat
<1>1. PICK t, a : t = InPool(s, pool) /\ a = Share(s, pool)
  OBVIOUS
<1>2. t \in Seq(S) /\ \E m : Picks(m, t, s, Len(s), pool)
  BY <1>1, InPoolPicks
<1>3. PICK m : Picks(m, t, s, Len(s), pool)
  BY <1>2
<1>4. PICK n \in Nat, k \in Nat : n = Len(s) /\ k = Len(t)
  BY <1>2
<1>5. PICK b : ValueList(b, t) /\ Values(t) = Sum(b) /\ Values(t) \in Nat
  BY <1>2, ValuesIs
<1>6. b = [i \in 1..k |-> t[i].value] /\ AllInt(k, b)
  BY <1>4, <1>5 DEF ValueList
<1>7. \A i \in 1..n : s[i] \in S /\ s[i].value \in Int
  BY <1>4 DEF Notes
<1>8. a = [i \in 1..n |-> IF s[i].pool = pool THEN s[i].value ELSE 0]
  BY <1>1, <1>4 DEF Share
<1>9. AllInt(n, a)
  <2>1. a \in [1..n -> Int]
    BY <1>7, <1>8
  <2>2. Len(a) = n
    BY <2>1
  <2> QED
    BY <2>1, <2>2 DEF AllInt
<1>10. /\ \A j \in 1..k : m[j] \in 1..n /\ t[j] = s[m[j]] /\ s[m[j]].pool = pool
       /\ \A i, j \in 1..k : m[i] = m[j] => i = j
       /\ \A i \in 1..n : s[i].pool = pool => \E j \in 1..k : m[j] = i
  BY <1>3, <1>4 DEF Picks
<1>11. Scattered(a, n, b, k, m)
  <2>1. \A j \in 1..k : m[j] \in 1..n /\ a[m[j]] = b[j]
    BY <1>6, <1>8, <1>10
  <2>2. \A i \in 1..n : (\A j \in 1..k : m[j] # i) => a[i] = 0
    BY <1>8, <1>10
  <2> QED
    BY <1>6, <1>9, <1>10, <2>1, <2>2 DEF Scattered
<1>12. Sum(a) = Sum(b)
  BY <1>11, SumPlaced
<1> QED
  BY <1>1, <1>4, <1>5, <1>9, <1>12

\* Every note is in one pool or the other.
LEMMA PoolValues ==
  ASSUME NEW S, NEW s \in Seq(S), Notes(S)
  PROVE  Values(s) = Values(InPool(s, "orchard")) + Values(InPool(s, "ironwood"))
<1>1. PICK n \in Nat : n = Len(s)
  OBVIOUS
<1>2. PICK w : ValueList(w, s) /\ Values(s) = Sum(w)
  BY ValuesIs
<1>3. PICK u, v : u = Share(s, "orchard") /\ v = Share(s, "ironwood")
  OBVIOUS
<1>4. Values(InPool(s, "orchard")) = Sum(u) /\ AllInt(n, u)
  BY <1>1, <1>3, PoolShare
<1>5. Values(InPool(s, "ironwood")) = Sum(v) /\ AllInt(n, v)
  BY <1>1, <1>3, PoolShare
<1>6. Len(w) = n /\ w = [i \in 1..n |-> s[i].value]
  BY <1>1, <1>2 DEF ValueList, AllInt
<1>7. \A i \in 1..n : w[i] = u[i] + v[i]
  <2> SUFFICES ASSUME NEW i \in 1..n PROVE w[i] = u[i] + v[i]
    OBVIOUS
  <2>1. s[i].value \in Int /\ s[i].pool \in {"orchard", "ironwood"}
    <3>1. s[i] \in S
      BY <1>1
    <3> QED
      BY <3>1 DEF Notes, ValuePool
  <2>2. /\ u[i] = IF s[i].pool = "orchard" THEN s[i].value ELSE 0
        /\ v[i] = IF s[i].pool = "ironwood" THEN s[i].value ELSE 0
    BY <1>1, <1>3 DEF Share
  <2> QED
    BY <1>6, <2>1, <2>2
<1>8. Sum(w) = Sum(u) + Sum(v)
  BY <1>4, <1>5, <1>6, <1>7, SumBoth
<1> QED
  BY <1>2, <1>4, <1>5, <1>8

\* The rounds of select_for.
Measured(f, acc, sel, fee) ==
  IF sel = <<>> THEN [acc EXCEPT !.done = TRUE]
  ELSE IF Values(sel) > carrier_total(f) + fee
    THEN [acc EXCEPT !.done = TRUE, !.ok = TRUE, !.sel = sel, !.fee = fee]
  ELSE [acc EXCEPT !.required = carrier_total(f) + fee + 1]

Round(f, acc) ==
  IF acc.done THEN acc
  ELSE Measured(f, acc, select_spends(f, acc.required), get_fee(f, select_spends(f, acc.required)))

FirstRound(f) == [done |-> FALSE, ok |-> FALSE, sel |-> <<>>, fee |-> 0,
                  required |-> carrier_total(f) + MINIMUM_FEE]

Rounds(g, f, n) == g[0] = FirstRound(f) /\ \A i \in 1..n : g[i] = Round(f, g[i - 1])

LEMMA RoundsExist ==
  ASSUME NEW f, NEW n \in Nat
  PROVE  \E g : Rounds(g, f, n) /\ g = [i \in 0..n |-> g[i]]
<1> DEFINE Good(g, k) == Rounds(g, f, k) /\ g = [i \in 0..k |-> g[i]]
           B == {k \in 0..n : ~ \E g : Good(g, k)}
<1>0. PICK first : first = FirstRound(f)
  OBVIOUS
<1>1. B = {}
  <2> SUFFICES ASSUME B # {} PROVE FALSE
    OBVIOUS
  <2>1. B \in SUBSET Nat
    OBVIOUS
  <2>2. PICK k \in B : \A j \in B : k <= j
    BY <2>1, LeastOf
  <2>3. k \in 0..n /\ k \in Nat /\ ~ \E g : Good(g, k)
    OBVIOUS
  <2>4. CASE k = 0
    <3> DEFINE g == [i \in 0..0 |-> first]
    <3>1. g[0] = FirstRound(f) /\ g = [i \in 0..0 |-> g[i]]
      BY <1>0
    <3> HIDE DEF g
    <3>2. Good(g, k)
      BY <2>4, <3>1 DEF Rounds
    <3> QED
      BY <2>3, <3>2
  <2>5. CASE k # 0
    <3>1. k - 1 \in 0..n /\ k - 1 \notin B
      <4>1. k - 1 \in 0..n /\ ~(k <= k - 1)
        BY <2>3, <2>5
      <4> HIDE DEF B
      <4> QED
        BY <2>2, <4>1
    <3>2. PICK g : Good(g, k - 1)
      BY <3>1
    <3>2a. g[0] = first /\ \A i \in 1..(k - 1) : g[i] = Round(f, g[i - 1])
      BY <1>0, <3>2 DEF Rounds
    <3>3. PICK e : e = Round(f, g[k - 1])
      OBVIOUS
    <3> DEFINE h == [i \in 0..k |-> IF i = k THEN e ELSE g[i]]
    <3>4. h[0] = first
      BY <2>3, <2>5, <3>2a
    <3>5. ASSUME NEW i \in 1..k PROVE h[i] = Round(f, h[i - 1])
      <4>1. h[i - 1] = g[i - 1]
        BY <2>3, <3>5
      <4>2. i # k => i \in 1..(k - 1) /\ h[i] = g[i]
        BY <2>3, <3>5
      <4>3. i = k => h[i] = e
        BY <2>3
      <4> HIDE DEF h
      <4> QED
        BY <3>2a, <3>3, <4>1, <4>2, <4>3
    <3>6. h = [i \in 0..k |-> h[i]]
      OBVIOUS
    <3> HIDE DEF h
    <3>7. Good(h, k)
      BY <1>0, <3>4, <3>5, <3>6 DEF Rounds
    <3> QED
      BY <2>3, <3>7
  <2> QED
    BY <2>4, <2>5
<1>2. PICK g : Good(g, n)
  BY <1>1
<1> QED
  BY <1>2

LEMMA SelectForRounds ==
  ASSUME NEW f
  PROVE  \E g : Rounds(g, f, SELECT_ROUNDS) /\ select_for(f) = g[SELECT_ROUNDS]
<1>0. PICK n \in Nat : n = SELECT_ROUNDS
  BY DEF SELECT_ROUNDS
<1>a. PICK e : e = [i \in 1..n |-> i]
  OBVIOUS
<1>b. Len(e) = n /\ \A i \in 1..n : e[i] = i
  <2>1. e = [i \in 1..n |-> e[i]]
    BY <1>a
  <2> QED
    BY <1>a, <2>1, Listed
<1> DEFINE Eqn(g) == g = [i \in 0..Len(e) |-> IF i = 0 THEN FirstRound(f) ELSE Round(f, g[i - 1])]
           F == CHOOSE g : Eqn(g)
<1>1. select_for(f) = F[Len(e)]
  BY <1>0, <1>a, Zenon DEF select_for, Fold, Round, Measured, FirstRound
<1>2. PICK g : Rounds(g, f, n) /\ g = [i \in 0..n |-> g[i]]
  BY RoundsExist
<1>3. Eqn(g)
  <2>1. \A i \in 0..n : g[i] = IF i = 0 THEN FirstRound(f) ELSE Round(f, g[i - 1])
    <3>1. \A i \in 0..n : i # 0 => i \in 1..n
      OBVIOUS
    <3> QED
      BY <1>2, <3>1 DEF Rounds
  <2> QED
    BY <1>2, <1>b, <2>1
<1> HIDE DEF Eqn
<1>4. Eqn(F)
  BY <1>3
<1> HIDE DEF F
<1>5. Rounds(F, f, n)
  <2>1. F = [i \in 0..n |-> IF i = 0 THEN FirstRound(f) ELSE Round(f, F[i - 1])]
    BY <1>b, <1>4 DEF Eqn
  <2>2. \A i \in 1..n : i \in 0..n /\ i # 0
    OBVIOUS
  <2>3. 0 \in 0..n
    OBVIOUS
  <2> QED
    BY <2>1, <2>2, <2>3 DEF Rounds
<1> QED
  BY <1>0, <1>1, <1>5, <1>b

(***************************************************************************)
(* A selection that may be planned: distinct notes of the wallet, worth    *)
(* more than the carriers and the fee the builder asks for them.           *)
(***************************************************************************)
Selected(f, sel, fee) ==
  /\ sel \in Seq(Range(f.notes)) /\ Distinct(sel)
  /\ fee = get_fee(f, sel)
  /\ Values(sel) > carrier_total(f) + fee

Chosen(f, acc) ==
  /\ acc = [done |-> acc.done, ok |-> acc.ok, sel |-> acc.sel, fee |-> acc.fee,
            required |-> acc.required]
  /\ acc.ok = FALSE \/ Selected(f, acc.sel, acc.fee)

LEMMA RoundChoice ==
  ASSUME NEW f \in Funding, NEW acc, Chosen(f, acc)
  PROVE  Chosen(f, Round(f, acc))
<1>1. PICK r : r = Round(f, acc)
  OBVIOUS
<1>2. CASE acc.done
  <2>1. r = acc
    BY <1>1, <1>2, Zenon DEF Round
  <2> QED
    BY <1>1, <2>1
<1>3. CASE ~acc.done
  <2>1. PICK sel, fee : sel = select_spends(f, acc.required) /\ fee = get_fee(f, sel)
    OBVIOUS
  <2>2. r = Measured(f, acc, sel, fee)
    BY <1>1, <1>3, <2>1, Zenon DEF Round
  <2>3. sel \in Seq(Range(f.notes)) /\ Distinct(sel)
    BY <2>1, SelectSpends
  <2>4. acc = [done |-> acc.done, ok |-> acc.ok, sel |-> acc.sel, fee |-> acc.fee,
               required |-> acc.required]
    BY DEF Chosen
  <2>5. CASE sel = <<>>
    <3>1. r = [acc EXCEPT !.done = TRUE]
      BY <2>2, <2>5, Zenon DEF Measured
    <3>2. r = [done |-> TRUE, ok |-> acc.ok, sel |-> acc.sel, fee |-> acc.fee,
               required |-> acc.required]
      BY <2>4, <3>1
    <3> QED
      BY <1>1, <3>2 DEF Chosen
  <2>6. CASE sel # <<>> /\ Values(sel) > carrier_total(f) + fee
    <3>1. r = [acc EXCEPT !.done = TRUE, !.ok = TRUE, !.sel = sel, !.fee = fee]
      BY <2>2, <2>6, Zenon DEF Measured
    <3>2. r = [done |-> TRUE, ok |-> TRUE, sel |-> sel, fee |-> fee,
               required |-> acc.required]
      BY <2>4, <3>1
    <3>3. Selected(f, sel, fee)
      BY <2>1, <2>3, <2>6 DEF Selected
    <3> QED
      BY <1>1, <3>2, <3>3 DEF Chosen
  <2>7. CASE sel # <<>> /\ ~(Values(sel) > carrier_total(f) + fee)
    <3>0. PICK req : req = carrier_total(f) + fee + 1
      OBVIOUS
    <3>1. r = [acc EXCEPT !.required = req]
      BY <2>2, <2>7, <3>0, Zenon DEF Measured
    <3>2. r = [done |-> acc.done, ok |-> acc.ok, sel |-> acc.sel, fee |-> acc.fee,
               required |-> req]
      BY <2>4, <3>1
    <3> QED
      BY <1>1, <3>2 DEF Chosen
  <2> QED
    BY <2>5, <2>6, <2>7
<1> QED
  BY <1>2, <1>3

LEMMA SelectionIs ==
  ASSUME NEW f \in Funding
  PROVE  select_for(f).ok = FALSE \/ Selected(f, select_for(f).sel, select_for(f).fee)
<1>0. PICK n \in Nat : n = SELECT_ROUNDS
  BY DEF SELECT_ROUNDS
<1>1. PICK g : Rounds(g, f, n) /\ select_for(f) = g[n]
  BY <1>0, SelectForRounds
<1>2. g[0] = FirstRound(f) /\ \A i \in 1..n : g[i] = Round(f, g[i - 1])
  BY <1>1 DEF Rounds
<1> DEFINE B == {i \in 0..n : ~Chosen(f, g[i])}
<1>3. B = {}
  <2> SUFFICES ASSUME B # {} PROVE FALSE
    OBVIOUS
  <2>1. B \in SUBSET Nat
    OBVIOUS
  <2>2. PICK i \in B : \A j \in B : i <= j
    BY <2>1, LeastOf
  <2>3. i \in 0..n /\ ~Chosen(f, g[i])
    OBVIOUS
  <2>4. Chosen(f, g[0])
    <3>1. Chosen(f, FirstRound(f))
      BY DEF Chosen, FirstRound
    <3> QED
      BY <1>2, <3>1
  <2>5. i - 1 \in 0..n /\ i \in 1..n /\ ~(i <= i - 1)
    BY <2>3, <2>4
  <2>6. Chosen(f, g[i - 1])
    <3>1. i - 1 \notin B
      <4> HIDE DEF B
      <4> QED
        BY <2>2, <2>5
    <3> QED
      BY <2>5, <3>1
  <2>7. Chosen(f, Round(f, g[i - 1]))
    BY <2>6, RoundChoice
  <2>8. g[i] = Round(f, g[i - 1])
    BY <1>2, <2>5
  <2> QED
    BY <2>3, <2>7, <2>8
<1>4. Chosen(f, g[n])
  <2>1. n \in 0..n /\ n \notin B
    <3> HIDE DEF B
    <3> QED
      BY <1>3
  <2> QED
    BY <2>1
<1> QED
  BY <1>1, <1>4 DEF Chosen
----------------------------------------------------------------------------
LEMMA CarrierTotal ==
  ASSUME NEW f \in Funding
  PROVE  carrier_total(f) \in Int
<1>1. PICK n \in Nat : n = Len(f.carriers)
  BY FundingNotes
<1>2. \A i \in 1..n : f.carriers[i] \in Int
  BY <1>1, FundingNotes
<1> QED
  BY <1>1, <1>2, SumInt DEF carrier_total

\* Actions are counted.
LEMMA ActionCounts ==
  ASSUME NEW f, NEW S, NEW sel \in Seq(S), NEW pool
  PROVE  /\ ActionCount(f, sel, pool) \in Nat
         /\ InPool(sel, pool) \in Seq(S)
         /\ Len(InPool(sel, pool)) <= ActionCount(f, sel, pool)
<1>1. InPool(sel, pool) \in Seq(S)
  BY InPoolPicks
<1>2. PICK k \in Nat : k = Len(InPool(sel, pool))
  BY <1>1
<1>3. PICK o \in {0, 1} : o = IF change_pool(f) = pool THEN 1 ELSE 0
  OBVIOUS
<1> DEFINE padded(n) == IF n = 0 THEN 0 ELSE Greater(2, n)
<1>4. ActionCount(f, sel, pool) = padded(IF pool = "orchard" THEN k + o ELSE Greater(k, o))
  BY <1>2, <1>3 DEF ActionCount
<1>5. PICK x \in Nat : x = IF pool = "orchard" THEN k + o ELSE Greater(k, o)
  BY DEF Greater
<1>6. k <= x
  BY <1>5 DEF Greater
<1>7. padded(x) \in Nat /\ x <= padded(x)
  BY DEF Greater
<1> HIDE DEF padded
<1> QED
  BY <1>1, <1>2, <1>4, <1>5, <1>6, <1>7

LEMMA GetFee ==
  ASSUME NEW f \in Funding, NEW S, NEW sel \in Seq(S)
  PROVE  get_fee(f, sel) \in Int
<1>1. PICK a, b : a = ActionCount(f, sel, "orchard") /\ b = ActionCount(f, sel, "ironwood")
  OBVIOUS
<1>2. a \in Nat /\ b \in Nat
  BY <1>1, ActionCounts
<1>3. OutBytes(f) \in Nat
  <2>1. f.size \in Nat /\ Len(f.carriers) \in Nat
    BY FundingNotes
  <2>a. push_overhead(f.size) \in {1, 2, 3}
    <3>1. CASE f.size <= 75
      BY <2>1, <3>1 DEF push_overhead
    <3>2. CASE ~(f.size <= 75) /\ f.size \in 76..255
      BY <2>1, <3>2 DEF push_overhead
    <3>3. CASE ~(f.size <= 75) /\ ~(f.size \in 76..255)
      BY <2>1, <3>3 DEF push_overhead
    <3> QED
      BY <3>1, <3>2, <3>3
  <2>2. PICK sz \in Nat : sz = 1 + push_overhead(f.size) + f.size
    BY <2>1, <2>a
  <2>3. output_serialized_size(sz) \in Nat
    BY DEF output_serialized_size, serialized_script_size
  <2>4. PICK z \in Nat : z = Size(p2sh_script_pubkey)
    BY CarrierScript
  <2>5. output_serialized_size(z) \in Nat
    BY DEF output_serialized_size, serialized_script_size
  <2>6. Len(f.carriers) * output_serialized_size(z) \in Nat
    BY <2>1, <2>5
  <2> QED
    BY <2>2, <2>3, <2>4, <2>6 DEF OutBytes
<1>4. PICK c : c = CeilDiv(OutBytes(f), 34)
  OBVIOUS
<1>5. c \in Int
  BY <1>3, <1>4 DEF CeilDiv
<1>6. Greater(GRACE_ACTIONS, c + a + b) \in Int
  BY <1>2, <1>5 DEF Greater, GRACE_ACTIONS
<1>7. get_fee(f, sel) = MARGINAL_FEE * Greater(GRACE_ACTIONS, c + a + b)
  BY <1>1, <1>4 DEF get_fee
<1> QED
  BY <1>6, <1>7 DEF MARGINAL_FEE

\* What is left for change.
LEMMA ChangeLeft ==
  ASSUME NEW f \in Funding, NEW sel, NEW fee, Selected(f, sel, fee)
  PROVE  /\ Values(sel) - carrier_total(f) - fee \in Nat \ {0}
         /\ fee \in Int /\ carrier_total(f) \in Int /\ Values(sel) \in Int
<1>1. Notes(Range(f.notes)) /\ sel \in Seq(Range(f.notes)) /\ fee = get_fee(f, sel)
  BY FundingNotes DEF Selected
<1>2. Values(sel) \in Int
  BY <1>1, ValuesIs
<1>3. carrier_total(f) \in Int
  BY CarrierTotal
<1>4. fee \in Int
  BY <1>1, GetFee
<1>5. Values(sel) > carrier_total(f) + fee
  BY DEF Selected
<1> QED
  BY <1>2, <1>3, <1>4, <1>5

(***************************************************************************)
(* What the metadata says, and what a verified bundle therefore spends and *)
(* pays.                                                                   *)
(***************************************************************************)
\* The notes t have actions of their own among n.
OwnActions(at, t, n) ==
  /\ \A j \in 1..Len(t) : at[j] \in 1..n
  /\ \A i, j \in 1..Len(t) : at[i] = at[j] => i = j

LEMMA MetadataIs ==
  ASSUME NEW f, NEW S, NEW sel \in Seq(S), NEW m \in Metadata(f, sel)
  PROVE  /\ \A pool \in ValuePool :
              /\ OwnActions(m[pool], InPool(sel, pool), ActionCount(f, sel, pool))
              /\ DOMAIN m[pool] = 1..Len(InPool(sel, pool))
         /\ m.out \in 1..ActionCount(f, sel, change_pool(f))
         /\ change_pool(f) = "orchard" =>
              \A j \in 1..Len(InPool(sel, "orchard")) : m.orchard[j] # m.out
<1> DEFINE spends(pool) == Injective(Len(InPool(sel, pool)), ActionCount(f, sel, pool))
<1>1. /\ m \in [orchard : spends("orchard"), ironwood : spends("ironwood"),
                out : 1..ActionCount(f, sel, change_pool(f))]
      /\ change_pool(f) = "orchard" => \A j \in DOMAIN m.orchard : m.orchard[j] # m.out
  BY DEF Metadata
<1> HIDE DEF spends
<1>2. /\ m["orchard"] \in spends("orchard") /\ m["ironwood"] \in spends("ironwood")
      /\ m.out \in 1..ActionCount(f, sel, change_pool(f)) /\ m["orchard"] = m.orchard
  BY <1>1
<1>3. ASSUME NEW pool, m[pool] \in spends(pool)
      PROVE  /\ OwnActions(m[pool], InPool(sel, pool), ActionCount(f, sel, pool))
             /\ DOMAIN m[pool] = 1..Len(InPool(sel, pool))
  <2>1. PICK at, t, n : at = m[pool] /\ t = InPool(sel, pool) /\ n = ActionCount(f, sel, pool)
    OBVIOUS
  <2>2. at \in [1..Len(t) -> 1..n] /\ \A i, j \in 1..Len(t) : at[i] = at[j] => i = j
    BY <1>3, <2>1 DEF spends, Injective
  <2>3. OwnActions(at, t, n) /\ DOMAIN at = 1..Len(t)
    BY <2>2 DEF OwnActions
  <2> QED
    BY <2>1, <2>3
<1>4. /\ OwnActions(m["orchard"], InPool(sel, "orchard"), ActionCount(f, sel, "orchard"))
      /\ DOMAIN m["orchard"] = 1..Len(InPool(sel, "orchard"))
  BY <1>2, <1>3
<1>5. /\ OwnActions(m["ironwood"], InPool(sel, "ironwood"), ActionCount(f, sel, "ironwood"))
      /\ DOMAIN m["ironwood"] = 1..Len(InPool(sel, "ironwood"))
  BY <1>2, <1>3
<1>6. ASSUME NEW pool \in ValuePool
      PROVE  /\ OwnActions(m[pool], InPool(sel, pool), ActionCount(f, sel, pool))
             /\ DOMAIN m[pool] = 1..Len(InPool(sel, pool))
  <2>1. CASE pool = "orchard"
    BY <1>4, <2>1
  <2>2. CASE pool = "ironwood"
    BY <1>5, <2>2
  <2> QED
    BY <2>1, <2>2 DEF ValuePool
<1>7. change_pool(f) = "orchard" =>
        \A j \in 1..Len(InPool(sel, "orchard")) : m.orchard[j] # m.out
  BY <1>1, <1>2, <1>4
<1> QED
  BY <1>2, <1>6, <1>7

\* What is expected of one pool.
Expects(exp, pool, at, t, n) ==
  /\ exp.spends[pool] = {[index |-> at[j], nf |-> t[j].id, value |-> t[j].value] : j \in 1..Len(t)}
  /\ exp.actions[pool] = n

LEMMA ExpectationsAre ==
  ASSUME NEW f, NEW S, NEW sel \in Seq(S), NEW m \in Metadata(f, sel), NEW change,
         NEW exp, exp = build_expectations(f, sel, m, change), NEW pool \in ValuePool
  PROVE  /\ Expects(exp, pool, m[pool], InPool(sel, pool), ActionCount(f, sel, pool))
         /\ exp.change = [pool |-> change_pool(f), index |-> m.out, value |-> change, to |-> "change"]
         /\ exp.anchor = f.anchor
         /\ exp.net[pool] = Values(InPool(sel, pool)) - (IF pool = change_pool(f) THEN change ELSE 0)
<1>1. PICK t : t = InPool(sel, pool)
  OBVIOUS
<1>2. t \in Seq(S) /\ DOMAIN t = 1..Len(t)
  BY <1>1, ActionCounts
<1>3. exp.spends[pool] = {[index |-> m[pool][j], nf |-> t[j].id, value |-> t[j].value] : j \in DOMAIN t}
  BY <1>1 DEF build_expectations
<1>4. exp.actions[pool] = ActionCount(f, sel, pool)
  BY DEF build_expectations
<1>5. /\ exp.change = [pool |-> change_pool(f), index |-> m.out, value |-> change, to |-> "change"]
      /\ exp.anchor = f.anchor
  BY DEF build_expectations
<1>6. exp.net[pool] = Values(InPool(sel, pool)) - (IF pool = change_pool(f) THEN change ELSE 0)
  BY DEF build_expectations
<1> QED
  BY <1>1, <1>2, <1>3, <1>4, <1>5, <1>6 DEF Expects

\* The actions spend the notes t and nothing else of value.
SpendsNotes(acts, t) ==
  /\ \A i \in DOMAIN acts : acts[i].spend_value # 0 =>
       \E j \in 1..Len(t) : acts[i].nf = t[j].id /\ acts[i].spend_value = t[j].value
  /\ \A j \in 1..Len(t) : \E i \in DOMAIN acts :
       acts[i].nf = t[j].id /\ acts[i].spend_value = t[j].value

LEMMA PlannedSpends ==
  ASSUME NEW b, NEW pool, NEW exp, verify_pool_bundle(b, pool, exp),
         NEW at, NEW S, NEW t \in Seq(S), NEW n \in Nat,
         Expects(exp, pool, at, t, n), OwnActions(at, t, n), IsList(b.actions)
  PROVE  SpendsNotes(b.actions, t) /\ DOMAIN b.actions = 1..n
<1>1. PICK acts : acts = b.actions
  OBVIOUS
<1>2. PICK l \in Nat : acts = [i \in 1..l |-> acts[i]]
  BY <1>1 DEF IsList
<1>3. Len(acts) = l /\ DOMAIN acts = 1..l
  BY <1>2, Listed
<1>4. Len(acts) = n
  BY <1>1 DEF verify_pool_bundle, Expects
<1>5. DOMAIN acts = 1..n
  BY <1>3, <1>4
<1>6. \A j \in 1..Len(t) : at[j] \in 1..n
  BY DEF OwnActions
<1>7. \A i \in 1..n : verify_spend(acts[i], exp, pool, i)
  <2>1. CASE n = 0
    BY <2>1
  <2>2. CASE n > 0
    BY <1>1, <1>5, <2>2 DEF verify_pool_bundle, Expects
  <2> QED
    BY <2>1, <2>2
<1>8. \A i : PlannedSpend(exp, pool, i)
               = {s \in {[index |-> at[j], nf |-> t[j].id, value |-> t[j].value] : j \in 1..Len(t)} : s.index = i}
  BY DEF PlannedSpend, Expects
<1>9. ASSUME NEW i \in 1..n, acts[i].spend_value # 0
      PROVE  \E j \in 1..Len(t) : acts[i].nf = t[j].id /\ acts[i].spend_value = t[j].value
  <2>1. PlannedSpend(exp, pool, i) # {}
    BY <1>7, <1>9 DEF verify_spend
  <2>2. PICK s \in PlannedSpend(exp, pool, i) : acts[i].nf = s.nf /\ acts[i].spend_value = s.value
    BY <1>7, <2>1 DEF verify_spend
  <2>3. PICK j \in 1..Len(t) : s = [index |-> at[j], nf |-> t[j].id, value |-> t[j].value]
    BY <1>8
  <2> QED
    BY <2>2, <2>3
<1>10. ASSUME NEW j \in 1..Len(t)
       PROVE  \E i \in 1..n : acts[i].nf = t[j].id /\ acts[i].spend_value = t[j].value
  <2>1. PICK i : i = at[j]
    OBVIOUS
  <2>2. i \in 1..n
    BY <1>6, <2>1
  <2>3. PICK r : r = [index |-> at[j], nf |-> t[j].id, value |-> t[j].value]
    OBVIOUS
  <2>4. r \in PlannedSpend(exp, pool, i)
    BY <1>8, <2>1, <2>3
  <2>5. PICK s \in PlannedSpend(exp, pool, i) : acts[i].nf = s.nf /\ acts[i].spend_value = s.value
    BY <1>7, <2>2, <2>4 DEF verify_spend
  <2>6. PICK k \in 1..Len(t) : s = [index |-> at[k], nf |-> t[k].id, value |-> t[k].value] /\ s.index = i
    BY <1>8, <2>5
  <2>7. at[k] = at[j]
    BY <2>1, <2>6
  <2>8. k = j
    BY <2>7 DEF OwnActions
  <2> QED
    BY <2>2, <2>5, <2>6, <2>8
<1> QED
  BY <1>1, <1>5, <1>9, <1>10 DEF SpendsNotes

\* The actions pay the change, if it is in this pool, and nothing else.
PaysChange(acts, pool, home, change) ==
  /\ \A i \in DOMAIN acts : acts[i].out_value # 0 => pool = home /\ acts[i].enc = <<"change", change>>
  /\ pool = home => \E i \in DOMAIN acts : acts[i].out_value # 0 /\ acts[i].enc = <<"change", change>>

LEMMA PlannedPays ==
  ASSUME NEW b, NEW pool, NEW exp, verify_pool_bundle(b, pool, exp), NEW n \in Nat,
         exp.actions[pool] = n, DOMAIN b.actions = 1..n,
         NEW home, NEW out, NEW change, change # 0,
         exp.change = [pool |-> home, index |-> out, value |-> change, to |-> "change"],
         home = pool => out \in 1..n
  PROVE  PaysChange(b.actions, pool, home, change)
<1>1. PICK acts : acts = b.actions
  OBVIOUS
<1>2. ASSUME NEW i \in 1..n
      PROVE  IF home = pool /\ out = i THEN verify_change(acts[i], exp) ELSE acts[i].out_value = 0
  <2>1. n > 0
    BY <1>2
  <2>2. IF IsChange(exp, pool, i) THEN verify_change(acts[i], exp) ELSE acts[i].out_value = 0
    BY <1>1, <1>2, <2>1 DEF verify_pool_bundle
  <2>3. IsChange(exp, pool, i) <=> home = pool /\ out = i
    BY DEF IsChange
  <2> QED
    BY <2>2, <2>3
<1>3. ASSUME NEW i \in 1..n, verify_change(acts[i], exp)
      PROVE  acts[i].out_value = change /\ acts[i].enc = <<"change", change>>
  BY <1>3 DEF verify_change
<1>4. ASSUME NEW i \in 1..n, acts[i].out_value # 0
      PROVE  pool = home /\ acts[i].enc = <<"change", change>>
  BY <1>2, <1>3, <1>4
<1>5. ASSUME pool = home
      PROVE  \E i \in 1..n : acts[i].out_value # 0 /\ acts[i].enc = <<"change", change>>
  <2>1. out \in 1..n
    BY <1>5
  <2>2. verify_change(acts[out], exp)
    BY <1>2, <1>5, <2>1
  <2> QED
    BY <1>3, <2>1, <2>2
<1> QED
  BY <1>1, <1>4, <1>5 DEF PaysChange

\* The notes of a selection, the way a transaction spends them.
Spent(sel) == {<<n.id, n.value>> : n \in Range(sel)}

SpentTotal(P) == Sum(Map(LAMBDA q : q[2], SetToSeq(P)))

LEMMA SpentSum ==
  ASSUME NEW S, NEW sel \in Seq(S), Notes(S), Distinct(sel)
  PROVE  SpentTotal(Spent(sel)) = Values(sel)
<1>1. PICK n \in Nat : n = Len(sel)
  OBVIOUS
<1>2. PICK P : P = Spent(sel)
  OBVIOUS
<1>3. P = {<<sel[i].id, sel[i].value>> : i \in 1..n}
  <2>1. Range(sel) = {sel[i] : i \in 1..n}
    BY <1>1 DEF Range
  <2> QED
    BY <1>2, <2>1 DEF Spent
<1>4. PICK e : e = [i \in 1..n |-> <<sel[i].id, sel[i].value>>]
  OBVIOUS
<1>5. e \in [1..n -> P] /\ \A x \in P : \E i \in 1..n : e[i] = x
  BY <1>3, <1>4
<1>6. \A i, j \in 1..n : e[i] = e[j] => i = j
  <2> SUFFICES ASSUME NEW i \in 1..n, NEW j \in 1..n, e[i] = e[j] PROVE i = j
    OBVIOUS
  <2>1. sel[i].id = sel[j].id
    BY <1>4
  <2> QED
    BY <1>1, <2>1 DEF Distinct
<1>7. e \in Bijection(1..n, P)
  BY <1>5, <1>6 DEF Bijection, Injection, Surjection, IsInjective
<1>8. ExistsBijection(1..n, P)
  BY <1>7 DEF ExistsBijection
<1>9. Cardinality(P) = n /\ IsFiniteSet(P)
  BY <1>8, FS_CountingElements, FS_NatBijection
<1>10. PICK t : t = SetToSeq(P)
  OBVIOUS
<1>11. t \in [1..n -> P] /\ IsInjective(t)
  <2>1. \E f \in [1..n -> P] : IsInjective(f)
    BY <1>7 DEF Bijection, Injection
  <2>2. t = CHOOSE f \in [1..n -> P] : IsInjective(f)
    BY <1>9, <1>10 DEF SetToSeq
  <2> QED
    BY <2>1, <2>2
<1>12. t \in Surjection(1..n, P)
  <2>1. t \in Injection(1..n, P)
    BY <1>11 DEF Injection
  <2>2. Cardinality(1..n) = n
    BY FS_Interval
  <2> QED
    BY <1>9, <2>1, <2>2, FS_Injection
<1>13. \A x \in P : \E i \in 1..n : t[i] = x
  BY <1>12 DEF Surjection
<1>14. PICK b : ValueList(b, sel) /\ Values(sel) = Sum(b)
  BY ValuesIs
<1>15. b = [i \in 1..n |-> sel[i].value] /\ AllInt(n, b)
  BY <1>1, <1>14 DEF ValueList
<1>16. PICK a : a = [i \in 1..n |-> t[i][2]]
  OBVIOUS
<1>17. Len(a) = n /\ <<>> \o a = a
  <2>1. a = [i \in 1..n |-> a[i]]
    BY <1>16
  <2> QED
    BY <2>1, Listed
<1>18. Len(t) = n
  BY <1>11
<1>19. Map(LAMBDA p : p[2], t) = a
  BY <1>16, <1>17, <1>18 DEF Map
<1>20. PICK m : m = [j \in 1..n |-> CHOOSE i \in 1..n : t[i] = e[j]]
  OBVIOUS
<1>21. \A j \in 1..n : m[j] \in 1..n /\ t[m[j]] = e[j]
  <2> SUFFICES ASSUME NEW j \in 1..n PROVE m[j] \in 1..n /\ t[m[j]] = e[j]
    OBVIOUS
  <2>1. \E i \in 1..n : t[i] = e[j]
    BY <1>5, <1>13
  <2>2. m[j] = CHOOSE i \in 1..n : t[i] = e[j]
    BY <1>20
  <2> QED
    BY <2>1, <2>2
<1>22. \A i, j \in 1..n : m[i] = m[j] => i = j
  BY <1>6, <1>21
<1>23. \A i \in 1..n : \E j \in 1..n : m[j] = i
  <2> SUFFICES ASSUME NEW i \in 1..n PROVE \E j \in 1..n : m[j] = i
    OBVIOUS
  <2>1. PICK j \in 1..n : e[j] = t[i]
    BY <1>5, <1>11
  <2>2. t[m[j]] = t[i] /\ m[j] \in 1..n
    BY <1>21, <2>1
  <2>3. m[j] = i
    BY <1>11, <2>2 DEF IsInjective
  <2> QED
    BY <2>3
<1>24. \A i \in 1..n : a[i] \in Int
  <2> SUFFICES ASSUME NEW i \in 1..n PROVE a[i] \in Int
    OBVIOUS
  <2>1. PICK j \in 1..n : t[i] = <<sel[j].id, sel[j].value>>
    BY <1>3, <1>11
  <2>2. a[i] = sel[j].value
    BY <1>16, <2>1
  <2>3. sel[j] \in S
    BY <1>1
  <2> QED
    BY <2>2, <2>3 DEF Notes
<1>25. \A j \in 1..n : a[m[j]] = b[j]
  BY <1>4, <1>15, <1>16, <1>21
<1>26. Scattered(a, n, b, n, m)
  BY <1>15, <1>17, <1>21, <1>22, <1>23, <1>24, <1>25 DEF Scattered, AllInt
<1>27. Sum(a) = Sum(b)
  BY <1>26, SumPlaced
<1>28. SpentTotal(P) = Sum(a)
  BY <1>10, <1>19, Zenon DEF SpentTotal
<1> QED
  BY <1>2, <1>14, <1>27, <1>28

\* Both pools together.
PlanInActions(p, sel, home, change) ==
  /\ SpendsNotes(p.orchard.actions, InPool(sel, "orchard"))
  /\ SpendsNotes(p.ironwood.actions, InPool(sel, "ironwood"))
  /\ PaysChange(p.orchard.actions, "orchard", home, change)
  /\ PaysChange(p.ironwood.actions, "ironwood", home, change)

LEMMA ExtractedIs ==
  ASSUME NEW f \in Funding, NEW sel, NEW fee, Selected(f, sel, fee), NEW p, NEW home \in ValuePool,
         NEW change, NEW x, x = Extracted(p),
         PlanInActions(p, sel, home, change)
  PROVE  x.spent = Spent(sel) /\ x.paid = {<<"change", change>>}
<1> USE DEF PlanInActions
<1>1. PICK a, b : a = p.orchard.actions /\ b = p.ironwood.actions
  OBVIOUS
<1>2. PICK acts : acts = Range(a) \cup Range(b)
  OBVIOUS
<1>3. x.spent = {<<c.nf, c.spend_value>> : c \in {c \in acts : c.spend_value # 0}}
  BY <1>1, <1>2 DEF Extracted
<1>4. x.paid = {c.enc : c \in {c \in acts : c.out_value # 0}}
  BY <1>1, <1>2 DEF Extracted
<1>5. \A c : c \in acts <=> (\E i \in DOMAIN a : c = a[i]) \/ (\E i \in DOMAIN b : c = b[i])
  BY <1>2 DEF Range
<1>6. PICK S : S = Range(f.notes)
  OBVIOUS
<1>7. sel \in Seq(S) /\ Distinct(sel) /\ Notes(S)
  BY <1>6, FundingNotes DEF Selected
<1>8. PICK t, u : t = InPool(sel, "orchard") /\ u = InPool(sel, "ironwood")
  OBVIOUS
<1>9. PoolOf(t, sel, "orchard") /\ PoolOf(u, sel, "ironwood")
  BY <1>7, <1>8, InPoolNotes
<1>10. \A n : n \in Range(sel) <=> \E i \in 1..Len(sel) : sel[i] = n
  BY <1>7 DEF Range
<1>11. ASSUME NEW n PROVE n \in Range(sel) <=> (\E j \in 1..Len(t) : t[j] = n) \/ (\E j \in 1..Len(u) : u[j] = n)
  <2>1. n \in Range(sel) => n.pool \in {"orchard", "ironwood"}
    <3>1. n \in Range(sel) => n \in S
      BY <1>7, <1>10
    <3> QED
      BY <1>7, <3>1 DEF Notes, ValuePool
  <2> QED
    BY <1>9, <1>10, <2>1 DEF PoolOf
<1>12. ASSUME NEW n \in Range(sel) PROVE n.value # 0
  <2>1. n \in S
    BY <1>7, <1>10
  <2> QED
    BY <1>7, <2>1 DEF Notes
<1>13. x.spent = Spent(sel)
  <2>1. ASSUME NEW c \in acts, c.spend_value # 0 PROVE <<c.nf, c.spend_value>> \in Spent(sel)
    <3>1. \E n \in Range(sel) : c.nf = n.id /\ c.spend_value = n.value
      BY <1>1, <1>5, <1>8, <1>11, <2>1 DEF SpendsNotes
    <3> QED
      BY <3>1 DEF Spent
  <2>2. ASSUME NEW n \in Range(sel)
        PROVE  \E c \in acts : c.spend_value # 0 /\ <<n.id, n.value>> = <<c.nf, c.spend_value>>
    <3>1. \E c \in acts : c.nf = n.id /\ c.spend_value = n.value
      BY <1>1, <1>5, <1>8, <1>11, <2>2 DEF SpendsNotes
    <3> QED
      BY <1>12, <3>1
  <2> QED
    BY <1>3, <2>1, <2>2 DEF Spent
<1>14. x.paid = {<<"change", change>>}
  <2>1. ASSUME NEW c \in acts, c.out_value # 0 PROVE c.enc = <<"change", change>>
    BY <1>1, <1>5, <2>1 DEF PaysChange
  <2>2. \E c \in acts : c.out_value # 0 /\ c.enc = <<"change", change>>
    BY <1>1, <1>5 DEF PaysChange, ValuePool
  <2> QED
    BY <1>4, <2>1, <2>2
<1> QED
  BY <1>13, <1>14

(***************************************************************************)
(* A PCZT keeps its shape, whatever is altered in it.                      *)
(***************************************************************************)
IsBundle(b) ==
  /\ b = [pool |-> b.pool, anchor |-> b.anchor, actions |-> b.actions, sum |-> b.sum]
  /\ IsList(b.actions)

IsPczt(p) ==
  /\ p = [made |-> TRUE, expiry |-> p.expiry, branch |-> p.branch, vin |-> p.vin, vout |-> p.vout,
          orchard |-> p.orchard, ironwood |-> p.ironwood]
  /\ IsBundle(p.orchard) /\ IsBundle(p.ironwood)

Pczt(e, br, vi, vo, o, i) ==
  [made |-> TRUE, expiry |-> e, branch |-> br, vin |-> vi, vout |-> vo, orchard |-> o, ironwood |-> i]

LEMMA PcztFields ==
  ASSUME NEW e, NEW br, NEW vi, NEW vo, NEW o, NEW i, NEW q, q = Pczt(e, br, vi, vo, o, i)
  PROVE  q.made = TRUE /\ q.expiry = e /\ q.branch = br /\ q.vin = vi /\ q.vout = vo
         /\ q.orchard = o /\ q.ironwood = i
  BY DEF Pczt

LEMMA PcztFrom ==
  ASSUME NEW e, NEW br, NEW vi, NEW vo, NEW o, NEW i, IsBundle(o), IsBundle(i)
  PROVE  IsPczt(Pczt(e, br, vi, vo, o, i))
<1>1. PICK q : q = Pczt(e, br, vi, vo, o, i)
  OBVIOUS
<1>2. q.expiry = e /\ q.branch = br /\ q.vin = vi /\ q.vout = vo /\ q.orchard = o /\ q.ironwood = i
  BY <1>1 DEF Pczt
<1>3. q = Pczt(q.expiry, q.branch, q.vin, q.vout, q.orchard, q.ironwood)
  BY <1>1, <1>2
<1>4. IsBundle(q.orchard) /\ IsBundle(q.ironwood)
  BY <1>2
<1> QED
  BY <1>1, <1>3, <1>4, Zenon DEF IsPczt, Pczt

LEMMA PcztIs ==
  ASSUME NEW p, IsPczt(p)
  PROVE  \E e, br, vi, vo, o, i : p = Pczt(e, br, vi, vo, o, i) /\ IsBundle(o) /\ IsBundle(i)
<1>1. p = Pczt(p.expiry, p.branch, p.vin, p.vout, p.orchard, p.ironwood)
  BY Zenon DEF IsPczt, Pczt
<1>2. IsBundle(p.orchard) /\ IsBundle(p.ironwood)
  BY Zenon DEF IsPczt
<1> QED
  BY <1>1, <1>2

LEMMA WithBundle ==
  ASSUME NEW p, IsPczt(p), NEW pool \in ValuePool, NEW b, IsBundle(b)
  PROVE  IsPczt([p EXCEPT ![pool] = b])
<1>1. PICK e, br, vi, vo, o, i : p = Pczt(e, br, vi, vo, o, i) /\ IsBundle(o) /\ IsBundle(i)
  BY PcztIs
<1>2. CASE pool = "orchard"
  <2>0. PICK q : q = [p EXCEPT !.orchard = b]
    OBVIOUS
  <2>1. q = Pczt(e, br, vi, vo, b, i)
    BY <1>1, <2>0 DEF Pczt
  <2>2. [p EXCEPT ![pool] = b] = q
    BY <1>2, <2>0
  <2>3. IsPczt(q)
    BY <1>1, <2>1, PcztFrom
  <2> QED
    BY <2>2, <2>3, Zenon
<1>3. CASE pool = "ironwood"
  <2>0. PICK q : q = [p EXCEPT !.ironwood = b]
    OBVIOUS
  <2>1. q = Pczt(e, br, vi, vo, o, b)
    BY <1>1, <2>0 DEF Pczt
  <2>2. [p EXCEPT ![pool] = b] = q
    BY <1>3, <2>0
  <2>3. IsPczt(q)
    BY <1>1, <2>1, PcztFrom
  <2> QED
    BY <2>2, <2>3, Zenon
<1> QED
  BY <1>2, <1>3 DEF ValuePool

LEMMA BundleIs ==
  ASSUME NEW p, IsPczt(p), NEW pool \in ValuePool
  PROVE  IsBundle(p[pool])
<1>1. CASE pool = "orchard"
  BY <1>1 DEF IsPczt
<1>2. CASE pool = "ironwood"
  BY <1>2 DEF IsPczt
<1> QED
  BY <1>1, <1>2 DEF ValuePool

LEMMA GlobalShape ==
  ASSUME NEW p, IsPczt(p), NEW t \in GlobalTamper
  PROVE  IsPczt(TamperedGlobal(p, t))
<1>1. PICK e, br, vi, vo, o, i : p = Pczt(e, br, vi, vo, o, i) /\ IsBundle(o) /\ IsBundle(i)
  BY PcztIs
<1>2. PICK q : q = TamperedGlobal(p, t)
  OBVIOUS
<1>3. ASSUME NEW v, q = [p EXCEPT !.vout = v] PROVE IsPczt(q)
  <2>1. q = Pczt(e, br, vi, v, o, i)
    BY <1>1, <1>3 DEF Pczt
  <2> QED
    BY <1>1, <2>1, PcztFrom
<1>4. CASE t = "expiry"
  <2>1. q = [p EXCEPT !.expiry = "other"]
    BY <1>2, <1>4 DEF TamperedGlobal
  <2>2. q = Pczt("other", br, vi, vo, o, i)
    BY <1>1, <2>1 DEF Pczt
  <2> QED
    BY <1>1, <1>2, <2>2, PcztFrom
<1>5. CASE t = "branch"
  <2>1. q = [p EXCEPT !.branch = "other"]
    BY <1>2, <1>5 DEF TamperedGlobal
  <2>2. q = Pczt(e, "other", vi, vo, o, i)
    BY <1>1, <2>1 DEF Pczt
  <2> QED
    BY <1>1, <1>2, <2>2, PcztFrom
<1>6. CASE t = "vin"
  <2>1. q = [p EXCEPT !.vin = 1]
    BY <1>2, <1>6 DEF TamperedGlobal
  <2>2. q = Pczt(e, br, 1, vo, o, i)
    BY <1>1, <2>1 DEF Pczt
  <2> QED
    BY <1>1, <1>2, <2>2, PcztFrom
<1>7. CASE t = "vout_value"
  <2>1. PICK v : v = [p.vout EXCEPT ![1].value = @ + 1]
    OBVIOUS
  <2>2. q = [p EXCEPT !.vout = v]
    BY <1>2, <1>7, <2>1 DEF TamperedGlobal
  <2> QED
    BY <1>2, <1>3, <2>2
<1>8. CASE t = "vout_script"
  <2>1. PICK v : v = [p.vout EXCEPT ![1].script = "other"]
    OBVIOUS
  <2>2. q = [p EXCEPT !.vout = v]
    BY <1>2, <1>8, <2>1 DEF TamperedGlobal
  <2> QED
    BY <1>2, <1>3, <2>2
<1>9. CASE t = "vout_drop"
  <2>1. q = [p EXCEPT !.vout = Front(p.vout)]
    BY <1>2, <1>9 DEF TamperedGlobal
  <2> QED
    BY <1>2, <1>3, <2>1
<1>10. CASE t = "vout_swap"
  <2>1. q = [p EXCEPT !.vout = Swap(p.vout)]
    BY <1>2, <1>10 DEF TamperedGlobal
  <2> QED
    BY <1>2, <1>3, <2>1
<1> QED
  BY <1>4, <1>5, <1>6, <1>7, <1>8, <1>9, <1>10 DEF GlobalTamper

\* Another list of actions in a bundle.
LEMMA WithActions ==
  ASSUME NEW b, IsBundle(b), NEW acts, IsList(acts)
  PROVE  IsBundle([b EXCEPT !.actions = acts])
<1>1. b = [pool |-> b.pool, anchor |-> b.anchor, actions |-> b.actions, sum |-> b.sum]
  BY DEF IsBundle
<1>2. PICK c : c = [b EXCEPT !.actions = acts]
  OBVIOUS
<1>3. c = [pool |-> b.pool, anchor |-> b.anchor, actions |-> acts, sum |-> b.sum]
  BY <1>1, <1>2
<1> QED
  BY <1>2, <1>3 DEF IsBundle

LEMMA ActionsAltered ==
  ASSUME NEW s, IsList(s), s # <<>>
  PROVE  IsList(Front(s)) /\ IsList(Append(s, Last(s))) /\ IsList(Swap(s))
<1>1. PICK n \in Nat : s = [i \in 1..n |-> s[i]]
  BY DEF IsList
<1> DEFINE S == {s[i] : i \in 1..n}
<1>2. s \in Seq(S) /\ Len(s) = n
  BY <1>1, Listed
<1>3. n # 0
  <2> HIDE DEF S
  <2> QED
    BY <1>2
<1>4. s[n] \in S
  BY <1>3
<1> HIDE DEF S
<1>5. Front(s) \in Seq(S)
  BY <1>2, <1>3 DEF Front
<1>6. Append(s, Last(s)) \in Seq(S)
  BY <1>2, <1>3, <1>4 DEF Last
<1>7. IsList(Swap(s))
  BY <1>1, SwappedIsList
<1> QED
  BY <1>5, <1>6, <1>7, SequenceIsList

LEMMA BundleShape ==
  ASSUME NEW b, IsBundle(b), b.actions # <<>>, NEW t \in BundleTamper
  PROVE  IsBundle(TamperedBundle(b, t))
<1>1. b = [pool |-> b.pool, anchor |-> b.anchor, actions |-> b.actions, sum |-> b.sum] /\ IsList(b.actions)
  BY DEF IsBundle
<1>2. PICK c : c = TamperedBundle(b, t)
  OBVIOUS
<1>3. CASE t = "anchor"
  <2>1. c = [b EXCEPT !.anchor = "other"]
    BY <1>2, <1>3 DEF TamperedBundle
  <2>2. c = [pool |-> b.pool, anchor |-> "other", actions |-> b.actions, sum |-> b.sum]
    BY <1>1, <2>1
  <2> QED
    BY <1>1, <1>2, <2>2 DEF IsBundle
<1>4. CASE t = "sum_up"
  <2>0. PICK s : s = b.sum + 1
    OBVIOUS
  <2>1. c = [b EXCEPT !.sum = s]
    BY <1>2, <1>4, <2>0 DEF TamperedBundle
  <2>2. c = [pool |-> b.pool, anchor |-> b.anchor, actions |-> b.actions, sum |-> s]
    BY <1>1, <2>1
  <2> QED
    BY <1>1, <1>2, <2>2 DEF IsBundle
<1>5. CASE t = "pool"
  <2>0. PICK o : o = CHOOSE q \in ValuePool : q # b.pool
    OBVIOUS
  <2>1. c = [b EXCEPT !.pool = o]
    BY <1>2, <1>5, <2>0 DEF TamperedBundle
  <2>2. c = [pool |-> o, anchor |-> b.anchor, actions |-> b.actions, sum |-> b.sum]
    BY <1>1, <2>1
  <2> QED
    BY <1>1, <1>2, <2>2 DEF IsBundle
<1>6. CASE t = "drop_action"
  <2>0. PICK acts : acts = Front(b.actions) /\ IsList(acts)
    BY <1>1, ActionsAltered
  <2>1. c = [b EXCEPT !.actions = acts]
    BY <1>2, <1>6, <2>0 DEF TamperedBundle
  <2>2. IsBundle([b EXCEPT !.actions = acts])
    BY <2>0, WithActions
  <2> QED
    BY <1>2, <2>1, <2>2, Zenon
<1>7. CASE t = "copy_action"
  <2>0. PICK acts : acts = Append(b.actions, Last(b.actions)) /\ IsList(acts)
    BY <1>1, ActionsAltered
  <2>1. c = [b EXCEPT !.actions = acts]
    BY <1>2, <1>7, <2>0 DEF TamperedBundle
  <2>2. IsBundle([b EXCEPT !.actions = acts])
    BY <2>0, WithActions
  <2> QED
    BY <1>2, <2>1, <2>2, Zenon
<1>8. CASE t = "swap_actions"
  <2>0. PICK acts : acts = Swap(b.actions) /\ IsList(acts)
    BY <1>1, ActionsAltered
  <2>1. c = [b EXCEPT !.actions = acts]
    BY <1>2, <1>8, <2>0 DEF TamperedBundle
  <2>2. IsBundle([b EXCEPT !.actions = acts])
    BY <2>0, WithActions
  <2> QED
    BY <1>2, <2>1, <2>2, Zenon
<1> QED
  BY <1>3, <1>4, <1>5, <1>6, <1>7, <1>8 DEF BundleTamper

LEMMA ActionShape ==
  ASSUME NEW p, IsPczt(p), NEW pool \in ValuePool, NEW i, NEW e
  PROVE  IsPczt([p EXCEPT ![pool].actions[i] = e])
<1>1. PICK b : b = p[pool]
  OBVIOUS
<1>2. IsBundle(b)
  BY <1>1, BundleIs
<1>3. PICK n \in Nat : b.actions = [j \in 1..n |-> b.actions[j]]
  BY <1>2 DEF IsBundle, IsList
<1>4. PICK acts : acts = [b.actions EXCEPT ![i] = e]
  OBVIOUS
<1>5. IsList(acts)
  <2>1. PICK D : D = 1..n
    OBVIOUS
  <2>2. b.actions = [j \in D |-> b.actions[j]]
    BY <1>3, <2>1
  <2>3. acts = [j \in D |-> acts[j]]
    BY <1>4, <2>2
  <2> QED
    BY <2>1, <2>3 DEF IsList
<1>6. PICK c : c = [b EXCEPT !.actions = acts]
  OBVIOUS
<1>7. IsBundle(c)
  BY <1>2, <1>5, <1>6, WithActions
<1>8. [p EXCEPT ![pool].actions[i] = e] = [p EXCEPT ![pool] = c]
  BY <1>1, <1>4, <1>6
<1> QED
  BY <1>7, <1>8, WithBundle

(***************************************************************************)
(* The plan is what plan_shielded made of the request, at every stage.     *)
(***************************************************************************)
ChangeFor(f, sel, fee) == Values(sel) - carrier_total(f) - fee

PlanAt(f, sel, fee, m, stage) ==
  [stage |-> stage, fee |-> fee, change |-> ChangeFor(f, sel, fee),
   selected |-> Values(sel), vout |-> transparent_outputs(f),
   branch |-> f.branch, expiry |-> "planned",
   sign |-> signing_plans(f, sel, m),
   expected |-> build_expectations(f, sel, m, ChangeFor(f, sel, fee))]

\* The selection, its fee and the metadata behind a plan.
MadeOf(f, sel, fee, m) ==
  /\ sel = select_for(f).sel /\ fee = select_for(f).fee
  /\ Selected(f, sel, fee)
  /\ m \in Metadata(f, sel)
  /\ AnchorsKnown(f, sel)

PlannedAs(f, sp, sel, fee, m) == MadeOf(f, sel, fee, m) /\ sp = PlanAt(f, sel, fee, m, sp.stage)

Live == {"planned", "proven", "signed", "extracted"}

PlanFields(sp, f, sel, fee, m) ==
  /\ sp.fee = fee /\ sp.change = ChangeFor(f, sel, fee) /\ sp.selected = Values(sel)
  /\ sp.vout = transparent_outputs(f) /\ sp.branch = f.branch /\ sp.expiry = "planned"
  /\ sp.sign = signing_plans(f, sel, m)
  /\ sp.expected = build_expectations(f, sel, m, ChangeFor(f, sel, fee))

LEMMA PlanHas ==
  ASSUME NEW f, NEW sp, NEW sel, NEW fee, NEW m, PlannedAs(f, sp, sel, fee, m)
  PROVE  PlanFields(sp, f, sel, fee, m) /\ MadeOf(f, sel, fee, m)
<1>1. PICK c, v, o, s, e : /\ c = ChangeFor(f, sel, fee) /\ v = Values(sel)
                           /\ o = transparent_outputs(f) /\ s = signing_plans(f, sel, m)
                           /\ e = build_expectations(f, sel, m, ChangeFor(f, sel, fee))
  OBVIOUS
<1>2. sp = [stage |-> sp.stage, fee |-> fee, change |-> c, selected |-> v, vout |-> o,
            branch |-> f.branch, expiry |-> "planned", sign |-> s, expected |-> e]
  BY <1>1, Zenon DEF PlannedAs, PlanAt
<1>3. /\ sp.fee = fee /\ sp.change = c /\ sp.selected = v /\ sp.vout = o /\ sp.branch = f.branch
      /\ sp.expiry = "planned" /\ sp.sign = s /\ sp.expected = e
  BY <1>2
<1> QED
  BY <1>1, <1>3 DEF PlannedAs, PlanFields

LEMMA PlanMoves ==
  ASSUME NEW f, NEW sp, NEW sel, NEW fee, NEW m, PlannedAs(f, sp, sel, fee, m), NEW stage
  PROVE  /\ PlannedAs(f, [sp EXCEPT !.stage = stage], sel, fee, m)
         /\ [sp EXCEPT !.stage = stage].stage = stage
<1>1. PICK c, v, o, s, e : /\ c = ChangeFor(f, sel, fee) /\ v = Values(sel)
                           /\ o = transparent_outputs(f) /\ s = signing_plans(f, sel, m)
                           /\ e = build_expectations(f, sel, m, ChangeFor(f, sel, fee))
  OBVIOUS
<1>2. PICK old : sp = [stage |-> old, fee |-> fee, change |-> c, selected |-> v, vout |-> o,
                       branch |-> f.branch, expiry |-> "planned", sign |-> s, expected |-> e]
  BY <1>1, Zenon DEF PlannedAs, PlanAt
<1>3. PICK q : q = [sp EXCEPT !.stage = stage]
  OBVIOUS
<1>4. q = [stage |-> stage, fee |-> fee, change |-> c, selected |-> v, vout |-> o,
           branch |-> f.branch, expiry |-> "planned", sign |-> s, expected |-> e]
  BY <1>2, <1>3
<1>5. q.stage = stage
  BY <1>4
<1>6. q = PlanAt(f, sel, fee, m, q.stage)
  BY <1>1, <1>4, <1>5, Zenon DEF PlanAt
<1>7. PlannedAs(f, q, sel, fee, m)
  BY <1>6 DEF PlannedAs
<1> QED
  BY <1>3, <1>5, <1>7, Zenon

\* What VerifiedIsPlanned says of one transaction.
PlannedTx(f, sp, x) ==
  /\ x.vin = 0 /\ x.vout = transparent_outputs(f)
  /\ x.spent = {<<n.id, n.value>> : n \in Range(select_for(f).sel)}
  /\ x.paid = {<<"change", sp.change>>}
  /\ Sum(Map(LAMBDA p : p[2], SetToSeq(x.spent))) = carrier_total(f) + sp.change + sp.fee

FinalBundle(b) == [anchor |-> b.anchor, balance |-> b.sum,
                   nfs |-> Map(LAMBDA a : a.nf, b.actions), cmxs |-> Map(LAMBDA a : a.cmx, b.actions)]

ActsOf(p) == Range(p.orchard.actions) \cup Range(p.ironwood.actions)
SpentBy(acts) == {<<a.nf, a.spend_value>> : a \in {a \in acts : a.spend_value # 0}}
PaidBy(acts) == {a.enc : a \in {a \in acts : a.out_value # 0}}
FinalVersion(branch) == IF branch = "nu6_3" THEN 6 ELSE 5

FinalTx(v, e, vi, vo, o, i, s, d) ==
  [made |-> TRUE, version |-> v, expiry |-> e, vin |-> vi, vout |-> vo,
   orchard |-> o, ironwood |-> i, spent |-> s, paid |-> d]

LEMMA ExtractedFields ==
  ASSUME NEW p
  PROVE  Extracted(p) = FinalTx(FinalVersion(p.branch), p.expiry, p.vin, p.vout, FinalBundle(p.orchard),
                                FinalBundle(p.ironwood), SpentBy(ActsOf(p)), PaidBy(ActsOf(p)))
  BY Zenon DEF Extracted, FinalTx, FinalVersion, FinalBundle, SpentBy, PaidBy, ActsOf

LEMMA TamperedFinalKeeps ==
  ASSUME NEW x, NEW p, x = Extracted(p), NEW t \in FinalTamper, NEW pool \in ValuePool
  PROVE  TamperedFinal(x, t, pool).spent = x.spent /\ TamperedFinal(x, t, pool).paid = x.paid
<1>1. PICK v, e, vi, vo, o, i, s, d :
        x = [made |-> TRUE, version |-> v, expiry |-> e, vin |-> vi, vout |-> vo,
             orchard |-> o, ironwood |-> i, spent |-> s, paid |-> d]
  BY ExtractedFields, Zenon DEF FinalTx
<1>2. PICK y : y = TamperedFinal(x, t, pool)
  OBVIOUS
<1>3. x.spent = s /\ x.paid = d
  BY <1>1
<1>4. CASE t = "version"
  <2>1. y = [x EXCEPT !.version = 4]
    BY <1>2, <1>4 DEF TamperedFinal
  <2> QED
    BY <1>1, <1>2, <1>3, <2>1
<1>5. CASE t = "expiry"
  <2>1. y = [x EXCEPT !.expiry = "other"]
    BY <1>2, <1>5 DEF TamperedFinal
  <2> QED
    BY <1>1, <1>2, <1>3, <2>1
<1>6. CASE t = "vin"
  <2>1. y = [x EXCEPT !.vin = 1]
    BY <1>2, <1>6 DEF TamperedFinal
  <2> QED
    BY <1>1, <1>2, <1>3, <2>1
<1>7. CASE t = "vout"
  <2>0. PICK w : w = Append(x.vout, [value |-> 0, script |-> "other"])
    OBVIOUS
  <2>1. y = [x EXCEPT !.vout = w]
    BY <1>2, <1>7, <2>0 DEF TamperedFinal
  <2> QED
    BY <1>1, <1>2, <1>3, <2>1
<1>8. ASSUME NEW b, y = [x EXCEPT ![pool] = b] PROVE y.spent = s /\ y.paid = d
  <2>1. CASE pool = "orchard"
    <3>1. y = [x EXCEPT !.orchard = b]
      BY <1>8, <2>1
    <3> QED
      BY <1>1, <3>1
  <2>2. CASE pool = "ironwood"
    <3>1. y = [x EXCEPT !.ironwood = b]
      BY <1>8, <2>2
    <3> QED
      BY <1>1, <3>1
  <2> QED
    BY <2>1, <2>2 DEF ValuePool
<1>9. CASE t = "anchor"
  <2>0. PICK b : b = [x[pool] EXCEPT !.anchor = "other"]
    OBVIOUS
  <2>1. y = [x EXCEPT ![pool] = b]
    BY <1>2, <1>9, <2>0 DEF TamperedFinal
  <2> QED
    BY <1>2, <1>3, <1>8, <2>1
<1>10. CASE t = "nf"
  <2>0. PICK b : b = [x[pool] EXCEPT !.nfs[1] = "other"]
    OBVIOUS
  <2>1. y = [x EXCEPT ![pool] = b]
    BY <1>2, <1>10, <2>0 DEF TamperedFinal
  <2> QED
    BY <1>2, <1>3, <1>8, <2>1
<1>11. CASE t = "balance"
  <2>0. PICK b : b = [x[pool] EXCEPT !.balance = @ + 1]
    OBVIOUS
  <2>1. y = [x EXCEPT ![pool] = b]
    BY <1>2, <1>11, <2>0 DEF TamperedFinal
  <2> QED
    BY <1>2, <1>3, <1>8, <2>1
<1>12. CASE t = "cmx"
  <2>0. PICK b : b = [x[pool] EXCEPT !.cmxs[1] = <<"other", 0>>]
    OBVIOUS
  <2>1. y = [x EXCEPT ![pool] = b]
    BY <1>2, <1>12, <2>0 DEF TamperedFinal
  <2> QED
    BY <1>2, <1>3, <1>8, <2>1
<1> QED
  BY <1>4, <1>5, <1>6, <1>7, <1>9, <1>10, <1>11, <1>12 DEF FinalTamper

\* Whatever passes both verifications is the planned transaction.
LEMMA VerifiedTx ==
  ASSUME fund \in Funding, NEW sel, NEW fee, NEW m, PlannedAs(fund, splan, sel, fee, m),
         NEW p, IsPczt(p), verify_finalized_pczt(p),
         NEW x, x.spent = Extracted(p).spent, x.paid = Extracted(p).paid,
         NEW cmx, verify_extracted_shielded(x, cmx)
  PROVE  PlannedTx(fund, splan, x)
<1>1. PICK f, change, exp, S : /\ f = fund /\ change = ChangeFor(fund, sel, fee)
                               /\ exp = splan.expected /\ S = Range(fund.notes)
  OBVIOUS
<1>2. PlanFields(splan, f, sel, fee, m) /\ MadeOf(f, sel, fee, m) /\ f \in Funding
  BY <1>1, PlanHas
<1>3. Selected(f, sel, fee) /\ m \in Metadata(f, sel) /\ sel = select_for(f).sel
  BY <1>2 DEF MadeOf
<1>4. sel \in Seq(S) /\ Distinct(sel) /\ Notes(S)
  BY <1>1, <1>3, FundingNotes DEF Selected
<1>5. exp = build_expectations(f, sel, m, change)
  BY <1>1, <1>2 DEF PlanFields
<1>6. change \in Nat \ {0} /\ fee \in Int /\ carrier_total(f) \in Int /\ Values(sel) \in Int
  BY <1>1, <1>2, <1>3, ChangeLeft DEF ChangeFor
<1>7. PICK home \in ValuePool : home = change_pool(f)
  BY DEF change_pool, ValuePool
<1>8. m.out \in 1..ActionCount(f, sel, home)
  BY <1>3, <1>4, <1>7, MetadataIs
<1>9. ASSUME NEW pool \in ValuePool
      PROVE  /\ SpendsNotes(p[pool].actions, InPool(sel, pool))
             /\ PaysChange(p[pool].actions, pool, home, change)
  <2>1. PICK b, t, n : b = p[pool] /\ t = InPool(sel, pool) /\ n = ActionCount(f, sel, pool)
    OBVIOUS
  <2>2. verify_pool_bundle(b, pool, exp)
    BY <1>1, <2>1 DEF verify_finalized_pczt
  <2>3. n \in Nat /\ t \in Seq(S)
    BY <1>4, <2>1, ActionCounts
  <2>4. PICK at : at = m[pool]
    OBVIOUS
  <2>5. OwnActions(at, t, n)
    BY <1>3, <1>4, <2>1, <2>4, MetadataIs
  <2>6. Expects(exp, pool, at, t, n)
    BY <1>3, <1>4, <1>5, <2>1, <2>4, ExpectationsAre
  <2>7. IsList(b.actions)
    BY <2>1, BundleIs DEF IsBundle
  <2>8. SpendsNotes(b.actions, t) /\ DOMAIN b.actions = 1..n
    BY <2>2, <2>3, <2>5, <2>6, <2>7, PlannedSpends
  <2>9. exp.change = [pool |-> home, index |-> m.out, value |-> change, to |-> "change"]
    BY <1>3, <1>4, <1>5, <1>7, ExpectationsAre
  <2>10. exp.actions[pool] = n
    BY <2>6 DEF Expects
  <2>11. home = pool => m.out \in 1..n
    BY <1>8, <2>1
  <2>12. PICK out : out = m.out
    OBVIOUS
  <2>13. PaysChange(b.actions, pool, home, change)
    BY <1>6, <2>2, <2>3, <2>8, <2>9, <2>10, <2>11, <2>12, PlannedPays
  <2> QED
    BY <2>1, <2>8, <2>13
<1>10. PICK y : y = Extracted(p)
  OBVIOUS
<1>11. y.spent = Spent(sel) /\ y.paid = {<<"change", change>>}
  <2>1. /\ SpendsNotes(p.orchard.actions, InPool(sel, "orchard"))
        /\ SpendsNotes(p.ironwood.actions, InPool(sel, "ironwood"))
    BY <1>9 DEF ValuePool
  <2>2. /\ PaysChange(p.orchard.actions, "orchard", home, change)
        /\ PaysChange(p.ironwood.actions, "ironwood", home, change)
    BY <1>9 DEF ValuePool
  <2>3. PlanInActions(p, sel, home, change)
    BY <2>1, <2>2 DEF PlanInActions
  <2> QED
    BY <1>2, <1>3, <1>7, <1>10, <2>3, ExtractedIs
<1>12. x.spent = Spent(sel) /\ x.paid = {<<"change", change>>}
  BY <1>10, <1>11
<1>13. splan.change = change /\ splan.fee = fee /\ splan.vout = transparent_outputs(f)
  BY <1>1, <1>2 DEF PlanFields
<1>14. x.vin = 0 /\ x.vout = transparent_outputs(f)
  BY <1>13 DEF verify_extracted_shielded
<1>15. Sum(Map(LAMBDA q : q[2], SetToSeq(x.spent))) = Values(sel)
  <2>1. SpentTotal(Spent(sel)) = Values(sel)
    BY <1>4, SpentSum
  <2>2. SpentTotal(x.spent) = Values(sel)
    BY <1>12, <2>1
  <2> QED
    BY <2>2, Zenon DEF SpentTotal
<1>16. Values(sel) = carrier_total(f) + change + fee
  BY <1>1, <1>6 DEF ChangeFor
<1>17. x.spent = {<<n.id, n.value>> : n \in Range(select_for(f).sel)}
  BY <1>3, <1>12 DEF Spent
<1> QED
  BY <1>1, <1>12, <1>13, <1>14, <1>15, <1>16, <1>17 DEF PlannedTx

BuiltBundle(f, sel, m, pool, change) ==
  [pool |-> pool, anchor |-> f.anchor[pool], actions |-> build_actions(f, sel, m, pool, change),
   sum |-> SpendSum(build_actions(f, sel, m, pool, change))
             - OutSum(build_actions(f, sel, m, pool, change))]

LEMMA BuiltPczt ==
  ASSUME NEW f, NEW sel, NEW m, NEW change
  PROVE  assemble_and_build(f, sel, m, change)
           = Pczt("planned", f.branch, 0, transparent_outputs(f),
                  BuiltBundle(f, sel, m, "orchard", change), BuiltBundle(f, sel, m, "ironwood", change))
  BY Zenon DEF assemble_and_build, Pczt, BuiltBundle

SpendAt(f, m, notes, pool, i) ==
  IF \E j \in DOMAIN notes : m[pool][j] = i
    THEN NoteSpend(notes[CHOOSE j \in DOMAIN notes : m[pool][j] = i])
  ELSE IF pool = change_pool(f) /\ i = m.out /\ pool = "orchard" THEN ChangeSpend ELSE DummySpend

OutputAt(f, m, pool, change, i) ==
  IF pool = change_pool(f) /\ i = m.out THEN PayTo("change", change) ELSE PayTo("dummy", 0)

BuiltAction(f, sel, m, pool, change, i) ==
  Action(SpendAt(f, m, InPool(sel, pool), pool, i), OutputAt(f, m, pool, change, i))

LEMMA BuiltActions ==
  ASSUME NEW f, NEW S, NEW sel \in Seq(S), NEW m, NEW pool, NEW change
  PROVE  /\ build_actions(f, sel, m, pool, change)
              = [i \in 1..ActionCount(f, sel, pool) |-> BuiltAction(f, sel, m, pool, change, i)]
         /\ IsList(build_actions(f, sel, m, pool, change))
<1>1. PICK n \in Nat : n = ActionCount(f, sel, pool)
  BY ActionCounts
<1>2. PICK a : a = [i \in 1..n |-> BuiltAction(f, sel, m, pool, change, i)]
  OBVIOUS
<1>3. build_actions(f, sel, m, pool, change) = <<>> \o a
  BY <1>1, <1>2, Zenon DEF build_actions, Each, BuiltAction, SpendAt, OutputAt
<1>4. a = [i \in 1..n |-> a[i]]
  BY <1>2
<1>5. <<>> \o a = a
  BY <1>4, Listed
<1> QED
  BY <1>1, <1>2, <1>3, <1>4, <1>5 DEF IsList

LEMMA BuiltShape ==
  ASSUME NEW f, NEW S, NEW sel \in Seq(S), NEW m, NEW change
  PROVE  IsPczt(assemble_and_build(f, sel, m, change))
<1>1. ASSUME NEW pool PROVE IsBundle(BuiltBundle(f, sel, m, pool, change))
  <2>1. PICK a, acts, s : /\ a = f.anchor[pool] /\ acts = build_actions(f, sel, m, pool, change)
                          /\ s = SpendSum(build_actions(f, sel, m, pool, change))
                                   - OutSum(build_actions(f, sel, m, pool, change))
    OBVIOUS
  <2>2. PICK b : b = BuiltBundle(f, sel, m, pool, change)
    OBVIOUS
  <2>3. b = [pool |-> pool, anchor |-> a, actions |-> acts, sum |-> s]
    BY <2>1, <2>2 DEF BuiltBundle
  <2>4. IsList(acts)
    BY <2>1, BuiltActions
  <2>5. IsBundle(b)
    BY <2>3, <2>4 DEF IsBundle
  <2> QED
    BY <2>2, <2>5
<1>2. PICK o, i : o = BuiltBundle(f, sel, m, "orchard", change) /\ i = BuiltBundle(f, sel, m, "ironwood", change)
  OBVIOUS
<1>3. IsBundle(o) /\ IsBundle(i)
  BY <1>1, <1>2
<1>4. PICK v : v = transparent_outputs(f)
  OBVIOUS
<1>5. IsPczt(Pczt("planned", f.branch, 0, v, o, i))
  BY <1>3, PcztFrom
<1>6. assemble_and_build(f, sel, m, change) = Pczt("planned", f.branch, 0, v, o, i)
  BY <1>2, <1>4, BuiltPczt
<1> QED
  BY <1>5, <1>6

\* Signing.
SignedActions(acts, own) ==
  Each(Len(acts), LAMBDA i : IF i \in own THEN [acts[i] EXCEPT !.signed = TRUE] ELSE acts[i])

SignedAction(a, i, own) == IF i \in own THEN [a EXCEPT !.signed = TRUE] ELSE a

LEMMA SignedActionsAre ==
  ASSUME NEW n \in Nat, NEW acts, acts = [i \in 1..n |-> acts[i]], NEW own
  PROVE  /\ SignedActions(acts, own) = [i \in 1..n |-> SignedAction(acts[i], i, own)]
         /\ IsList(SignedActions(acts, own))
<1>1. Len(acts) = n
  BY Listed
<1>2. PICK a : a = [i \in 1..n |-> SignedAction(acts[i], i, own)]
  OBVIOUS
<1>3. SignedActions(acts, own) = <<>> \o a
  BY <1>1, <1>2, Zenon DEF SignedActions, SignedAction, Each
<1>4. a = [i \in 1..n |-> a[i]]
  BY <1>2
<1>5. <<>> \o a = a
  BY <1>4, Listed
<1> QED
  BY <1>2, <1>3, <1>4, <1>5 DEF IsList

WithActs(b, acts) == [pool |-> b.pool, anchor |-> b.anchor, actions |-> acts, sum |-> b.sum]

PcztWith(p, A, B) == [p EXCEPT !.orchard.actions = A, !.ironwood.actions = B]

LEMMA SignedIs ==
  ASSUME NEW e, NEW br, NEW vi, NEW vo, NEW o, NEW i, IsBundle(o), IsBundle(i), NEW p,
         p = Pczt(e, br, vi, vo, o, i), NEW A, NEW B
  PROVE  PcztWith(p, A, B) = Pczt(e, br, vi, vo, WithActs(o, A), WithActs(i, B))
<1>1. p.orchard = o /\ p.ironwood = i
  BY DEF Pczt
<1>2. PICK x : x = [o EXCEPT !.actions = A]
  OBVIOUS
<1>3. x = WithActs(o, A)
  <2>1. o = [pool |-> o.pool, anchor |-> o.anchor, actions |-> o.actions, sum |-> o.sum]
    BY DEF IsBundle
  <2> QED
    BY <1>2, <2>1 DEF WithActs
<1>4. PICK y : y = [i EXCEPT !.actions = B]
  OBVIOUS
<1>5. y = WithActs(i, B)
  <2>1. i = [pool |-> i.pool, anchor |-> i.anchor, actions |-> i.actions, sum |-> i.sum]
    BY DEF IsBundle
  <2> QED
    BY <1>4, <2>1 DEF WithActs
<1>6. PICK q : q = [p EXCEPT !.orchard = x, !.ironwood = y]
  OBVIOUS
<1>7. q = Pczt(e, br, vi, vo, x, y)
  BY <1>6 DEF Pczt
<1>8. PcztWith(p, A, B) = q
  BY <1>1, <1>2, <1>4, <1>6 DEF Pczt, PcztWith
<1> QED
  BY <1>3, <1>5, <1>7, <1>8

LEMMA WithActsIs ==
  ASSUME NEW b, NEW acts, IsList(acts)
  PROVE  IsBundle(WithActs(b, acts))
<1>1. PICK x, y, z : x = b.pool /\ y = b.anchor /\ z = b.sum
  OBVIOUS
<1>2. PICK c : c = WithActs(b, acts)
  OBVIOUS
<1>3. c = [pool |-> x, anchor |-> y, actions |-> acts, sum |-> z]
  BY <1>1, <1>2 DEF WithActs
<1>4. IsBundle(c)
  BY <1>3 DEF IsBundle
<1> QED
  BY <1>2, <1>4

(***************************************************************************)
(* The stages.  The plan is the one plan_shielded made, the PCZT has its   *)
(* shape, and a transaction there is was extracted and is the planned one. *)
(***************************************************************************)
Unplanned == {"none", "refused"}

StagesFor(f, sp, p, x) ==
  /\ f \in Funding
  /\ sp.stage \in Unplanned \cup Live
  /\ sp.stage \in Unplanned => p = NoPczt /\ x = NoTx
  /\ sp.stage \in Live => \E sel, fee, m : PlannedAs(f, sp, sel, fee, m)
  /\ p = NoPczt \/ IsPczt(p)
  /\ x = NoTx \/ sp.stage = "extracted"
  /\ sp.stage = "extracted" => p = NoPczt
  /\ x.made => PlannedTx(f, sp, x)

ShieldedStages == StagesFor(fund, splan, pczt, vtx)

LEMMA NothingYet ==
  NoPczt.made = FALSE /\ NoTx.made = FALSE /\ NoShieldedPlan.stage = "none" /\ RefusedPlan.stage = "refused"
  BY DEF NoPczt, NoTx, NoShieldedPlan, RefusedPlan

LEMMA PcztMade ==
  ASSUME NEW p, IsPczt(p)
  PROVE  p.made = TRUE
<1>1. PICK e, br, vi, vo, o, i : p = Pczt(e, br, vi, vo, o, i)
  BY PcztIs
<1> QED
  BY <1>1 DEF Pczt

LEMMA StagesInit == ShieldedInit => ShieldedStages
<1> SUFFICES ASSUME ShieldedInit PROVE ShieldedStages
  OBVIOUS
<1>1. fund \in Funding /\ splan = NoShieldedPlan /\ pczt = NoPczt /\ vtx = NoTx
  BY DEF ShieldedInit
<1>2. splan.stage = "none" /\ vtx.made = FALSE
  BY <1>1, NothingYet
<1> QED
  BY <1>1, <1>2 DEF ShieldedStages, StagesFor, Unplanned, Live

LEMMA StagesPlan ==
  ASSUME ShieldedStages, plan_shielded
  PROVE  ShieldedStages'
<1>1. /\ splan = NoShieldedPlan /\ fund \in Funding
      /\ fund' = fund /\ vtx' = vtx
  BY DEF plan_shielded, ShieldedStages, StagesFor
<1>2. splan.stage = "none" /\ pczt = NoPczt /\ vtx = NoTx
  <2>1. splan.stage = "none"
    BY <1>1, NothingYet
  <2> QED
    BY <2>1 DEF ShieldedStages, StagesFor, Unplanned
<1>3. PICK s, sel, fee, change : /\ s = select_for(fund) /\ sel = s.sel /\ fee = s.fee
                                 /\ change = Values(s.sel) - carrier_total(fund) - s.fee
  OBVIOUS
<1>4. CASE splan' = RefusedPlan /\ pczt' = pczt
  <2>1. splan'.stage = "refused" /\ vtx'.made = FALSE
    BY <1>1, <1>2, <1>4, NothingYet
  <2> QED
    BY <1>1, <1>2, <1>4, <2>1 DEF ShieldedStages, StagesFor, Unplanned, Live
<1>5. CASE /\ Fundable(fund) /\ s.ok /\ AnchorsKnown(fund, s.sel) /\ circuit_known(fund)
           /\ \E m \in Metadata(fund, s.sel) :
                /\ pczt' = assemble_and_build(fund, s.sel, m, change)
                /\ splan' = [stage |-> "planned", fee |-> s.fee, change |-> change,
                             selected |-> Values(s.sel), vout |-> transparent_outputs(fund),
                             branch |-> fund.branch, expiry |-> "planned",
                             sign |-> signing_plans(fund, s.sel, m),
                             expected |-> build_expectations(fund, s.sel, m, change)]
  <2>1. PICK m \in Metadata(fund, sel) :
             /\ pczt' = assemble_and_build(fund, sel, m, change)
             /\ splan' = [stage |-> "planned", fee |-> fee, change |-> change,
                          selected |-> Values(sel), vout |-> transparent_outputs(fund),
                          branch |-> fund.branch, expiry |-> "planned",
                          sign |-> signing_plans(fund, sel, m),
                          expected |-> build_expectations(fund, sel, m, change)]
    BY <1>3, <1>5, Zenon
  <2>2. Selected(fund, sel, fee)
    BY <1>1, <1>3, <1>5, SelectionIs
  <2>3. MadeOf(fund, sel, fee, m)
    BY <1>3, <1>5, <2>1, <2>2 DEF MadeOf
  <2>4. change = ChangeFor(fund, sel, fee)
    BY <1>3 DEF ChangeFor
  <2>5. splan' = PlanAt(fund, sel, fee, m, "planned")
    BY <2>1, <2>4, Zenon DEF PlanAt
  <2>6. splan'.stage = "planned"
    <3>1. PICK sg, ex, vo, va : /\ sg = signing_plans(fund, sel, m) /\ vo = transparent_outputs(fund)
                                /\ ex = build_expectations(fund, sel, m, change) /\ va = Values(sel)
      OBVIOUS
    <3>2. splan' = [stage |-> "planned", fee |-> fee, change |-> change, selected |-> va, vout |-> vo,
                    branch |-> fund.branch, expiry |-> "planned", sign |-> sg, expected |-> ex]
      BY <2>1, <3>1, Zenon
    <3> QED
      BY <3>2
  <2>7. PlannedAs(fund, splan', sel, fee, m)
    BY <2>3, <2>5, <2>6 DEF PlannedAs
  <2>8. IsPczt(pczt')
    <3>1. sel \in Seq(Range(fund.notes))
      BY <2>2 DEF Selected
    <3> QED
      BY <2>1, <3>1, BuiltShape
  <2>9. vtx'.made = FALSE /\ vtx' = NoTx
    BY <1>1, <1>2, NothingYet
  <2> QED
    BY <1>1, <2>6, <2>7, <2>8, <2>9 DEF ShieldedStages, StagesFor, Unplanned, Live
<1> QED
  BY <1>3, <1>4, <1>5, Zenon DEF plan_shielded

\* A step that leaves the plan, the transaction and the request alone.
LEMMA StagesPczt ==
  ASSUME ShieldedStages, fund' = fund, splan' = splan, vtx' = vtx,
         pczt' = NoPczt \/ (IsPczt(pczt) /\ IsPczt(pczt'))
  PROVE  ShieldedStages'
<1>1. StagesFor(fund, splan, pczt, vtx)
  BY DEF ShieldedStages
<1>2. IsPczt(pczt) => pczt # NoPczt
  BY PcztMade, NothingYet
<1>3. StagesFor(fund', splan', pczt', vtx')
  BY <1>1, <1>2 DEF StagesFor
<1> QED
  BY <1>3 DEF ShieldedStages

LEMMA StagesTamper ==
  ASSUME ShieldedStages, tamper
  PROVE  ShieldedStages'
<1>1. pczt.made /\ fund' = fund /\ splan' = splan /\ vtx' = vtx
  BY DEF tamper
<1>2. PICK p : p = pczt
  OBVIOUS
<1>3. IsPczt(p)
  BY <1>1, <1>2, NothingYet DEF ShieldedStages, StagesFor
<1>4. ASSUME NEW t \in GlobalTamper, pczt' = TamperedGlobal(pczt, t) PROVE IsPczt(pczt')
  BY <1>2, <1>3, <1>4, GlobalShape
<1>5. ASSUME NEW pool \in ValuePool, pczt[pool].actions # <<>>, NEW t \in BundleTamper,
             pczt' = [pczt EXCEPT ![pool] = TamperedBundle(pczt[pool], t)]
      PROVE  IsPczt(pczt')
  <2>1. PICK b, c : b = p[pool] /\ c = TamperedBundle(b, t)
    OBVIOUS
  <2>2. IsBundle(b) /\ b.actions # <<>>
    BY <1>2, <1>3, <1>5, <2>1, BundleIs
  <2>3. IsBundle(c)
    BY <2>1, <2>2, BundleShape
  <2>4. IsPczt([p EXCEPT ![pool] = c])
    BY <1>3, <2>3, WithBundle
  <2>5. pczt' = [p EXCEPT ![pool] = c]
    BY <1>2, <1>5, <2>1, Zenon
  <2> QED
    BY <2>4, <2>5, Zenon
<1>6. ASSUME NEW pool \in ValuePool, NEW i, NEW e, pczt' = [pczt EXCEPT ![pool].actions[i] = e]
      PROVE  IsPczt(pczt')
  <2>1. IsPczt([p EXCEPT ![pool].actions[i] = e])
    BY <1>3, ActionShape
  <2> QED
    BY <1>2, <1>6, <2>1, Zenon
<1>7. IsPczt(pczt')
  BY <1>4, <1>5, <1>6, Zenon DEF tamper
<1> QED
  BY <1>1, <1>2, <1>3, <1>7, StagesPczt

LEMMA StagesProve ==
  ASSUME ShieldedStages, prove_pczt
  PROVE  ShieldedStages'
<1>1. /\ splan.stage = "planned" /\ splan' = [splan EXCEPT !.stage = "proven"]
      /\ fund' = fund /\ pczt' = pczt /\ vtx' = vtx
  BY DEF prove_pczt, InStage
<1>2. StagesFor(fund, splan, pczt, vtx)
  BY DEF ShieldedStages
<1>3. PICK sel, fee, m : PlannedAs(fund, splan, sel, fee, m)
  BY <1>1, <1>2 DEF StagesFor, Live
<1>4. PICK q : q = [splan EXCEPT !.stage = "proven"]
  OBVIOUS
<1>5. PlannedAs(fund, q, sel, fee, m) /\ q.stage = "proven"
  BY <1>3, <1>4, PlanMoves
<1>6. vtx = NoTx
  BY <1>1, <1>2 DEF StagesFor
<1>7. StagesFor(fund, q, pczt, vtx)
  BY <1>2, <1>5, <1>6, NothingYet DEF StagesFor, Live, Unplanned
<1> QED
  BY <1>1, <1>4, <1>7 DEF ShieldedStages

\* The signed PCZT, and that it has the shape of one.
SignedPczt(p, own) ==
  PcztWith(p, SignedActions(p.orchard.actions, own["orchard"]),
              SignedActions(p.ironwood.actions, own["ironwood"]))

LEMMA SignedShape ==
  ASSUME NEW p, IsPczt(p), NEW own
  PROVE  IsPczt(SignedPczt(p, own))
<1>1. PICK e, br, vi, vo, o, i : p = Pczt(e, br, vi, vo, o, i) /\ IsBundle(o) /\ IsBundle(i)
  BY PcztIs
<1>2. PICK A, B : /\ A = SignedActions(p.orchard.actions, own["orchard"])
                  /\ B = SignedActions(p.ironwood.actions, own["ironwood"])
  OBVIOUS
<1>3. p.orchard = o /\ p.ironwood = i
  BY <1>1 DEF Pczt
<1>4. IsList(A) /\ IsList(B)
  <2>1. PICK n \in Nat : o.actions = [j \in 1..n |-> o.actions[j]]
    BY <1>1 DEF IsBundle, IsList
  <2>2. PICK k \in Nat : i.actions = [j \in 1..k |-> i.actions[j]]
    BY <1>1 DEF IsBundle, IsList
  <2>3. IsList(A)
    BY <1>2, <1>3, <2>1, SignedActionsAre
  <2>4. IsList(B)
    BY <1>2, <1>3, <2>2, SignedActionsAre
  <2> QED
    BY <2>3, <2>4
<1>5. PICK q : q = PcztWith(p, A, B)
  OBVIOUS
<1>6. q = Pczt(e, br, vi, vo, WithActs(o, A), WithActs(i, B))
  BY <1>1, <1>5, SignedIs
<1>7. IsPczt(q)
  BY <1>4, <1>6, WithActsIs, PcztFrom
<1>8. SignedPczt(p, own) = q
  BY <1>2, <1>5, Zenon DEF SignedPczt
<1> QED
  BY <1>7, <1>8

LEMMA SignStep ==
  ASSUME sign_pczt
  PROVE  /\ InStage("proven") /\ fund' = fund /\ vtx' = vtx /\ tampers' = tampers
         /\ \/ /\ Signs(pczt) /\ splan' = [splan EXCEPT !.stage = "signed"]
               /\ pczt' = SignedPczt(pczt, splan.sign)
            \/ ~Signs(pczt) /\ pczt' = NoPczt /\ splan' = splan
  BY Zenon DEF sign_pczt, SignedPczt, PcztWith, SignedActions

LEMMA StagesSign ==
  ASSUME ShieldedStages, sign_pczt
  PROVE  ShieldedStages'
<1>1. InStage("proven") /\ fund' = fund /\ vtx' = vtx
  BY SignStep
<1>2. splan.stage = "proven" /\ pczt.made
  BY <1>1 DEF InStage
<1>3. StagesFor(fund, splan, pczt, vtx)
  BY DEF ShieldedStages
<1>4. CASE pczt' = NoPczt /\ splan' = splan
  BY <1>1, <1>4, StagesPczt
<1>5. CASE splan' = [splan EXCEPT !.stage = "signed"] /\ pczt' = SignedPczt(pczt, splan.sign)
  <2>1. PICK sel, fee, m : PlannedAs(fund, splan, sel, fee, m)
    BY <1>2, <1>3 DEF StagesFor, Live
  <2>2. PICK q : q = [splan EXCEPT !.stage = "signed"]
    OBVIOUS
  <2>3. PlannedAs(fund, q, sel, fee, m) /\ q.stage = "signed"
    BY <2>1, <2>2, PlanMoves
  <2>4. vtx = NoTx /\ IsPczt(pczt)
    BY <1>2, <1>3, NothingYet DEF StagesFor
  <2>5. PICK p, own : p = pczt /\ own = splan.sign
    OBVIOUS
  <2>6. IsPczt(SignedPczt(p, own))
    BY <2>4, <2>5, SignedShape
  <2>7. PICK r : r = SignedPczt(p, own)
    OBVIOUS
  <2>8. StagesFor(fund, q, r, vtx)
    BY <1>3, <2>3, <2>4, <2>6, <2>7, NothingYet DEF StagesFor, Live, Unplanned
  <2>9. pczt' = r /\ splan' = q
    BY <1>5, <2>2, <2>5, <2>7, Zenon
  <2> QED
    BY <1>1, <2>8, <2>9 DEF ShieldedStages
<1> QED
  BY <1>4, <1>5, SignStep

LEMMA StagesExtract ==
  ASSUME ShieldedStages, extract_verified_shielded
  PROVE  ShieldedStages'
<1>1. splan.stage = "signed" /\ pczt.made /\ pczt' = NoPczt /\ fund' = fund
  BY DEF extract_verified_shielded, InStage
<1>2. StagesFor(fund, splan, pczt, vtx)
  BY DEF ShieldedStages
<1>3. vtx = NoTx /\ IsPczt(pczt) /\ fund \in Funding
  BY <1>1, <1>2, NothingYet DEF StagesFor
<1>4. CASE splan' = splan /\ vtx' = vtx
  BY <1>1, <1>4, StagesPczt
<1>5. CASE verify_finalized_pczt(pczt) /\ splan' # splan
  <2>1. PICK sel, fee, m : PlannedAs(fund, splan, sel, fee, m)
    BY <1>1, <1>2 DEF StagesFor, Live
  <2>2. PICK p, pool, cmx, ok : /\ p = pczt /\ pool = splan.expected.change.pool
                      /\ cmx = pczt[splan.expected.change.pool].actions[splan.expected.change.index].cmx
                      /\ ok = Extractable(pczt)
    OBVIOUS
  <2>3. PICK x \in {Extracted(p)} \cup {TamperedFinal(Extracted(p), t, pool) :
                                        t \in {t \in FinalTamper : tampers < MaxTampers}} :
             /\ splan' = [splan EXCEPT !.stage = "extracted"]
             /\ vtx' = IF verify_extracted_shielded(x, cmx) THEN x ELSE NoTx
    BY <1>5, <2>2, Zenon DEF extract_verified_shielded
  <2>4. PICK y : y = Extracted(p)
    OBVIOUS
  <2>5. pool \in ValuePool
    <3>1. PlanFields(splan, fund, sel, fee, m) /\ MadeOf(fund, sel, fee, m)
      BY <2>1, PlanHas
    <3>2. Selected(fund, sel, fee) /\ m \in Metadata(fund, sel)
      BY <3>1 DEF MadeOf
    <3>3. PICK c : c = ChangeFor(fund, sel, fee)
      OBVIOUS
    <3>4. PICK exp : exp = build_expectations(fund, sel, m, c) /\ splan.expected = exp
      BY <3>1, <3>3 DEF PlanFields
    <3>5. sel \in Seq(Range(fund.notes)) /\ Distinct(sel) /\ Notes(Range(fund.notes))
      BY <1>3, <3>2, FundingNotes DEF Selected
    <3>6. exp.change = [pool |-> change_pool(fund), index |-> m.out, value |-> c, to |-> "change"]
      BY <3>2, <3>4, <3>5, ExpectationsAre DEF ValuePool
    <3>7. exp.change.pool = change_pool(fund)
      <4>1. PICK a, b : a = change_pool(fund) /\ b = m.out
        OBVIOUS
      <4>2. exp.change = [pool |-> a, index |-> b, value |-> c, to |-> "change"]
        BY <3>6, <4>1
      <4> QED
        BY <4>1, <4>2
    <3> QED
      BY <2>2, <3>4, <3>7 DEF change_pool, ValuePool
  <2>6. x.spent = y.spent /\ x.paid = y.paid
    <3>1. CASE x = y
      BY <3>1
    <3>2. CASE \E t \in FinalTamper : x = TamperedFinal(y, t, pool)
      BY <2>4, <2>5, <3>2, TamperedFinalKeeps
    <3> QED
      BY <2>3, <2>4, <3>1, <3>2
  <2>7. verify_extracted_shielded(x, cmx) => PlannedTx(fund, splan, x)
    BY <1>3, <1>5, <2>1, <2>2, <2>4, <2>6, VerifiedTx
  <2>8. PICK q : q = [splan EXCEPT !.stage = "extracted"]
    OBVIOUS
  <2>9. PlannedAs(fund, q, sel, fee, m) /\ q.stage = "extracted"
    BY <2>1, <2>8, PlanMoves
  <2>10. q.change = splan.change /\ q.fee = splan.fee
    BY <2>1, <2>9, PlanHas DEF PlanFields
  <2>11. vtx'.made => PlannedTx(fund, q, vtx')
    <3>1. CASE verify_extracted_shielded(x, cmx)
      BY <2>3, <2>7, <2>10, <3>1, Zenon DEF PlannedTx
    <3>2. CASE ~verify_extracted_shielded(x, cmx)
      BY <2>3, <3>2, NothingYet
    <3> QED
      BY <3>1, <3>2
  <2>12. StagesFor(fund, q, NoPczt, vtx')
    BY <1>3, <2>9, <2>11 DEF StagesFor, Live, Unplanned
  <2>13. splan' = q
    BY <2>3, <2>8, Zenon
  <2> QED
    BY <1>1, <2>12, <2>13 DEF ShieldedStages
<1>6. (verify_finalized_pczt(pczt) /\ splan' # splan) \/ (splan' = splan /\ vtx' = vtx)
  <2>1. CASE ~(verify_finalized_pczt(pczt) /\ Extractable(pczt))
    BY <2>1, Zenon DEF extract_verified_shielded
  <2>2. CASE verify_finalized_pczt(pczt) /\ Extractable(pczt)
    <3>1. splan' = [splan EXCEPT !.stage = "extracted"]
      BY <2>2, Zenon DEF extract_verified_shielded
    <3>2. PICK sel, fee, m : PlannedAs(fund, splan, sel, fee, m)
      BY <1>1, <1>2 DEF StagesFor, Live
    <3>3. splan'.stage = "extracted"
      BY <3>1, <3>2, PlanMoves
    <3> QED
      BY <1>1, <2>2, <3>3
  <2> QED
    BY <2>1, <2>2
<1> QED
  BY <1>4, <1>5, <1>6

LEMMA StagesNext == ShieldedStages /\ [ShieldedNext]_shieldedVars => ShieldedStages'
<1> SUFFICES ASSUME ShieldedStages, [ShieldedNext]_shieldedVars PROVE ShieldedStages'
  OBVIOUS
<1>1. CASE move_tip \/ UNCHANGED shieldedVars
  <2>1. fund' = fund /\ splan' = splan /\ pczt' = pczt /\ vtx' = vtx
    BY <1>1 DEF move_tip, shieldedVars
  <2> QED
    BY <2>1 DEF ShieldedStages
<1> QED
  BY <1>1, StagesPlan, StagesTamper, StagesProve, StagesSign, StagesExtract DEF ShieldedNext

\* VerifiedIsPlanned: whatever was done to the PCZT, and however often, a
\* transaction that passes verify_finalized_pczt and verify_extracted_shielded
\* spends the selected notes and nothing else, pays the planned outputs and the
\* change and nothing else, and leaves the planned fee - for every request,
\* wallet and number of alterations (plan.rs, shielded.rs).
THEOREM ShieldedVerifiedIsPlanned == ShieldedSpec => []VerifiedIsPlanned
<1>1. ShieldedStages => VerifiedIsPlanned
  <2>1. ShieldedStages => (vtx.made => PlannedTx(fund, splan, vtx))
    BY DEF ShieldedStages, StagesFor
  <2> QED
    BY <2>1, Zenon DEF PlannedTx, VerifiedIsPlanned
<1> QED
  BY <1>1, StagesInit, StagesNext, PTL DEF ShieldedSpec

(***************************************************************************)
(* A plan nobody altered.  What the builder made: the notes t in their     *)
(* actions `at', the change in the actions `here', a spend of the account  *)
(* without a note in the actions `extra', and dummies the builder signed.  *)
(***************************************************************************)
BuiltActs(acts, n, t, at, here, change, extra) ==
  /\ acts = [i \in 1..n |-> acts[i]]
  /\ \A i \in 1..n : acts[i] = Action(acts[i], acts[i])
  /\ \A j \in 1..Len(t) : /\ acts[at[j]].nf = t[j].id /\ acts[at[j]].spend_value = t[j].value
                          /\ acts[at[j]].key = "account"
  /\ \A i \in 1..n : (\A j \in 1..Len(t) : at[j] # i) =>
       /\ acts[i].spend_value = 0 /\ acts[i].nf # "other"
       /\ IF i \in extra THEN acts[i].key = "account" ELSE acts[i].signed = TRUE
  /\ \A i \in 1..n :
       IF i \in here THEN /\ acts[i].recipient = "change" /\ acts[i].out_value = change
                          /\ acts[i].cmx = <<"change", change>> /\ acts[i].enc = <<"change", change>>
       ELSE acts[i].out_value = 0

ChangeAt(f, m, pool) == IF pool = change_pool(f) THEN {m.out} ELSE {}
ExtraAt(f, m, pool) == IF pool = "orchard" /\ change_pool(f) = "orchard" THEN {m.out} ELSE {}

LEMMA ActionFields ==
  ASSUME NEW s, NEW o, NEW a, a = Action(s, o)
  PROVE  /\ a.nf = s.nf /\ a.spend_value = s.spend_value /\ a.key = s.key /\ a.signed = s.signed
         /\ a.recipient = o.recipient /\ a.out_value = o.out_value /\ a.cmx = o.cmx /\ a.enc = o.enc
         /\ a = Action(a, a)
<1>1. PICK x1, x2, x3, x4, y1, y2, y3, y4 :
         /\ x1 = s.nf /\ x2 = s.spend_value /\ x3 = s.key /\ x4 = s.signed
         /\ y1 = o.recipient /\ y2 = o.out_value /\ y3 = o.cmx /\ y4 = o.enc
  OBVIOUS
<1>2. a = [nf |-> x1, spend_value |-> x2, key |-> x3, signed |-> x4, recipient |-> y1,
           out_value |-> y2, cmx |-> y3, enc |-> y4]
  BY <1>1, Zenon DEF Action
<1>3. /\ a.nf = x1 /\ a.spend_value = x2 /\ a.key = x3 /\ a.signed = x4
      /\ a.recipient = y1 /\ a.out_value = y2 /\ a.cmx = y3 /\ a.enc = y4
  BY <1>2
<1>4. a = Action(a, a)
  BY <1>2, <1>3, Zenon DEF Action
<1> QED
  BY <1>1, <1>3, <1>4

LEMMA SpendFields ==
  ASSUME NEW n
  PROVE  /\ NoteSpend(n).nf = n.id /\ NoteSpend(n).spend_value = n.value /\ NoteSpend(n).key = "account"
         /\ ChangeSpend.spend_value = 0 /\ ChangeSpend.nf # "other" /\ ChangeSpend.key = "account"
         /\ DummySpend.spend_value = 0 /\ DummySpend.nf # "other" /\ DummySpend.signed = TRUE
  BY DEF NoteSpend, ChangeSpend, DummySpend

LEMMA PayFields ==
  ASSUME NEW to, NEW v
  PROVE  /\ PayTo(to, v).recipient = to /\ PayTo(to, v).out_value = v
         /\ PayTo(to, v).cmx = <<to, v>> /\ PayTo(to, v).enc = <<to, v>>
  BY DEF PayTo

LEMMA BuiltAre ==
  ASSUME NEW f, NEW S, NEW sel \in Seq(S), NEW m \in Metadata(f, sel), NEW pool \in ValuePool, NEW change
  PROVE  BuiltActs(build_actions(f, sel, m, pool, change), ActionCount(f, sel, pool),
                   InPool(sel, pool), m[pool], ChangeAt(f, m, pool), change, ExtraAt(f, m, pool))
<1>1. PICK n, t, at, here, extra, acts :
         /\ n = ActionCount(f, sel, pool) /\ t = InPool(sel, pool) /\ at = m[pool]
         /\ here = ChangeAt(f, m, pool) /\ extra = ExtraAt(f, m, pool)
         /\ acts = build_actions(f, sel, m, pool, change)
  OBVIOUS
<1>2. acts = [i \in 1..n |-> BuiltAction(f, sel, m, pool, change, i)] /\ n \in Nat /\ t \in Seq(S)
  <2>1. build_actions(f, sel, m, pool, change)
          = [i \in 1..ActionCount(f, sel, pool) |-> BuiltAction(f, sel, m, pool, change, i)]
    BY BuiltActions
  <2>2. ActionCount(f, sel, pool) \in Nat /\ InPool(sel, pool) \in Seq(S)
    BY ActionCounts
  <2> QED
    BY <1>1, <2>1, <2>2
<1>3. OwnActions(at, t, n)
  BY <1>1, MetadataIs
<1>4. DOMAIN t = 1..Len(t) /\ Len(t) \in Nat
  BY <1>2
<1>5. ASSUME NEW i \in 1..n
      PROVE  /\ acts[i] = Action(SpendAt(f, m, t, pool, i), OutputAt(f, m, pool, change, i))
             /\ acts[i] = Action(acts[i], acts[i])
  <2>1. acts[i] = Action(SpendAt(f, m, t, pool, i), OutputAt(f, m, pool, change, i))
    BY <1>1, <1>2 DEF BuiltAction
  <2>2. PICK s, o, a : s = SpendAt(f, m, t, pool, i) /\ o = OutputAt(f, m, pool, change, i) /\ a = acts[i]
    OBVIOUS
  <2>3. a = Action(a, a)
    BY <2>1, <2>2, ActionFields
  <2> QED
    BY <2>1, <2>2, <2>3
<1>6. ASSUME NEW j \in 1..Len(t)
      PROVE  /\ acts[at[j]].nf = t[j].id /\ acts[at[j]].spend_value = t[j].value
             /\ acts[at[j]].key = "account"
  <2>1. PICK i : i = at[j]
    OBVIOUS
  <2>2. i \in 1..n /\ \A k \in 1..Len(t) : at[k] = i => k = j
    BY <1>3, <2>1 DEF OwnActions
  <2>3. j = CHOOSE k \in DOMAIN t : at[k] = i
    BY <1>4, <2>1, <2>2
  <2>4. SpendAt(f, m, t, pool, i) = NoteSpend(t[j])
    BY <1>1, <1>4, <2>1, <2>3 DEF SpendAt
  <2>5. PICK s, o, a : s = NoteSpend(t[j]) /\ o = OutputAt(f, m, pool, change, i) /\ a = acts[i]
    OBVIOUS
  <2>6. a = Action(s, o)
    BY <1>5, <2>2, <2>4, <2>5
  <2>7. a.nf = s.nf /\ a.spend_value = s.spend_value /\ a.key = s.key
    BY <2>6, ActionFields
  <2> QED
    BY <2>1, <2>5, <2>7, SpendFields
<1>7. ASSUME NEW i \in 1..n, \A j \in 1..Len(t) : at[j] # i
      PROVE  /\ acts[i].spend_value = 0 /\ acts[i].nf # "other"
             /\ IF i \in extra THEN acts[i].key = "account" ELSE acts[i].signed = TRUE
  <2>1. SpendAt(f, m, t, pool, i)
          = IF pool = change_pool(f) /\ i = m.out /\ pool = "orchard" THEN ChangeSpend ELSE DummySpend
    BY <1>1, <1>4, <1>7 DEF SpendAt
  <2>2. i \in extra <=> pool = change_pool(f) /\ i = m.out /\ pool = "orchard"
    BY <1>1 DEF ExtraAt
  <2>3. PICK s, o, a : s = SpendAt(f, m, t, pool, i) /\ o = OutputAt(f, m, pool, change, i) /\ a = acts[i]
    OBVIOUS
  <2>4. a = Action(s, o)
    BY <1>5, <2>3
  <2>5. a.nf = s.nf /\ a.spend_value = s.spend_value /\ a.key = s.key /\ a.signed = s.signed
    BY <2>4, ActionFields
  <2>6. CASE i \in extra
    BY <2>1, <2>2, <2>3, <2>5, <2>6, SpendFields
  <2>7. CASE i \notin extra
    BY <2>1, <2>2, <2>3, <2>5, <2>7, SpendFields
  <2> QED
    BY <2>6, <2>7
<1>8. ASSUME NEW i \in 1..n
      PROVE  IF i \in here THEN /\ acts[i].recipient = "change" /\ acts[i].out_value = change
                                /\ acts[i].cmx = <<"change", change>> /\ acts[i].enc = <<"change", change>>
             ELSE acts[i].out_value = 0
  <2>1. i \in here <=> pool = change_pool(f) /\ i = m.out
    BY <1>1 DEF ChangeAt
  <2>2. PICK s, o, a : s = SpendAt(f, m, t, pool, i) /\ o = OutputAt(f, m, pool, change, i) /\ a = acts[i]
    OBVIOUS
  <2>3. a = Action(s, o)
    BY <1>5, <2>2
  <2>4. a.recipient = o.recipient /\ a.out_value = o.out_value /\ a.cmx = o.cmx /\ a.enc = o.enc
    BY <2>3, ActionFields
  <2>5. CASE i \in here
    <3>1. o = PayTo("change", change)
      BY <2>1, <2>2, <2>5 DEF OutputAt
    <3> QED
      BY <2>2, <2>4, <2>5, <3>1, PayFields
  <2>6. CASE i \notin here
    <3>1. o = PayTo("dummy", 0)
      BY <2>1, <2>2, <2>6 DEF OutputAt
    <3> QED
      BY <2>2, <2>4, <2>6, <3>1, PayFields
  <2> QED
    BY <2>5, <2>6
<1>9. acts = [i \in 1..n |-> acts[i]]
  BY <1>2
<1>10. BuiltActs(acts, n, t, at, here, change, extra)
  BY <1>5, <1>6, <1>7, <1>8, <1>9, Zenon DEF BuiltActs
<1> QED
  BY <1>1, <1>10

ListOf(acts, n) == acts = [i \in 1..n |-> acts[i]]

LEMMA SignedList ==
  ASSUME NEW n \in Nat, NEW acts, ListOf(acts, n), NEW own
  PROVE  SignedActions(acts, own) = [i \in 1..n |-> SignedAction(acts[i], i, own)]
<1>1. acts = [i \in 1..n |-> acts[i]]
  BY DEF ListOf
<1> QED
  BY <1>1, SignedActionsAre

OwnSpends(own, at, t, extra) == own = {at[j] : j \in 1..Len(t)} \cup extra

\* Signing what the plan names signs everything and changes nothing else.
LEMMA SigningKeeps ==
  ASSUME NEW n \in Nat, NEW S, NEW t \in Seq(S), NEW at, NEW here, NEW change, NEW extra, NEW acts,
         BuiltActs(acts, n, t, at, here, change, extra), OwnActions(at, t, n),
         NEW own, OwnSpends(own, at, t, extra)
  PROVE  /\ BuiltActs(SignedActions(acts, own), n, t, at, here, change, extra)
         /\ \A i \in 1..n : SignedActions(acts, own)[i].signed = TRUE
<1>1. PICK new : new = SignedActions(acts, own)
  OBVIOUS
<1>2. acts = [i \in 1..n |-> acts[i]] /\ \A i \in 1..n : acts[i] = Action(acts[i], acts[i])
  BY DEF BuiltActs
<1>3. new = [i \in 1..n |-> SignedAction(acts[i], i, own)]
  <2>1. ListOf(acts, n)
    BY <1>2 DEF ListOf
  <2>2. SignedActions(acts, own) = [i \in 1..n |-> SignedAction(acts[i], i, own)]
    BY <2>1, SignedList
  <2> QED
    BY <1>1, <2>2
<1>4. ASSUME NEW i \in 1..n
      PROVE  /\ new[i].nf = acts[i].nf /\ new[i].spend_value = acts[i].spend_value
             /\ new[i].key = acts[i].key /\ new[i].recipient = acts[i].recipient
             /\ new[i].out_value = acts[i].out_value /\ new[i].cmx = acts[i].cmx
             /\ new[i].enc = acts[i].enc /\ new[i] = Action(new[i], new[i])
             /\ IF i \in own THEN new[i].signed = TRUE ELSE new[i].signed = acts[i].signed
  <2>1. PICK a, b : a = acts[i] /\ b = new[i]
    OBVIOUS
  <2>2. b = SignedAction(a, i, own) /\ a = Action(a, a)
    BY <1>2, <1>3, <2>1
  <2>3. CASE i \notin own
    <3>1. b = a
      BY <2>2, <2>3 DEF SignedAction
    <3> QED
      BY <2>1, <2>2, <2>3, <3>1
  <2>4. CASE i \in own
    <3>1. b = [a EXCEPT !.signed = TRUE]
      BY <2>2, <2>4 DEF SignedAction
    <3>2. PICK x1, x2, x3, x4, y1, y2, y3, y4 :
             a = [nf |-> x1, spend_value |-> x2, key |-> x3, signed |-> x4, recipient |-> y1,
                  out_value |-> y2, cmx |-> y3, enc |-> y4]
      BY <2>2, Zenon DEF Action
    <3>3. b = [nf |-> x1, spend_value |-> x2, key |-> x3, signed |-> TRUE, recipient |-> y1,
               out_value |-> y2, cmx |-> y3, enc |-> y4]
      BY <3>1, <3>2
    <3>4. /\ b.nf = a.nf /\ b.spend_value = a.spend_value /\ b.key = a.key /\ b.recipient = a.recipient
          /\ b.out_value = a.out_value /\ b.cmx = a.cmx /\ b.enc = a.enc /\ b.signed = TRUE
      BY <3>2, <3>3
    <3>5. /\ b.nf = x1 /\ b.spend_value = x2 /\ b.key = x3 /\ b.signed = TRUE
          /\ b.recipient = y1 /\ b.out_value = y2 /\ b.cmx = y3 /\ b.enc = y4
      BY <3>3
    <3>6. b = Action(b, b)
      BY <3>3, <3>5, Zenon DEF Action
    <3> QED
      BY <2>1, <2>4, <3>4, <3>6
  <2> QED
    BY <2>3, <2>4
<1>5. new = [i \in 1..n |-> new[i]]
  BY <1>3
<1>6. ASSUME NEW i \in 1..n PROVE new[i].signed = TRUE
  <2>1. CASE i \in own
    BY <1>4, <2>1
  <2>2. CASE i \notin own
    <3>1. (\A j \in 1..Len(t) : at[j] # i) /\ i \notin extra
      BY <2>2 DEF OwnSpends
    <3>2. acts[i].signed = TRUE
      BY <3>1 DEF BuiltActs
    <3> QED
      BY <1>4, <2>2, <3>2
  <2> QED
    BY <2>1, <2>2
<1>7. ASSUME NEW j \in 1..Len(t)
      PROVE  /\ new[at[j]].nf = t[j].id /\ new[at[j]].spend_value = t[j].value
             /\ new[at[j]].key = "account"
  <2>1. at[j] \in 1..n
    BY DEF OwnActions
  <2>2. /\ acts[at[j]].nf = t[j].id /\ acts[at[j]].spend_value = t[j].value
        /\ acts[at[j]].key = "account"
    BY DEF BuiltActs
  <2> QED
    BY <1>4, <2>1, <2>2
<1>8. ASSUME NEW i \in 1..n, \A j \in 1..Len(t) : at[j] # i
      PROVE  /\ new[i].spend_value = 0 /\ new[i].nf # "other"
             /\ IF i \in extra THEN new[i].key = "account" ELSE new[i].signed = TRUE
  <2>1. /\ acts[i].spend_value = 0 /\ acts[i].nf # "other"
        /\ i \in extra => acts[i].key = "account"
    BY <1>8 DEF BuiltActs
  <2> QED
    BY <1>4, <1>6, <2>1
<1>9. ASSUME NEW i \in 1..n
      PROVE  IF i \in here THEN /\ new[i].recipient = "change" /\ new[i].out_value = change
                                /\ new[i].cmx = <<"change", change>> /\ new[i].enc = <<"change", change>>
             ELSE new[i].out_value = 0
  <2>1. IF i \in here THEN /\ acts[i].recipient = "change" /\ acts[i].out_value = change
                           /\ acts[i].cmx = <<"change", change>> /\ acts[i].enc = <<"change", change>>
        ELSE acts[i].out_value = 0
    BY DEF BuiltActs
  <2> QED
    BY <1>4, <2>1
<1>10. BuiltActs(new, n, t, at, here, change, extra)
  BY <1>4, <1>5, <1>7, <1>8, <1>9, Zenon DEF BuiltActs
<1> QED
  BY <1>1, <1>6, <1>10

LEMMA MapIs ==
  ASSUME NEW n \in Nat, NEW acts, acts = [i \in 1..n |-> acts[i]]
  PROVE  /\ Map(LAMBDA a : a.spend_value, acts) = [i \in 1..n |-> acts[i].spend_value]
         /\ Map(LAMBDA a : a.out_value, acts) = [i \in 1..n |-> acts[i].out_value]
         /\ Map(LAMBDA a : a.nf, acts) = [i \in 1..n |-> acts[i].nf]
         /\ Map(LAMBDA a : a.cmx, acts) = [i \in 1..n |-> acts[i].cmx]
<1>1. Len(acts) = n
  BY Listed
<1>2. ASSUME NEW u, u = [i \in 1..n |-> u[i]] PROVE <<>> \o u = u
  BY <1>2, Listed
<1>3. PICK u, v, w, z : /\ u = [i \in 1..n |-> acts[i].spend_value] /\ v = [i \in 1..n |-> acts[i].out_value]
                        /\ w = [i \in 1..n |-> acts[i].nf] /\ z = [i \in 1..n |-> acts[i].cmx]
  OBVIOUS
<1>4. <<>> \o u = u /\ <<>> \o v = v /\ <<>> \o w = w /\ <<>> \o z = z
  BY <1>2, <1>3
<1>5. /\ Map(LAMBDA a : a.spend_value, acts) = <<>> \o u
      /\ Map(LAMBDA a : a.out_value, acts) = <<>> \o v
      /\ Map(LAMBDA a : a.nf, acts) = <<>> \o w
      /\ Map(LAMBDA a : a.cmx, acts) = <<>> \o z
  BY <1>1, <1>3, Zenon DEF Map
<1> QED
  BY <1>3, <1>4, <1>5

\* The value balance of the actions the builder made.
LEMMA BuiltSums ==
  ASSUME NEW n \in Nat, NEW S, NEW t \in Seq(S), Notes(S), NEW at, NEW here, NEW change \in Int,
         NEW extra, NEW acts, BuiltActs(acts, n, t, at, here, change, extra), OwnActions(at, t, n),
         here = {} \/ \E k \in 1..n : here = {k}
  PROVE  /\ SpendSum(acts) = Values(t)
         /\ OutSum(acts) = IF here = {} THEN 0 ELSE change
<1>1. acts = [i \in 1..n |-> acts[i]]
  BY DEF BuiltActs
<1>2. PICK u, v : u = [i \in 1..n |-> acts[i].spend_value] /\ v = [i \in 1..n |-> acts[i].out_value]
  OBVIOUS
<1>3. SpendSum(acts) = Sum(u) /\ OutSum(acts) = Sum(v)
  BY <1>1, <1>2, MapIs DEF SpendSum, OutSum
<1>4. PICK k \in Nat : k = Len(t)
  OBVIOUS
<1>5. PICK g : ValueList(g, t) /\ Values(t) = Sum(g)
  BY ValuesIs
<1>6. Len(u) = n /\ Len(v) = n
  BY <1>2, Listed
<1>7. Sum(u) = Sum(g)
  <2>1. \A j \in 1..k : at[j] \in 1..n /\ u[at[j]] = g[j] /\ g[j] \in Int
    BY <1>2, <1>4, <1>5 DEF BuiltActs, OwnActions, ValueList, AllInt
  <2>2. \A i \in 1..n : (\A j \in 1..k : at[j] # i) => u[i] = 0
    BY <1>2, <1>4 DEF BuiltActs
  <2>3. \A i \in 1..n : u[i] \in Int
    BY <2>1, <2>2
  <2>4. \A i, j \in 1..k : at[i] = at[j] => i = j
    BY <1>4 DEF OwnActions
  <2>5. AllInt(n, u) /\ AllInt(k, g)
    BY <1>4, <1>5, <1>6, <2>3 DEF AllInt, ValueList
  <2>6. Scattered(u, n, g, k, at)
    BY <2>1, <2>2, <2>4, <2>5 DEF Scattered
  <2> QED
    BY <2>6, SumPlaced
<1>8. Sum(v) = IF here = {} THEN 0 ELSE change
  <2>1. \A i \in 1..n : v[i] = IF i \in here THEN change ELSE 0
    BY <1>2 DEF BuiltActs
  <2>2. CASE here = {}
    <3>0. PICK z \in Int : z = 0
      OBVIOUS
    <3>1. \A i \in 1..n : v[i] \in Int /\ z <= v[i] /\ v[i] <= z
      BY <2>1, <2>2, <3>0
    <3>2. Sum(v) \in Int /\ n * z <= Sum(v) /\ Sum(v) <= n * z
      BY <1>6, <3>1, SumBounds
    <3>3. n * z = 0
      BY <3>0
    <3> QED
      BY <2>2, <3>2, <3>3
  <2>3. ASSUME NEW o \in 1..n, here = {o} PROVE Sum(v) = change
    <3>1. PICK c, pl : c = <<change>> /\ pl = <<o>>
      OBVIOUS
    <3>2. Len(c) = 1 /\ c[1] = change /\ pl[1] = o
      BY <3>1
    <3>3. Sum(c) = change
      <4>0. PICK one \in Nat : one = 1
        OBVIOUS
      <4>1. Len(c) = one /\ \A i \in 1..one : c[i] \in Int /\ change <= c[i] /\ c[i] <= change
        BY <3>2, <4>0
      <4>2. Sum(c) \in Int /\ one * change <= Sum(c) /\ Sum(c) <= one * change
        BY <4>1, SumBounds
      <4>3. one * change = change
        BY <4>0
      <4> QED
        BY <4>2, <4>3
    <3>4. AllInt(n, v) /\ AllInt(1, c)
      BY <1>6, <2>1, <3>2 DEF AllInt
    <3>5. Scattered(v, n, c, 1, pl)
      BY <2>1, <2>3, <3>2, <3>4 DEF Scattered
    <3>6. Sum(v) = Sum(c)
      BY <3>5, SumPlaced
    <3> QED
      BY <3>3, <3>6
  <2> QED
    BY <2>2, <2>3
<1> QED
  BY <1>3, <1>5, <1>7, <1>8

\* The rest of what is expected of a bundle.
AsExpected(b, pool, exp, n, here, change) ==
  /\ \A i \in 1..n : i \in here <=> IsChange(exp, pool, i)
  /\ exp.change.to = "change" /\ exp.change.value = change
  /\ b.pool = pool /\ b.anchor = exp.anchor[pool]
  /\ n > 0 => exp.anchor[pool] # NoAnchor
  /\ b.sum = exp.net[pool]

\* What verify_pool_bundle asks of a bundle is what the builder made.
LEMMA BuiltVerifies ==
  ASSUME NEW n \in Nat, NEW S, NEW t \in Seq(S), Notes(S), NEW at, NEW here, NEW change,
         NEW extra, NEW b, BuiltActs(b.actions, n, t, at, here, change, extra), OwnActions(at, t, n),
         NEW pool, NEW exp, Expects(exp, pool, at, t, n), AsExpected(b, pool, exp, n, here, change)
  PROVE  verify_pool_bundle(b, pool, exp)
<1>1. PICK acts : acts = b.actions
  OBVIOUS
<1>2. BuiltActs(acts, n, t, at, here, change, extra) /\ acts = [i \in 1..n |-> acts[i]]
  BY <1>1 DEF BuiltActs
<1>3. Len(acts) = n /\ DOMAIN acts = 1..n
  BY <1>2, Listed
<1>4. exp.actions[pool] = n
  BY DEF Expects
<1>5. ASSUME NEW i \in 1..n PROVE verify_spend(acts[i], exp, pool, i)
  <2>1. PICK P, a : P = PlannedSpend(exp, pool, i) /\ a = acts[i]
    OBVIOUS
  <2>2. P = {s \in {[index |-> at[j], nf |-> t[j].id, value |-> t[j].value] : j \in 1..Len(t)} : s.index = i}
    BY <2>1, Zenon DEF PlannedSpend, Expects
  <2>3. CASE \A j \in 1..Len(t) : at[j] # i
    <3>1. P = {}
      BY <2>2, <2>3
    <3>2. a.spend_value = 0
      BY <1>2, <2>1, <2>3 DEF BuiltActs
    <3> QED
      BY <2>1, <3>1, <3>2 DEF verify_spend
  <2>4. ASSUME NEW j \in 1..Len(t), at[j] = i PROVE verify_spend(acts[i], exp, pool, i)
    <3>1. PICK s : s = [index |-> at[j], nf |-> t[j].id, value |-> t[j].value]
      OBVIOUS
    <3>2. s \in P /\ s.nf = t[j].id /\ s.value = t[j].value
      BY <2>2, <2>4, <3>1
    <3>3. a.nf = t[j].id /\ a.spend_value = t[j].value
      BY <1>2, <2>1, <2>4 DEF BuiltActs
    <3> QED
      BY <2>1, <3>2, <3>3 DEF verify_spend
  <2> QED
    BY <2>3, <2>4
<1>6. ASSUME NEW i \in 1..n
      PROVE  IF IsChange(exp, pool, i) THEN verify_change(acts[i], exp) ELSE acts[i].out_value = 0
  <2>1. CASE i \in here
    <3>1. /\ acts[i].recipient = "change" /\ acts[i].out_value = change
          /\ acts[i].cmx = <<"change", change>> /\ acts[i].enc = <<"change", change>>
      BY <1>2, <2>1 DEF BuiltActs
    <3> QED
      BY <2>1, <3>1 DEF verify_change, AsExpected
  <2>2. CASE i \notin here
    BY <1>2, <2>2 DEF BuiltActs, AsExpected
  <2> QED
    BY <2>1, <2>2
<1>7. Len(b.actions) = n /\ DOMAIN b.actions = 1..n
  BY <1>1, <1>3
<1> QED
  BY <1>1, <1>4, <1>5, <1>6, <1>7 DEF verify_pool_bundle, AsExpected

\* A PCZT the way the builder made it, signed or not.
CleanBundle(b, f, sel, m, pool, change) ==
  /\ BuiltActs(b.actions, ActionCount(f, sel, pool), InPool(sel, pool), m[pool],
               ChangeAt(f, m, pool), change, ExtraAt(f, m, pool))
  /\ b.pool = pool /\ b.anchor = f.anchor[pool]
  /\ b.sum = Values(InPool(sel, pool)) - (IF pool = change_pool(f) THEN change ELSE 0)

CleanPczt(p, f, sel, m, change) ==
  /\ IsPczt(p)
  /\ p.expiry = "planned" /\ p.branch = f.branch /\ p.vin = 0 /\ p.vout = transparent_outputs(f)
  /\ \A pool \in ValuePool : CleanBundle(p[pool], f, sel, m, pool, change)

AllSigned(p) == \A pool \in ValuePool : \A i \in DOMAIN p[pool].actions : p[pool].actions[i].signed = TRUE

\* A selection with its metadata, in one pool.
LEMMA PoolPlan ==
  ASSUME NEW f \in Funding, NEW sel, NEW fee, NEW m, MadeOf(f, sel, fee, m), NEW pool \in ValuePool
  PROVE  /\ ActionCount(f, sel, pool) \in Nat
         /\ InPool(sel, pool) \in Seq(Range(f.notes)) /\ Notes(Range(f.notes))
         /\ OwnActions(m[pool], InPool(sel, pool), ActionCount(f, sel, pool))
         /\ DOMAIN m[pool] = 1..Len(InPool(sel, pool))
         /\ ChangeAt(f, m, pool) = {} \/ \E k \in 1..ActionCount(f, sel, pool) : ChangeAt(f, m, pool) = {k}
         /\ ChangeAt(f, m, pool) = {} <=> pool # change_pool(f)
         /\ ChangeFor(f, sel, fee) \in Nat \ {0}
         /\ sel \in Seq(Range(f.notes)) /\ m \in Metadata(f, sel)
<1>1. Selected(f, sel, fee) /\ m \in Metadata(f, sel)
  BY DEF MadeOf
<1>2. sel \in Seq(Range(f.notes)) /\ Notes(Range(f.notes))
  BY <1>1, FundingNotes DEF Selected
<1>3. ActionCount(f, sel, pool) \in Nat /\ InPool(sel, pool) \in Seq(Range(f.notes))
  BY <1>2, ActionCounts
<1>4. /\ OwnActions(m[pool], InPool(sel, pool), ActionCount(f, sel, pool))
      /\ DOMAIN m[pool] = 1..Len(InPool(sel, pool))
      /\ m.out \in 1..ActionCount(f, sel, change_pool(f))
  BY <1>1, <1>2, MetadataIs
<1>5. /\ ChangeAt(f, m, pool) = {} \/ \E k \in 1..ActionCount(f, sel, pool) : ChangeAt(f, m, pool) = {k}
      /\ ChangeAt(f, m, pool) = {} <=> pool # change_pool(f)
  <2>1. CASE pool = change_pool(f)
    BY <1>4, <2>1 DEF ChangeAt
  <2>2. CASE pool # change_pool(f)
    BY <2>2 DEF ChangeAt
  <2> QED
    BY <2>1, <2>2
<1>6. ChangeFor(f, sel, fee) \in Nat \ {0}
  BY <1>1, ChangeLeft DEF ChangeFor
<1> QED
  BY <1>1, <1>2, <1>3, <1>4, <1>5, <1>6

LEMMA BundleSums ==
  ASSUME NEW f \in Funding, NEW sel, NEW fee, NEW m, MadeOf(f, sel, fee, m), NEW pool \in ValuePool,
         NEW acts, BuiltActs(acts, ActionCount(f, sel, pool), InPool(sel, pool), m[pool],
                             ChangeAt(f, m, pool), ChangeFor(f, sel, fee), ExtraAt(f, m, pool))
  PROVE  SpendSum(acts) - OutSum(acts)
           = Values(InPool(sel, pool)) - (IF pool = change_pool(f) THEN ChangeFor(f, sel, fee) ELSE 0)
<1>1. PICK n, t, at, here, change, extra :
         /\ n = ActionCount(f, sel, pool) /\ t = InPool(sel, pool) /\ at = m[pool]
         /\ here = ChangeAt(f, m, pool) /\ extra = ExtraAt(f, m, pool) /\ change = ChangeFor(f, sel, fee)
  OBVIOUS
<1>2. /\ n \in Nat /\ t \in Seq(Range(f.notes)) /\ Notes(Range(f.notes)) /\ OwnActions(at, t, n)
      /\ here = {} \/ \E k \in 1..n : here = {k}
      /\ here = {} <=> pool # change_pool(f)
      /\ change \in Int
  BY <1>1, PoolPlan
<1>3. BuiltActs(acts, n, t, at, here, change, extra)
  BY <1>1
<1>4. SpendSum(acts) = Values(t) /\ OutSum(acts) = IF here = {} THEN 0 ELSE change
  BY <1>2, <1>3, BuiltSums
<1> QED
  BY <1>1, <1>2, <1>4

LEMMA BuiltIsClean ==
  ASSUME NEW f \in Funding, NEW sel, NEW fee, NEW m, MadeOf(f, sel, fee, m)
  PROVE  CleanPczt(assemble_and_build(f, sel, m, ChangeFor(f, sel, fee)), f, sel, m, ChangeFor(f, sel, fee))
<1>1. PICK change, p : change = ChangeFor(f, sel, fee) /\ p = assemble_and_build(f, sel, m, change)
  OBVIOUS
<1>2. sel \in Seq(Range(f.notes)) /\ m \in Metadata(f, sel)
  BY PoolPlan DEF ValuePool
<1>3. IsPczt(p)
  BY <1>1, <1>2, BuiltShape
<1>4. PICK v, o, i : /\ v = transparent_outputs(f) /\ o = BuiltBundle(f, sel, m, "orchard", change)
                     /\ i = BuiltBundle(f, sel, m, "ironwood", change)
  OBVIOUS
<1>5. p = Pczt("planned", f.branch, 0, v, o, i)
  BY <1>1, <1>4, BuiltPczt
<1>6. p.expiry = "planned" /\ p.branch = f.branch /\ p.vin = 0 /\ p.vout = v /\ p.orchard = o /\ p.ironwood = i
  BY <1>5 DEF Pczt
<1>7. ASSUME NEW pool \in ValuePool PROVE CleanBundle(p[pool], f, sel, m, pool, change)
  <2>1. p[pool] = BuiltBundle(f, sel, m, pool, change)
    <3>1. p["orchard"] = o /\ p["ironwood"] = i
      BY <1>6
    <3> QED
      BY <1>4, <3>1 DEF ValuePool
  <2>2. PICK b, a, acts, s : /\ b = p[pool] /\ a = f.anchor[pool]
                          /\ acts = build_actions(f, sel, m, pool, change)
                          /\ s = SpendSum(build_actions(f, sel, m, pool, change))
                                   - OutSum(build_actions(f, sel, m, pool, change))
    OBVIOUS
  <2>3. b = [pool |-> pool, anchor |-> a, actions |-> acts, sum |-> s]
    BY <2>1, <2>2 DEF BuiltBundle
  <2>4. b.pool = pool /\ b.anchor = a /\ b.actions = acts /\ b.sum = s
    BY <2>3
  <2>5. BuiltActs(acts, ActionCount(f, sel, pool), InPool(sel, pool), m[pool],
                  ChangeAt(f, m, pool), change, ExtraAt(f, m, pool))
    BY <1>2, <2>2, BuiltAre
  <2>6. s = Values(InPool(sel, pool)) - (IF pool = change_pool(f) THEN change ELSE 0)
    BY <1>1, <2>2, <2>5, BundleSums
  <2>7. CleanBundle(b, f, sel, m, pool, change)
    BY <2>2, <2>4, <2>5, <2>6 DEF CleanBundle
  <2> QED
    BY <2>2, <2>7
<1>8. CleanPczt(p, f, sel, m, change)
  BY <1>3, <1>4, <1>6, <1>7 DEF CleanPczt
<1> QED
  BY <1>1, <1>8

\* The actions the plan names for signing.
LEMMA ToSign ==
  ASSUME NEW f \in Funding, NEW sel, NEW fee, NEW m, MadeOf(f, sel, fee, m), NEW pool \in ValuePool
  PROVE  signing_plans(f, sel, m)[pool]
           = {m[pool][j] : j \in 1..Len(InPool(sel, pool))} \cup ExtraAt(f, m, pool)
<1>1. DOMAIN m[pool] = 1..Len(InPool(sel, pool))
  BY PoolPlan
<1>2. signing_plans(f, sel, m)[pool]
        = {m[pool][j] : j \in DOMAIN m[pool]}
            \cup (IF pool = "orchard" /\ change_pool(f) = "orchard" THEN {m.out} ELSE {})
  BY DEF signing_plans
<1> QED
  BY <1>1, <1>2 DEF ExtraAt

LEMMA SignedBundle ==
  ASSUME NEW f \in Funding, NEW sel, NEW fee, NEW m, MadeOf(f, sel, fee, m), NEW pool \in ValuePool,
         NEW b, CleanBundle(b, f, sel, m, pool, ChangeFor(f, sel, fee)),
         NEW c, c = WithActs(b, SignedActions(b.actions, signing_plans(f, sel, m)[pool]))
  PROVE  /\ CleanBundle(c, f, sel, m, pool, ChangeFor(f, sel, fee))
         /\ \A i \in DOMAIN c.actions : c.actions[i].signed = TRUE
<1>1. PICK n, t, at, here, change, extra, own :
         /\ n = ActionCount(f, sel, pool) /\ t = InPool(sel, pool) /\ at = m[pool]
         /\ here = ChangeAt(f, m, pool) /\ extra = ExtraAt(f, m, pool) /\ change = ChangeFor(f, sel, fee)
         /\ own = signing_plans(f, sel, m)[pool]
  OBVIOUS
<1>2. n \in Nat /\ t \in Seq(Range(f.notes)) /\ OwnActions(at, t, n)
  BY <1>1, PoolPlan
<1>3. OwnSpends(own, at, t, extra)
  <2>1. own = {at[j] : j \in 1..Len(t)} \cup extra
    BY <1>1, ToSign
  <2> QED
    BY <2>1 DEF OwnSpends
<1>4. PICK acts, new : acts = b.actions /\ new = SignedActions(acts, own)
  OBVIOUS
<1>5. BuiltActs(acts, n, t, at, here, change, extra)
  BY <1>1, <1>4 DEF CleanBundle
<1>6. BuiltActs(new, n, t, at, here, change, extra) /\ \A i \in 1..n : new[i].signed = TRUE
  <2>1. PICK S : t \in Seq(S)
    BY <1>2
  <2>2. /\ BuiltActs(SignedActions(acts, own), n, t, at, here, change, extra)
        /\ \A i \in 1..n : SignedActions(acts, own)[i].signed = TRUE
    BY <1>2, <1>3, <1>5, <2>1, SigningKeeps
  <2> QED
    BY <1>4, <2>2
<1>7. DOMAIN new = 1..n
  <2>1. new = [i \in 1..n |-> new[i]]
    BY <1>6 DEF BuiltActs
  <2> QED
    BY <1>2, <2>1, Listed
<1>8. PICK x, y, z : x = b.pool /\ y = b.anchor /\ z = b.sum
  OBVIOUS
<1>9. c = [pool |-> x, anchor |-> y, actions |-> new, sum |-> z]
  BY <1>1, <1>4, <1>8 DEF WithActs
<1>10. c.pool = b.pool /\ c.anchor = b.anchor /\ c.actions = new /\ c.sum = b.sum
  BY <1>8, <1>9
<1> QED
  BY <1>1, <1>6, <1>7, <1>10 DEF CleanBundle

LEMMA SignedIsClean ==
  ASSUME NEW f \in Funding, NEW sel, NEW fee, NEW m, MadeOf(f, sel, fee, m),
         NEW p, CleanPczt(p, f, sel, m, ChangeFor(f, sel, fee))
  PROVE  /\ CleanPczt(SignedPczt(p, signing_plans(f, sel, m)), f, sel, m, ChangeFor(f, sel, fee))
         /\ AllSigned(SignedPczt(p, signing_plans(f, sel, m)))
<1>1. PICK e, br, vi, vo, o, i : p = Pczt(e, br, vi, vo, o, i) /\ IsBundle(o) /\ IsBundle(i)
  BY PcztIs DEF CleanPczt
<1>2. p.expiry = e /\ p.branch = br /\ p.vin = vi /\ p.vout = vo /\ p.orchard = o /\ p.ironwood = i
  BY <1>1 DEF Pczt
<1>3. PICK own, change : own = signing_plans(f, sel, m) /\ change = ChangeFor(f, sel, fee)
  OBVIOUS
<1>4. PICK c, d, q : /\ c = WithActs(o, SignedActions(o.actions, own["orchard"]))
                     /\ d = WithActs(i, SignedActions(i.actions, own["ironwood"]))
                     /\ q = SignedPczt(p, own)
  OBVIOUS
<1>5. q = Pczt(e, br, vi, vo, c, d)
  <2>1. PICK A, B : A = SignedActions(o.actions, own["orchard"]) /\ B = SignedActions(i.actions, own["ironwood"])
    OBVIOUS
  <2>2. q = PcztWith(p, A, B)
    BY <1>2, <1>4, <2>1 DEF SignedPczt
  <2>3. PcztWith(p, A, B) = Pczt(e, br, vi, vo, WithActs(o, A), WithActs(i, B))
    BY <1>1, SignedIs
  <2> QED
    BY <1>4, <2>1, <2>2, <2>3
<1>6. q.expiry = e /\ q.branch = br /\ q.vin = vi /\ q.vout = vo /\ q.orchard = c /\ q.ironwood = d
  BY <1>5 DEF Pczt
<1>7. q["orchard"] = c /\ q["ironwood"] = d /\ p["orchard"] = o /\ p["ironwood"] = i
  BY <1>2, <1>6
<1>8. CleanBundle(o, f, sel, m, "orchard", change) /\ CleanBundle(i, f, sel, m, "ironwood", change)
  BY <1>3, <1>7 DEF CleanPczt, ValuePool
<1>9. "orchard" \in ValuePool /\ "ironwood" \in ValuePool
  BY DEF ValuePool
<1>10. /\ CleanBundle(c, f, sel, m, "orchard", change) /\ \A k \in DOMAIN c.actions : c.actions[k].signed = TRUE
  BY <1>3, <1>4, <1>8, <1>9, SignedBundle
<1>11. /\ CleanBundle(d, f, sel, m, "ironwood", change) /\ \A k \in DOMAIN d.actions : d.actions[k].signed = TRUE
  BY <1>3, <1>4, <1>8, <1>9, SignedBundle
<1>12. IsPczt(q)
  BY <1>4, SignedShape DEF CleanPczt
<1>13. \A pool \in ValuePool : CleanBundle(q[pool], f, sel, m, pool, change)
  BY <1>7, <1>10, <1>11 DEF ValuePool
<1>14. CleanPczt(q, f, sel, m, change)
  BY <1>2, <1>6, <1>12, <1>13 DEF CleanPczt
<1>15. AllSigned(q)
  BY <1>7, <1>10, <1>11 DEF AllSigned, ValuePool
<1> QED
  BY <1>3, <1>4, <1>14, <1>15

\* What the transparent outputs pay is what the carriers hold.
LEMMA OutputsPay ==
  ASSUME NEW f \in Funding
  PROVE  Sum(Map(LAMBDA o : o.value, transparent_outputs(f))) = carrier_total(f)
<1>1. PICK v : v = transparent_outputs(f)
  OBVIOUS
<1> SUFFICES Sum(Map(LAMBDA o : o.value, v)) = carrier_total(f)
  BY <1>1, Zenon
<1>2. CASE f.kind = "call"
  <2>1. f.carriers = <<>>
    BY <1>2, FundingAssumption
  <2>2. PICK z \in Int : z = 0
    OBVIOUS
  <2>3. carrier_total(f) = 0
    <3>1. PICK n \in Nat : n = 0
      OBVIOUS
    <3>2. Len(f.carriers) = n /\ \A i \in 1..n : f.carriers[i] \in Int /\ z <= f.carriers[i] /\ f.carriers[i] <= z
      BY <2>1, <3>1
    <3>3. Sum(f.carriers) \in Int /\ n * z <= Sum(f.carriers) /\ Sum(f.carriers) <= n * z
      BY <3>2, SumBounds
    <3>4. n * z = 0
      BY <2>2, <3>1
    <3> QED
      BY <3>3, <3>4 DEF carrier_total
  <2>4. v = <<[value |-> 0, script |-> "message"]>>
    BY <1>1, <1>2 DEF transparent_outputs
  <2>5. PICK n \in Nat : n = 1
    OBVIOUS
  <2>6. v = [i \in 1..n |-> v[i]] /\ v[1].value = 0
    BY <2>4, <2>5
  <2>7. PICK u : u = [i \in 1..n |-> v[i].value]
    OBVIOUS
  <2>8. Map(LAMBDA o : o.value, v) = <<>> \o u
    <3>1. Len(v) = n
      BY <2>6, Listed
    <3> QED
      BY <2>7, <3>1, Zenon DEF Map
  <2>9. Len(u) = n /\ <<>> \o u = u
    BY <2>7, Listed
  <2>10. \A i \in 1..n : u[i] \in Int /\ z <= u[i] /\ u[i] <= z
    BY <2>2, <2>5, <2>6, <2>7
  <2>11. Sum(u) \in Int /\ n * z <= Sum(u) /\ Sum(u) <= n * z
    BY <2>9, <2>10, SumBounds
  <2>12. n * z = 0
    BY <2>2, <2>5
  <2>13. Sum(u) = 0
    BY <2>11, <2>12
  <2>14. Sum(Map(LAMBDA o : o.value, v)) = Sum(u)
    BY <2>8, <2>9, Zenon
  <2> QED
    BY <2>3, <2>13, <2>14, Zenon
<1>3. CASE f.kind # "call"
  <2>0. PICK c : c = f.carriers /\ c \in Seq(Nat)
    BY FundingNotes
  <2>1. PICK n \in Nat : c = f.carriers /\ n = Len(c) /\ c \in Seq(Nat)
    BY <2>0
  <2>2. PICK r : r = [i \in 1..n |-> [value |-> c[i], script |-> "carrier"]]
    OBVIOUS
  <2>3. v = <<>> \o r
    BY <1>1, <1>3, <2>1, <2>2, Zenon DEF transparent_outputs, Map
  <2>4. <<>> \o r = r /\ Len(r) = n
    BY <2>2, Listed
  <2>5. v = r
    BY <2>3, <2>4
  <2>6. PICK u : u = [i \in 1..n |-> v[i].value]
    OBVIOUS
  <2>7. Map(LAMBDA o : o.value, v) = <<>> \o u
    BY <2>4, <2>5, <2>6, Zenon DEF Map
  <2>8. <<>> \o u = u
    BY <2>6, Listed
  <2>9. u = c
    <3>1. \A i \in 1..n : u[i] = c[i]
      BY <2>2, <2>5, <2>6
    <3>2. c = [i \in 1..n |-> c[i]]
      BY <2>1
    <3> QED
      BY <2>6, <3>1, <3>2
  <2> QED
    BY <2>1, <2>7, <2>8, <2>9, Zenon DEF carrier_total
<1> QED
  BY <1>2, <1>3

\* What the plan expects of a pool.
LEMMA PlanExpects ==
  ASSUME NEW f \in Funding, NEW sel, NEW fee, NEW m, MadeOf(f, sel, fee, m), NEW pool \in ValuePool,
         NEW exp, exp = build_expectations(f, sel, m, ChangeFor(f, sel, fee))
  PROVE  /\ Expects(exp, pool, m[pool], InPool(sel, pool), ActionCount(f, sel, pool))
         /\ exp.change.pool = change_pool(f) /\ exp.change.index = m.out
         /\ exp.change.value = ChangeFor(f, sel, fee) /\ exp.change.to = "change"
         /\ \A i : i \in ChangeAt(f, m, pool) <=> IsChange(exp, pool, i)
         /\ exp.anchor[pool] = f.anchor[pool]
         /\ ActionCount(f, sel, pool) > 0 => exp.anchor[pool] # NoAnchor
         /\ exp.net[pool] = Values(InPool(sel, pool))
                              - (IF pool = change_pool(f) THEN ChangeFor(f, sel, fee) ELSE 0)
         /\ m.out \in 1..ActionCount(f, sel, change_pool(f)) /\ change_pool(f) \in ValuePool
<1>1. sel \in Seq(Range(f.notes)) /\ m \in Metadata(f, sel)
  BY PoolPlan
<1>2. PICK change, home, out : change = ChangeFor(f, sel, fee) /\ home = change_pool(f) /\ out = m.out
  OBVIOUS
<1>3. /\ Expects(exp, pool, m[pool], InPool(sel, pool), ActionCount(f, sel, pool))
      /\ exp.change = [pool |-> home, index |-> out, value |-> change, to |-> "change"]
      /\ exp.anchor = f.anchor
      /\ exp.net[pool] = Values(InPool(sel, pool)) - (IF pool = home THEN change ELSE 0)
  BY <1>1, <1>2, ExpectationsAre
<1>4. exp.change.pool = home /\ exp.change.index = out /\ exp.change.value = change /\ exp.change.to = "change"
  BY <1>3
<1>5. \A i : i \in ChangeAt(f, m, pool) <=> IsChange(exp, pool, i)
  BY <1>2, <1>4 DEF ChangeAt, IsChange
<1>6. ActionCount(f, sel, pool) > 0 => exp.anchor[pool] # NoAnchor
  BY <1>3 DEF MadeOf, AnchorsKnown
<1>7. m.out \in 1..ActionCount(f, sel, change_pool(f))
  BY <1>1, MetadataIs
<1>8. change_pool(f) \in ValuePool
  BY DEF change_pool, ValuePool
<1> QED
  BY <1>2, <1>3, <1>4, <1>5, <1>6, <1>7, <1>8

LEMMA CleanBundleVerifies ==
  ASSUME NEW f \in Funding, NEW sel, NEW fee, NEW m, MadeOf(f, sel, fee, m), NEW pool \in ValuePool,
         NEW exp, exp = build_expectations(f, sel, m, ChangeFor(f, sel, fee)),
         NEW b, CleanBundle(b, f, sel, m, pool, ChangeFor(f, sel, fee))
  PROVE  verify_pool_bundle(b, pool, exp)
<1>1. PICK n, t, at, here, change, extra, S :
         /\ n = ActionCount(f, sel, pool) /\ t = InPool(sel, pool) /\ at = m[pool]
         /\ here = ChangeAt(f, m, pool) /\ extra = ExtraAt(f, m, pool) /\ change = ChangeFor(f, sel, fee)
         /\ S = Range(f.notes)
  OBVIOUS
<1>2. n \in Nat /\ t \in Seq(S) /\ Notes(S) /\ OwnActions(at, t, n)
  BY <1>1, PoolPlan
<1>3. /\ BuiltActs(b.actions, n, t, at, here, change, extra) /\ b.pool = pool /\ b.anchor = f.anchor[pool]
      /\ b.sum = Values(t) - (IF pool = change_pool(f) THEN change ELSE 0)
  BY <1>1 DEF CleanBundle
<1>4. Expects(exp, pool, at, t, n) /\ exp.change.to = "change" /\ exp.change.value = change
  BY <1>1, PlanExpects
<1>5. \A i \in 1..n : i \in here <=> IsChange(exp, pool, i)
  BY <1>1, PlanExpects
<1>6. /\ b.anchor = exp.anchor[pool]
      /\ n > 0 => exp.anchor[pool] # NoAnchor
      /\ b.sum = exp.net[pool]
  BY <1>1, <1>3, PlanExpects
<1> QED
  <2>1. AsExpected(b, pool, exp, n, here, change)
    BY <1>3, <1>4, <1>5, <1>6 DEF AsExpected
  <2>2. BuiltActs(b.actions, n, t, at, here, change, extra) /\ Expects(exp, pool, at, t, n)
    BY <1>3, <1>4
  <2> QED
    BY <1>2, <2>1, <2>2, BuiltVerifies

LEMMA CleanVerifies ==
  ASSUME NEW f, f = fund, f \in Funding, NEW sel, NEW fee, NEW m, PlannedAs(f, splan, sel, fee, m),
         NEW p, CleanPczt(p, f, sel, m, ChangeFor(f, sel, fee))
  PROVE  verify_finalized_pczt(p)
<1>1. PlanFields(splan, f, sel, fee, m) /\ MadeOf(f, sel, fee, m)
  BY PlanHas
<1>2. PICK exp : exp = splan.expected
  OBVIOUS
<1>3. exp = build_expectations(f, sel, m, ChangeFor(f, sel, fee))
  BY <1>1, <1>2 DEF PlanFields
<1>4. \A pool \in ValuePool : verify_pool_bundle(p[pool], pool, exp)
  <2>1. TAKE pool \in ValuePool
  <2>2. CleanBundle(p[pool], f, sel, m, pool, ChangeFor(f, sel, fee))
    BY DEF CleanPczt
  <2> QED
    BY <1>1, <1>3, <2>2, CleanBundleVerifies
<1>5. exp.actions[exp.change.pool] > 0
  <2>1. PICK home : home = change_pool(f)
    OBVIOUS
  <2>2. exp.change.pool = home /\ home \in ValuePool /\ m.out \in 1..ActionCount(f, sel, home)
    BY <1>1, <1>3, <2>1, PlanExpects DEF ValuePool
  <2>3. exp.actions[home] = ActionCount(f, sel, home) /\ ActionCount(f, sel, home) \in Nat
    BY <1>1, <1>3, <2>2, PlanExpects, PoolPlan DEF Expects
  <2> QED
    BY <2>2, <2>3
<1>6. /\ p.expiry = splan.expiry /\ p.branch = splan.branch /\ p.vin = 0 /\ p.vout = splan.vout
  BY <1>1 DEF CleanPczt, PlanFields
<1> QED
  BY <1>2, <1>4, <1>5, <1>6 DEF verify_finalized_pczt

LEMMA CleanExtractable ==
  ASSUME NEW f \in Funding, NEW sel, NEW fee, NEW m, MadeOf(f, sel, fee, m),
         NEW p, CleanPczt(p, f, sel, m, ChangeFor(f, sel, fee)), AllSigned(p)
  PROVE  Extractable(p)
<1>1. ASSUME NEW pool \in ValuePool
      PROVE  /\ \A i \in DOMAIN p[pool].actions : p[pool].actions[i].signed
             /\ p[pool].sum = SpendSum(p[pool].actions) - OutSum(p[pool].actions)
  <2>1. PICK b : b = p[pool]
    OBVIOUS
  <2>2. CleanBundle(b, f, sel, m, pool, ChangeFor(f, sel, fee))
    BY <2>1 DEF CleanPczt
  <2>3. PICK acts : acts = b.actions
    OBVIOUS
  <2>4. SpendSum(acts) - OutSum(acts) = b.sum
    BY <2>2, <2>3, BundleSums DEF CleanBundle
  <2>5. \A i \in DOMAIN p[pool].actions : p[pool].actions[i].signed
    BY DEF AllSigned
  <2> QED
    BY <2>1, <2>3, <2>4, <2>5
<1> QED
  BY <1>1 DEF Extractable

LEMMA CleanSigns ==
  ASSUME NEW f, f = fund, f \in Funding, NEW sel, NEW fee, NEW m, PlannedAs(f, splan, sel, fee, m),
         NEW p, CleanPczt(p, f, sel, m, ChangeFor(f, sel, fee))
  PROVE  Signs(p)
<1>1. PlanFields(splan, f, sel, fee, m) /\ MadeOf(f, sel, fee, m)
  BY PlanHas
<1>2. splan.sign = signing_plans(f, sel, m)
  BY <1>1 DEF PlanFields
<1>3. ASSUME NEW pool \in ValuePool, NEW i \in splan.sign[pool]
      PROVE  /\ i \in DOMAIN p[pool].actions /\ p[pool].actions[i].key = "account"
             /\ p[pool].actions[i].nf # "other"
  <2>1. PICK n, t, at, here, change, extra, S, acts :
         /\ n = ActionCount(f, sel, pool) /\ t = InPool(sel, pool) /\ at = m[pool]
         /\ here = ChangeAt(f, m, pool) /\ extra = ExtraAt(f, m, pool) /\ change = ChangeFor(f, sel, fee)
         /\ S = Range(f.notes) /\ acts = p[pool].actions
    OBVIOUS
  <2>2. n \in Nat /\ t \in Seq(S) /\ Notes(S) /\ OwnActions(at, t, n)
    BY <1>1, <2>1, PoolPlan
  <2>3. BuiltActs(acts, n, t, at, here, change, extra)
    BY <2>1 DEF CleanPczt, CleanBundle
  <2>4. i \in {at[j] : j \in 1..Len(t)} \cup extra
    BY <1>1, <1>2, <1>3, <2>1, ToSign
  <2>5. DOMAIN acts = 1..n
    <3>1. acts = [k \in 1..n |-> acts[k]]
      BY <2>3 DEF BuiltActs
    <3> QED
      BY <2>2, <3>1, Listed
  <2>6. ASSUME NEW j \in 1..Len(t), at[j] = i
        PROVE  i \in 1..n /\ acts[i].key = "account" /\ acts[i].nf # "other"
    <3>1. acts[i].nf = t[j].id /\ acts[i].key = "account" /\ i \in 1..n
      BY <2>2, <2>3, <2>6 DEF BuiltActs, OwnActions
    <3>2. t[j].id # "other"
      BY <2>2, <2>6 DEF Notes
    <3> QED
      BY <3>1, <3>2
  <2>7. ASSUME i \in extra, \A j \in 1..Len(t) : at[j] # i
        PROVE  i \in 1..n /\ acts[i].key = "account" /\ acts[i].nf # "other"
    <3>1. i = m.out /\ pool = change_pool(f)
      BY <2>1, <2>7 DEF ExtraAt
    <3>2. i \in 1..n
      BY <1>1, <2>1, <3>1, PlanExpects
    <3> QED
      BY <2>3, <2>7, <3>2 DEF BuiltActs
  <2> QED
    BY <2>1, <2>4, <2>5, <2>6, <2>7
<1> QED
  BY <1>3 DEF Signs

LEMMA CleanFinalPool ==
  ASSUME NEW f \in Funding, NEW sel, NEW fee, NEW m, MadeOf(f, sel, fee, m), NEW pool \in ValuePool,
         NEW exp, exp = build_expectations(f, sel, m, ChangeFor(f, sel, fee)),
         NEW b, CleanBundle(b, f, sel, m, pool, ChangeFor(f, sel, fee)),
         NEW cmx, pool = change_pool(f) => cmx = b.actions[m.out].cmx
  PROVE  verify_final_pool(FinalBundle(b), pool, exp, cmx)
<1>1. PICK n, t, at, here, change, extra, S, acts :
         /\ n = ActionCount(f, sel, pool) /\ t = InPool(sel, pool) /\ at = m[pool]
         /\ here = ChangeAt(f, m, pool) /\ extra = ExtraAt(f, m, pool) /\ change = ChangeFor(f, sel, fee)
         /\ S = Range(f.notes) /\ acts = b.actions
  OBVIOUS
<1>2. n \in Nat /\ t \in Seq(S) /\ OwnActions(at, t, n)
  BY <1>1, PoolPlan
<1>3. /\ BuiltActs(acts, n, t, at, here, change, extra) /\ b.anchor = f.anchor[pool]
      /\ b.sum = Values(t) - (IF pool = change_pool(f) THEN change ELSE 0)
  BY <1>1 DEF CleanBundle
<1>4. acts = [i \in 1..n |-> acts[i]]
  BY <1>3 DEF BuiltActs
<1>5. PICK c, w, z : c = FinalBundle(b) /\ w = [i \in 1..n |-> acts[i].nf] /\ z = [i \in 1..n |-> acts[i].cmx]
  OBVIOUS
<1>6. /\ Map(LAMBDA a : a.nf, acts) = w /\ Map(LAMBDA a : a.cmx, acts) = z
  BY <1>2, <1>4, <1>5, MapIs
<1>7. PICK an, su : an = b.anchor /\ su = b.sum
  OBVIOUS
<1>8. c = [anchor |-> an, balance |-> su, nfs |-> w, cmxs |-> z]
  BY <1>1, <1>5, <1>6, <1>7, Zenon DEF FinalBundle
<1>9. c.anchor = an /\ c.balance = su /\ c.nfs = w /\ c.cmxs = z
  BY <1>8
<1>10. Len(w) = n
  BY <1>2, <1>5, Listed
<1>11. /\ Expects(exp, pool, at, t, n) /\ exp.change.pool = change_pool(f) /\ exp.change.index = m.out
       /\ exp.anchor[pool] = f.anchor[pool]
       /\ exp.net[pool] = Values(t) - (IF pool = change_pool(f) THEN change ELSE 0)
       /\ m.out \in 1..ActionCount(f, sel, change_pool(f))
  BY <1>1, PlanExpects
<1>12. n > 0 => exp.anchor[pool] # NoAnchor
  BY <1>1, PlanExpects
<1>13. \A s \in exp.spends[pool] : w[s.index] = s.nf
  <2>1. ASSUME NEW s \in exp.spends[pool] PROVE w[s.index] = s.nf
    <3>1. PICK j \in 1..Len(t) : s = [index |-> at[j], nf |-> t[j].id, value |-> t[j].value]
      BY <1>11, <2>1 DEF Expects
    <3>2. s.index = at[j] /\ s.nf = t[j].id
      BY <3>1
    <3>3. at[j] \in 1..n /\ acts[at[j]].nf = t[j].id
      BY <1>2, <1>3 DEF BuiltActs, OwnActions
    <3> QED
      BY <1>5, <3>2, <3>3
  <2> QED
    BY <2>1
<1>14. exp.change.pool = pool => z[exp.change.index] = cmx
  BY <1>1, <1>5, <1>11
<1>15. exp.actions[pool] = n
  BY <1>11 DEF Expects
<1>16. verify_final_pool(c, pool, exp, cmx)
  BY <1>3, <1>7, <1>9, <1>10, <1>11, <1>12, <1>13, <1>14, <1>15 DEF verify_final_pool
<1> QED
  BY <1>5, <1>16

LEMMA CleanTx ==
  ASSUME NEW f, f = fund, f \in Funding, NEW sel, NEW fee, NEW m, PlannedAs(f, splan, sel, fee, m),
         NEW p, CleanPczt(p, f, sel, m, ChangeFor(f, sel, fee)),
         NEW cmx, cmx = p[splan.expected.change.pool].actions[splan.expected.change.index].cmx
  PROVE  verify_extracted_shielded(Extracted(p), cmx) /\ Extracted(p).made = TRUE
<1>1. PlanFields(splan, f, sel, fee, m) /\ MadeOf(f, sel, fee, m)
  BY PlanHas
<1>2. PICK exp, change : exp = splan.expected /\ change = ChangeFor(f, sel, fee)
  OBVIOUS
<1>3. exp = build_expectations(f, sel, m, change)
  BY <1>1, <1>2 DEF PlanFields
<1>4. exp.change.pool = change_pool(f) /\ exp.change.index = m.out
  BY <1>1, <1>2, <1>3, PlanExpects DEF ValuePool
<1>5. ASSUME NEW pool \in ValuePool PROVE verify_final_pool(FinalBundle(p[pool]), pool, exp, cmx)
  <2>1. PICK b : b = p[pool]
    OBVIOUS
  <2>2. CleanBundle(b, f, sel, m, pool, change)
    BY <1>2, <2>1 DEF CleanPczt
  <2>3. pool = change_pool(f) => cmx = b.actions[m.out].cmx
    BY <1>2, <1>4, <2>1
  <2>4. verify_final_pool(FinalBundle(b), pool, exp, cmx)
    BY <1>1, <1>2, <1>3, <2>2, <2>3, CleanFinalPool
  <2> QED
    BY <2>1, <2>4
<1>6. PICK ve, ex, vi, vo, o, i, s, d, x :
         /\ ve = FinalVersion(p.branch) /\ ex = p.expiry /\ vi = p.vin /\ vo = p.vout
         /\ o = FinalBundle(p.orchard) /\ i = FinalBundle(p.ironwood)
         /\ s = SpentBy(ActsOf(p)) /\ d = PaidBy(ActsOf(p)) /\ x = Extracted(p)
  OBVIOUS
<1>7. x = [made |-> TRUE, version |-> ve, expiry |-> ex, vin |-> vi, vout |-> vo,
           orchard |-> o, ironwood |-> i, spent |-> s, paid |-> d]
  BY <1>6, ExtractedFields, Zenon DEF FinalTx
<1>8. /\ x.made = TRUE /\ x.version = ve /\ x.expiry = ex /\ x.vin = vi /\ x.vout = vo
      /\ x.orchard = o /\ x.ironwood = i /\ x["orchard"] = o /\ x["ironwood"] = i
  BY <1>7
<1>9. p["orchard"] = p.orchard /\ p["ironwood"] = p.ironwood
  OBVIOUS
<1>10. ASSUME NEW pool \in ValuePool PROVE verify_final_pool(x[pool], pool, exp, cmx)
  <2>1. CASE pool = "orchard"
    <3>1. verify_final_pool(FinalBundle(p["orchard"]), "orchard", exp, cmx)
      BY <1>5 DEF ValuePool
    <3>2. x[pool] = FinalBundle(p["orchard"])
      BY <1>6, <1>8, <1>9, <2>1
    <3> QED
      BY <2>1, <3>1, <3>2
  <2>2. CASE pool = "ironwood"
    <3>1. verify_final_pool(FinalBundle(p["ironwood"]), "ironwood", exp, cmx)
      BY <1>5 DEF ValuePool
    <3>2. x[pool] = FinalBundle(p["ironwood"])
      BY <1>6, <1>8, <1>9, <2>2
    <3> QED
      BY <2>2, <3>1, <3>2
  <2> QED
    BY <2>1, <2>2 DEF ValuePool
<1>11. ve = IF splan.branch = "nu6_3" THEN 6 ELSE 5
  <2>1. p.branch = splan.branch
    BY <1>1 DEF CleanPczt, PlanFields
  <2> QED
    BY <1>6, <2>1 DEF FinalVersion
<1>12. ex = splan.expiry /\ vi = 0 /\ vo = splan.vout /\ vo = transparent_outputs(f)
  BY <1>1, <1>6 DEF CleanPczt, PlanFields
<1>13. PICK A, B, h : /\ A = Values(InPool(sel, "orchard")) /\ B = Values(InPool(sel, "ironwood"))
                      /\ h = change_pool(f)
  OBVIOUS
<1>14. /\ o.balance = A - (IF "orchard" = h THEN change ELSE 0)
       /\ i.balance = B - (IF "ironwood" = h THEN change ELSE 0)
  <2>1. ASSUME NEW b PROVE FinalBundle(b).balance = b.sum
    BY DEF FinalBundle
  <2>2. o.balance = p.orchard.sum /\ i.balance = p.ironwood.sum
    BY <1>6, <2>1
  <2>3. CleanBundle(p["orchard"], f, sel, m, "orchard", change)
    BY <1>2 DEF CleanPczt, ValuePool
  <2>4. CleanBundle(p["ironwood"], f, sel, m, "ironwood", change)
    BY <1>2 DEF CleanPczt, ValuePool
  <2>5. p["orchard"].sum = A - (IF "orchard" = h THEN change ELSE 0)
    BY <1>13, <2>3 DEF CleanBundle
  <2>6. p["ironwood"].sum = B - (IF "ironwood" = h THEN change ELSE 0)
    BY <1>13, <2>4 DEF CleanBundle
  <2> QED
    BY <1>9, <2>2, <2>5, <2>6
<1>15. A \in Nat /\ B \in Nat /\ A + B = Values(sel)
  <2>1. sel \in Seq(Range(f.notes)) /\ Notes(Range(f.notes))
    BY <1>1, PoolPlan DEF ValuePool
  <2>2. Values(sel) = A + B
    BY <1>13, <2>1, PoolValues
  <2>3. A \in Nat /\ B \in Nat
    BY <1>13, <2>1, PoolShare
  <2> QED
    BY <2>2, <2>3
<1>16. /\ change = Values(sel) - carrier_total(f) - fee /\ change \in Int
       /\ fee \in Int /\ carrier_total(f) \in Int
  BY <1>1, <1>2, ChangeLeft DEF ChangeFor, MadeOf
<1>17. h \in {"orchard", "ironwood"}
  BY <1>13 DEF change_pool
<1>18. o.balance + i.balance = Values(sel) - change /\ o.balance \in Int /\ i.balance \in Int
  <2>1. CASE h = "orchard"
    BY <1>14, <1>15, <1>16, <2>1
  <2>2. CASE h = "ironwood"
    BY <1>14, <1>15, <1>16, <2>2
  <2> QED
    BY <1>17, <2>1, <2>2
<1>19. PICK paid : paid = Sum(Map(LAMBDA q : q.value, x.vout))
  OBVIOUS
<1>20. paid = carrier_total(f)
  <2>1. x.vout = transparent_outputs(f)
    BY <1>8, <1>12
  <2>2. paid = Sum(Map(LAMBDA q : q.value, transparent_outputs(f)))
    BY <1>19, <2>1, Zenon
  <2> QED
    BY <2>2, OutputsPay, Zenon
<1>21. splan.fee = fee
  BY <1>1 DEF PlanFields
<1>22. o.balance + i.balance - paid = splan.fee
  <2>1. PICK b, c, d1, v, e : b = o.balance /\ c = i.balance /\ d1 = carrier_total(f) /\ v = Values(sel) /\ e = fee
    OBVIOUS
  <2>2. b \in Int /\ c \in Int /\ d1 \in Int /\ v \in Int /\ e \in Int
    BY <1>15, <1>16, <1>18, <2>1
  <2>3. b + c = v - change /\ change = v - d1 - e /\ paid = d1 /\ change \in Int
    BY <1>16, <1>18, <1>20, <2>1
  <2>4. b + c - paid = e
    BY <2>2, <2>3
  <2> QED
    BY <1>21, <2>1, <2>4
<1>23. x.orchard.balance + x.ironwood.balance - Sum(Map(LAMBDA q : q.value, x.vout)) = splan.fee
  BY <1>8, <1>19, <1>22, Zenon
<1>24. /\ x.version = IF splan.branch = "nu6_3" THEN 6 ELSE 5
       /\ x.expiry = splan.expiry /\ x.vin = 0 /\ x.vout = splan.vout
  BY <1>8, <1>11, <1>12
<1>25. \A pool \in ValuePool : verify_final_pool(x[pool], pool, splan.expected, cmx)
  BY <1>2, <1>10
<1>26. verify_extracted_shielded(x, cmx)
  BY <1>23, <1>24, <1>25, Zenon DEF verify_extracted_shielded
<1> QED
  BY <1>6, <1>8, <1>26

(***************************************************************************)
(* The stages of a plan nobody altered.                                    *)
(***************************************************************************)
CleanFor(f, sp, p, x) ==
  sp.stage \in Live => \E sel, fee, m :
    /\ PlannedAs(f, sp, sel, fee, m)
    /\ sp.stage # "extracted" => CleanPczt(p, f, sel, m, ChangeFor(f, sel, fee))
    /\ sp.stage = "signed" => AllSigned(p)
    /\ sp.stage = "extracted" => p = NoPczt /\ x.made

CleanStages == tampers \in Nat /\ (tampers = 0 => CleanFor(fund, splan, pczt, vtx))

CleanInv == ShieldedStages /\ CleanStages

LEMMA CleanInit == ShieldedInit => CleanStages
<1> SUFFICES ASSUME ShieldedInit PROVE CleanStages
  OBVIOUS
<1>1. splan.stage = "none" /\ tampers = 0
  BY NothingYet DEF ShieldedInit
<1> QED
  BY <1>1 DEF CleanStages, CleanFor, Live

LEMMA CleanPlan ==
  ASSUME CleanInv, plan_shielded
  PROVE  CleanStages'
<1>1. splan = NoShieldedPlan /\ fund \in Funding /\ fund' = fund /\ vtx' = vtx /\ tampers' = tampers
  BY DEF plan_shielded, CleanInv, ShieldedStages, StagesFor
<1>2. tampers' \in Nat
  BY <1>1 DEF CleanInv, CleanStages
<1>3. PICK s, sel, fee, change : /\ s = select_for(fund) /\ sel = s.sel /\ fee = s.fee
                                 /\ change = Values(s.sel) - carrier_total(fund) - s.fee
  OBVIOUS
<1>4. CASE splan' = RefusedPlan
  <2>1. splan'.stage = "refused"
    BY <1>4, NothingYet
  <2> QED
    BY <1>2, <2>1 DEF CleanStages, CleanFor, Live
<1>5. CASE /\ s.ok /\ AnchorsKnown(fund, s.sel)
           /\ \E m \in Metadata(fund, s.sel) :
                /\ pczt' = assemble_and_build(fund, s.sel, m, change)
                /\ splan' = [stage |-> "planned", fee |-> s.fee, change |-> change,
                             selected |-> Values(s.sel), vout |-> transparent_outputs(fund),
                             branch |-> fund.branch, expiry |-> "planned",
                             sign |-> signing_plans(fund, s.sel, m),
                             expected |-> build_expectations(fund, s.sel, m, change)]
  <2>1. PICK m \in Metadata(fund, sel) :
             /\ pczt' = assemble_and_build(fund, sel, m, change)
             /\ splan' = [stage |-> "planned", fee |-> fee, change |-> change,
                          selected |-> Values(sel), vout |-> transparent_outputs(fund),
                          branch |-> fund.branch, expiry |-> "planned",
                          sign |-> signing_plans(fund, sel, m),
                          expected |-> build_expectations(fund, sel, m, change)]
    BY <1>3, <1>5, Zenon
  <2>2. MadeOf(fund, sel, fee, m)
    BY <1>1, <1>3, <1>5, <2>1, SelectionIs DEF MadeOf
  <2>3. change = ChangeFor(fund, sel, fee)
    BY <1>3 DEF ChangeFor
  <2>4. splan' = PlanAt(fund, sel, fee, m, "planned")
    BY <2>1, <2>3, Zenon DEF PlanAt
  <2>5. splan'.stage = "planned"
    <3>1. PICK sg, ex, vo, va : /\ sg = signing_plans(fund, sel, m) /\ vo = transparent_outputs(fund)
                                /\ ex = build_expectations(fund, sel, m, change) /\ va = Values(sel)
      OBVIOUS
    <3>2. splan' = [stage |-> "planned", fee |-> fee, change |-> change, selected |-> va, vout |-> vo,
                    branch |-> fund.branch, expiry |-> "planned", sign |-> sg, expected |-> ex]
      BY <2>1, <3>1, Zenon
    <3> QED
      BY <3>2
  <2>6. PlannedAs(fund, splan', sel, fee, m)
    BY <2>2, <2>4, <2>5 DEF PlannedAs
  <2>7. CleanPczt(pczt', fund, sel, m, change)
    BY <1>1, <2>1, <2>2, <2>3, BuiltIsClean
  <2>8. CleanFor(fund, splan', pczt', vtx')
    BY <2>3, <2>5, <2>6, <2>7 DEF CleanFor
  <2> QED
    BY <1>1, <1>2, <2>8 DEF CleanStages
<1> QED
  BY <1>3, <1>4, <1>5, Zenon DEF plan_shielded

LEMMA CleanTamper ==
  ASSUME CleanInv, tamper
  PROVE  CleanStages'
<1>1. tampers \in Nat /\ tampers' = tampers + 1
  BY DEF tamper, CleanInv, CleanStages
<1> QED
  BY <1>1 DEF CleanStages

LEMMA CleanProve ==
  ASSUME CleanInv, prove_pczt
  PROVE  CleanStages'
<1>1. /\ splan.stage = "planned" /\ splan' = [splan EXCEPT !.stage = "proven"]
      /\ fund' = fund /\ pczt' = pczt /\ vtx' = vtx /\ tampers' = tampers /\ tampers \in Nat
  BY DEF prove_pczt, InStage, CleanInv, CleanStages
<1>2. ASSUME tampers = 0 PROVE CleanFor(fund, splan', pczt, vtx)
  <2>1. PICK sel, fee, m : /\ PlannedAs(fund, splan, sel, fee, m)
                           /\ CleanPczt(pczt, fund, sel, m, ChangeFor(fund, sel, fee))
    BY <1>1, <1>2 DEF CleanInv, CleanStages, CleanFor, Live
  <2>2. PICK q : q = [splan EXCEPT !.stage = "proven"]
    OBVIOUS
  <2>3. PlannedAs(fund, q, sel, fee, m) /\ q.stage = "proven"
    BY <2>1, <2>2, PlanMoves
  <2>4. CleanFor(fund, q, pczt, vtx)
    BY <2>1, <2>3 DEF CleanFor
  <2> QED
    BY <1>1, <2>2, <2>4
<1> QED
  BY <1>1, <1>2 DEF CleanStages

LEMMA CleanSign ==
  ASSUME CleanInv, sign_pczt
  PROVE  CleanStages'
<1>1. InStage("proven") /\ fund' = fund /\ vtx' = vtx /\ tampers' = tampers /\ tampers \in Nat
  BY SignStep DEF CleanInv, CleanStages
<1>2. splan.stage = "proven" /\ fund \in Funding
  BY <1>1 DEF InStage, CleanInv, ShieldedStages, StagesFor
<1>3. ASSUME tampers = 0 PROVE CleanFor(fund, splan', pczt', vtx)
  <2>1. PICK sel, fee, m : /\ PlannedAs(fund, splan, sel, fee, m)
                           /\ CleanPczt(pczt, fund, sel, m, ChangeFor(fund, sel, fee))
    BY <1>2, <1>3 DEF CleanInv, CleanStages, CleanFor, Live
  <2>2. Signs(pczt)
    BY <1>2, <2>1, CleanSigns
  <2>3. splan' = [splan EXCEPT !.stage = "signed"] /\ pczt' = SignedPczt(pczt, splan.sign)
    BY <2>2, SignStep
  <2>4. PICK q : q = [splan EXCEPT !.stage = "signed"]
    OBVIOUS
  <2>5. PlannedAs(fund, q, sel, fee, m) /\ q.stage = "signed"
    BY <2>1, <2>4, PlanMoves
  <2>6. splan.sign = signing_plans(fund, sel, m) /\ MadeOf(fund, sel, fee, m)
    BY <2>1, PlanHas DEF PlanFields
  <2>7. CleanPczt(pczt', fund, sel, m, ChangeFor(fund, sel, fee)) /\ AllSigned(pczt')
    BY <1>2, <2>1, <2>3, <2>6, SignedIsClean
  <2>8. CleanFor(fund, q, pczt', vtx)
    BY <2>5, <2>7 DEF CleanFor
  <2> QED
    BY <2>3, <2>4, <2>8
<1> QED
  BY <1>1, <1>3 DEF CleanStages

LEMMA CleanExtract ==
  ASSUME CleanInv, extract_verified_shielded
  PROVE  CleanStages'
<1>1. splan.stage = "signed" /\ pczt' = NoPczt /\ fund' = fund /\ fund \in Funding /\ tampers \in Nat
  BY DEF extract_verified_shielded, InStage, CleanInv, CleanStages, ShieldedStages, StagesFor
<1>2. CASE ~(verify_finalized_pczt(pczt) /\ Extractable(pczt))
  <2>1. tampers' = tampers
    BY <1>2, Zenon DEF extract_verified_shielded
  <2>2. tampers # 0
    <3> SUFFICES ASSUME tampers = 0 PROVE FALSE
      OBVIOUS
    <3>1. PICK sel, fee, m : /\ PlannedAs(fund, splan, sel, fee, m) /\ AllSigned(pczt)
                             /\ CleanPczt(pczt, fund, sel, m, ChangeFor(fund, sel, fee))
      BY <1>1 DEF CleanInv, CleanStages, CleanFor, Live
    <3>2. verify_finalized_pczt(pczt)
      BY <1>1, <3>1, CleanVerifies
    <3>3. Extractable(pczt)
      BY <1>1, <3>1, CleanExtractable, PlanHas
    <3> QED
      BY <1>2, <3>2, <3>3
  <2> QED
    BY <1>1, <2>1, <2>2 DEF CleanStages
<1>3. CASE verify_finalized_pczt(pczt) /\ Extractable(pczt)
  <2>1. PICK y, cmx : /\ y = Extracted(pczt)
                      /\ cmx = pczt[splan.expected.change.pool].actions[splan.expected.change.index].cmx
    OBVIOUS
  <2>2. PICK x : /\ splan' = [splan EXCEPT !.stage = "extracted"]
                 /\ tampers' = IF x = y THEN tampers ELSE tampers + 1
                 /\ vtx' = IF verify_extracted_shielded(x, cmx) THEN x ELSE NoTx
    BY <1>3, <2>1, Zenon DEF extract_verified_shielded
  <2>3. tampers' \in Nat
    BY <1>1, <2>2
  <2>4. ASSUME tampers' = 0 PROVE CleanFor(fund, splan', NoPczt, vtx')
    <3>1. x = y /\ tampers = 0
      BY <1>1, <2>2, <2>4
    <3>2. PICK sel, fee, m : /\ PlannedAs(fund, splan, sel, fee, m)
                             /\ CleanPczt(pczt, fund, sel, m, ChangeFor(fund, sel, fee))
      BY <1>1, <3>1 DEF CleanInv, CleanStages, CleanFor, Live
    <3>3. PICK f, p : f = fund /\ p = pczt
      OBVIOUS
    <3>4. verify_extracted_shielded(Extracted(p), cmx) /\ Extracted(p).made = TRUE
      <4>1. /\ f \in Funding /\ PlannedAs(f, splan, sel, fee, m)
            /\ CleanPczt(p, f, sel, m, ChangeFor(f, sel, fee))
            /\ cmx = p[splan.expected.change.pool].actions[splan.expected.change.index].cmx
        BY <1>1, <2>1, <3>2, <3>3
      <4> QED
        BY <3>3, <4>1, CleanTx
    <3>5. vtx'.made = TRUE
      BY <2>1, <2>2, <3>1, <3>3, <3>4
    <3>6. PICK q : q = [splan EXCEPT !.stage = "extracted"]
      OBVIOUS
    <3>7. PlannedAs(fund, q, sel, fee, m) /\ q.stage = "extracted"
      BY <3>2, <3>6, PlanMoves
    <3>8. CleanFor(fund, q, NoPczt, vtx')
      BY <3>5, <3>7 DEF CleanFor
    <3> QED
      BY <2>2, <3>6, <3>8
  <2> QED
    BY <1>1, <2>3, <2>4 DEF CleanStages
<1> QED
  BY <1>2, <1>3

LEMMA CleanNext == CleanInv /\ [ShieldedNext]_shieldedVars => CleanInv'
<1> SUFFICES ASSUME CleanInv, [ShieldedNext]_shieldedVars PROVE CleanInv'
  OBVIOUS
<1>1. ShieldedStages'
  BY StagesNext DEF CleanInv
<1>2. CASE move_tip \/ UNCHANGED shieldedVars
  <2>1. fund' = fund /\ splan' = splan /\ pczt' = pczt /\ vtx' = vtx /\ tampers' = tampers
    BY <1>2 DEF move_tip, shieldedVars
  <2>2. CleanStages'
    BY <2>1 DEF CleanInv, CleanStages
  <2> QED
    BY <1>1, <2>2 DEF CleanInv
<1>3. CASE ShieldedNext /\ ~move_tip
  BY <1>1, <1>3, CleanPlan, CleanTamper, CleanProve, CleanSign, CleanExtract DEF ShieldedNext, CleanInv
<1> QED
  BY <1>2, <1>3

LEMMA CleanMeans == CleanInv => CleanPlanSucceeds
<1> SUFFICES ASSUME CleanInv, splan.stage \notin {"none", "refused"}, tampers = 0
             PROVE  /\ ~pczt.made => vtx.made
                    /\ splan.change > 0
                    /\ splan.selected = carrier_total(fund) + splan.change + splan.fee
                    /\ pczt.made =>
                         /\ splan.fee = MARGINAL_FEE * Greater(GRACE_ACTIONS,
                                          CeilDiv(OutBytes(fund), 34) + Len(pczt.orchard.actions)
                                                                      + Len(pczt.ironwood.actions))
                         /\ fund.branch = "nu6_3" => pczt.orchard.sum >= 0
  BY DEF CleanPlanSucceeds
<1>1. splan.stage \in Live /\ fund \in Funding
  BY DEF CleanInv, ShieldedStages, StagesFor, Unplanned
<1>2. PICK sel, fee, m :
        /\ PlannedAs(fund, splan, sel, fee, m)
        /\ splan.stage # "extracted" => CleanPczt(pczt, fund, sel, m, ChangeFor(fund, sel, fee))
        /\ splan.stage = "extracted" => pczt = NoPczt /\ vtx.made
  BY <1>1 DEF CleanInv, CleanStages, CleanFor
<1>3. PlanFields(splan, fund, sel, fee, m) /\ MadeOf(fund, sel, fee, m)
  BY <1>2, PlanHas
<1>4. splan.fee = fee /\ splan.change = ChangeFor(fund, sel, fee) /\ splan.selected = Values(sel)
  BY <1>3 DEF PlanFields
<1>5. Selected(fund, sel, fee)
  BY <1>3 DEF MadeOf
<1>6. /\ ChangeFor(fund, sel, fee) \in Nat \ {0} /\ fee \in Int /\ carrier_total(fund) \in Int
      /\ Values(sel) \in Int /\ ChangeFor(fund, sel, fee) = Values(sel) - carrier_total(fund) - fee
  BY <1>1, <1>5, ChangeLeft DEF ChangeFor
<1>7. splan.change > 0 /\ splan.selected = carrier_total(fund) + splan.change + splan.fee
  <2>1. PICK c, v, t : c = ChangeFor(fund, sel, fee) /\ v = Values(sel) /\ t = carrier_total(fund)
    OBVIOUS
  <2>2. c \in Nat \ {0} /\ fee \in Int /\ t \in Int /\ v \in Int /\ c = v - t - fee
    BY <1>6, <2>1
  <2>3. c > 0 /\ v = t + c + fee
    BY <2>2
  <2> QED
    BY <1>4, <2>1, <2>3
<1>8. ~pczt.made => vtx.made
  <2>1. CASE splan.stage = "extracted"
    BY <1>2, <2>1
  <2>2. CASE splan.stage # "extracted"
    BY <1>2, <2>2, PcztMade DEF CleanPczt
  <2> QED
    BY <2>1, <2>2
<1>9. ASSUME pczt.made
      PROVE  /\ splan.fee = MARGINAL_FEE * Greater(GRACE_ACTIONS,
                                          CeilDiv(OutBytes(fund), 34) + Len(pczt.orchard.actions)
                                                                      + Len(pczt.ironwood.actions))
             /\ fund.branch = "nu6_3" => pczt.orchard.sum >= 0
  <2>1. CleanPczt(pczt, fund, sel, m, ChangeFor(fund, sel, fee))
    BY <1>2, <1>9, NothingYet
  <2>2. PICK o, i : o = pczt["orchard"] /\ i = pczt["ironwood"] /\ o = pczt.orchard /\ i = pczt.ironwood
    OBVIOUS
  <2>3. ASSUME NEW pool \in ValuePool, NEW b, CleanBundle(b, fund, sel, m, pool, ChangeFor(fund, sel, fee))
        PROVE  Len(b.actions) = ActionCount(fund, sel, pool)
    <3>0. PICK acts : acts = b.actions
      OBVIOUS
    <3>1. PICK n \in Nat : n = ActionCount(fund, sel, pool) /\ acts = b.actions
      BY <1>1, <1>3, <3>0, PoolPlan
    <3>2. acts = [k \in 1..n |-> acts[k]]
      BY <2>3, <3>1 DEF CleanBundle, BuiltActs
    <3> QED
      BY <3>1, <3>2, Listed
  <2>4. /\ CleanBundle(o, fund, sel, m, "orchard", ChangeFor(fund, sel, fee))
        /\ CleanBundle(i, fund, sel, m, "ironwood", ChangeFor(fund, sel, fee))
    BY <2>1, <2>2 DEF CleanPczt, ValuePool
  <2>5. /\ Len(o.actions) = ActionCount(fund, sel, "orchard")
        /\ Len(i.actions) = ActionCount(fund, sel, "ironwood")
    BY <2>3, <2>4 DEF ValuePool
  <2>6. fee = MARGINAL_FEE * Greater(GRACE_ACTIONS, CeilDiv(OutBytes(fund), 34)
                                + ActionCount(fund, sel, "orchard") + ActionCount(fund, sel, "ironwood"))
    BY <1>5, Zenon DEF Selected, get_fee
  <2>7. ASSUME fund.branch = "nu6_3" PROVE pczt.orchard.sum >= 0
    <3>1. change_pool(fund) = "ironwood"
      BY <2>7 DEF change_pool
    <3>2. o.sum = Values(InPool(sel, "orchard")) - 0
      BY <2>4, <3>1 DEF CleanBundle
    <3>3. Values(InPool(sel, "orchard")) \in Nat
      <4>1. sel \in Seq(Range(fund.notes)) /\ Notes(Range(fund.notes))
        BY <1>1, <1>3, PoolPlan DEF ValuePool
      <4> QED
        BY <4>1, PoolShare
    <3> QED
      BY <2>2, <3>2, <3>3
  <2> QED
    BY <1>4, <2>2, <2>5, <2>6, <2>7
<1> QED
  BY <1>7, <1>8, <1>9

\* CleanPlanSucceeds: a plan nobody altered can be carried through.  Every
\* action is signed, both verifications accept what the builder made, and the
\* fee measured before building is the fee of the actions the transaction has -
\* for every request, wallet, branch and order the builder puts actions in
\* (select_for, signing_plans, verify_finalized_pczt, shielded.rs).
THEOREM ShieldedCleanPlanSucceeds == ShieldedSpec => []CleanPlanSucceeds
<1>1. ShieldedInit => CleanInv
  BY StagesInit, CleanInit DEF CleanInv
<1> QED
  BY <1>1, CleanNext, CleanMeans, PTL DEF ShieldedSpec
=============================================================================
