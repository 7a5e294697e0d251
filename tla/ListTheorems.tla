---------------------------- MODULE ListTheorems ----------------------------
(***************************************************************************)
(* Facts about the lists and loops of Lists.  What a loop keeps is shown   *)
(* by looking at the first round that would not keep it.  The provers      *)
(* cannot instantiate an operator, so a loop with a body of its own has a  *)
(* lemma of its own where it is used; here are the sums and the selections.*)
(***************************************************************************)
EXTENDS Lists, FiniteSetTheorems, WellFoundedInduction, TLAPS

\* A nonempty set of numbers has a least one.
LEMMA Least ==
  ASSUME NEW S, S \subseteq Nat, S # {}
  PROVE  \E m \in S : \A k \in S : m <= k
<1> DEFINE R == OpToRel(<, Nat)
<1>1. IsWellFoundedOn(R, Nat)
  BY NatLessThanWellFounded
<1>2. \A x, y \in Nat : y < x => <<y, x>> \in R
  BY DEF OpToRel
<1> HIDE DEF R
<1>3. PICK m \in S : \A k \in S : ~(<<k, m>> \in R)
  BY <1>1, WFMin
<1>4. ASSUME NEW k \in S PROVE m <= k
  <2>1. k \in Nat /\ m \in Nat
    OBVIOUS
  <2>2. ~(k < m)
    BY <1>2, <1>3, <2>1, Zenon
  <2> QED BY <2>1, <2>2
<1> QED BY <1>4

\* What holds of 0, and of k + 1 if it holds of k, holds below any bound.
LEMMA Induction ==
  ASSUME NEW N \in Nat, NEW S, 0 \in S,
         \A k \in 1 .. N : k - 1 \in S => k \in S
  PROVE  \A k \in 0 .. N : k \in S
<1> DEFINE Bad == {k \in 0 .. N : k \notin S}
<1> SUFFICES ASSUME Bad # {} PROVE FALSE
  OBVIOUS
<1>1. Bad \subseteq Nat
  OBVIOUS
<1>2. PICK m \in Bad : \A k \in Bad : m <= k
  BY <1>1, Least
<1>3. m \in 1 .. N /\ m - 1 \in 0 .. N /\ ~(m <= m - 1)
  OBVIOUS
<1> QED BY <1>2, <1>3

\* A list has a length.
LEMMA ListLength ==
  ASSUME NEW q, IsList(q) PROVE Len(q) \in Nat /\ DOMAIN q = 1 .. Len(q)
  BY DEF IsList

\* A function on the numbers from 1 is a list.
LEMMA ListMade ==
  ASSUME NEW n \in Nat, NEW q, DOMAIN q = 1 .. n, q = [i \in DOMAIN q |-> q[i]]
  PROVE  IsList(q) /\ Len(q) = n
<1> DEFINE X == {q[i] : i \in DOMAIN q}
<1>1. \A i \in DOMAIN q : q[i] \in X
  OBVIOUS
<1> HIDE DEF X
<1>2. q \in Seq(X) /\ Len(q) = n
  BY <1>1
<1> QED BY <1>2 DEF X, IsList

LEMMA ListAppended ==
  ASSUME NEW q, IsList(q), NEW e
  PROVE  /\ IsList(Append(q, e))
         /\ Len(q) \in Nat /\ Len(Append(q, e)) = Len(q) + 1
         /\ \A i \in 1 .. Len(q) : Append(q, e)[i] = q[i]
         /\ Append(q, e)[Len(q) + 1] = e
<1> DEFINE X == {q[i] : i \in DOMAIN q} \cup {e}
           r == Append(q, e)
<1>1. q \in Seq({q[i] : i \in DOMAIN q})
  BY DEF IsList
<1>2. q \in Seq(X)
  BY <1>1
<1>3. Len(q) \in Nat /\ DOMAIN q = 1 .. Len(q)
  BY <1>1
<1>4. r \in Seq(X) /\ Len(r) = Len(q) + 1 /\ DOMAIN r = 1 .. Len(q) + 1
  BY <1>2, <1>3
<1>5. \A i \in 1 .. Len(q) : r[i] = q[i]
  BY <1>2, <1>3
<1>6. r[Len(q) + 1] = e
  BY <1>2, <1>3
<1> HIDE DEF r
<1>7. r \in Seq({r[i] : i \in DOMAIN r})
  BY <1>4
<1> QED BY <1>3, <1>4, <1>5, <1>6, <1>7 DEF IsList, r

LEMMA ListJoined ==
  ASSUME NEW a, IsList(a), NEW b, IsList(b)
  PROVE  /\ IsList(a \o b)
         /\ Len(a) \in Nat /\ Len(b) \in Nat /\ Len(a \o b) = Len(a) + Len(b)
         /\ \A i \in 1 .. Len(a) : (a \o b)[i] = a[i]
         /\ \A i \in 1 .. Len(b) : (a \o b)[Len(a) + i] = b[i]
<1> DEFINE X == {a[i] : i \in DOMAIN a} \cup {b[i] : i \in DOMAIN b}
           c == a \o b
<1>1. a \in Seq(X) /\ b \in Seq(X)
  BY DEF IsList
<1> HIDE DEF X
<1>2. Len(a) \in Nat /\ Len(b) \in Nat
  BY <1>1
<1>3. c \in Seq(X) /\ Len(c) = Len(a) + Len(b) /\ DOMAIN c = 1 .. Len(a) + Len(b)
  BY <1>1
<1>4. \A i \in 1 .. Len(a) + Len(b) : c[i] = IF i <= Len(a) THEN a[i] ELSE b[i - Len(a)]
  BY <1>1
<1> HIDE DEF c
<1>5. \A i \in 1 .. Len(a) : c[i] = a[i]
  BY <1>2, <1>4
<1>6. ASSUME NEW i \in 1 .. Len(b) PROVE c[Len(a) + i] = b[i]
  <2>1. /\ Len(a) + i \in 1 .. Len(a) + Len(b) /\ ~(Len(a) + i <= Len(a))
        /\ (Len(a) + i) - Len(a) = i
    BY <1>2
  <2> QED BY <1>4, <2>1
<1>7. c \in Seq({c[i] : i \in DOMAIN c})
  BY <1>3
<1> QED BY <1>2, <1>3, <1>5, <1>6, <1>7 DEF IsList, c

\* A list of one element.
LEMMA ListOfOne == \A x : IsList(<<x>>) /\ Len(<<x>>) = 1 /\ <<x>>[1] = x
  BY DEF IsList
-----------------------------------------------------------------------------
(* Sums *)

\* A list of natural numbers.
IsNumbers(q) == Len(q) \in Nat /\ \A k \in 1 .. Len(q) : q[k] \in Nat

\* The sum grows from element to element.
LEMMA SumSteps ==
  ASSUME NEW q, IsNumbers(q)
  PROVE  \E t : /\ t[0] = 0
                /\ \A k \in 1 .. Len(q) : t[k] = t[k - 1] + q[k]
                /\ \A k \in 0 .. Len(q) : t[k] \in Nat
                /\ SumOf(q) = t[Len(q)]
<1> DEFINE N == Len(q)
           Runs(f, k) == f = [n \in 0 .. k |-> IF n = 0 THEN 0 ELSE f[n - 1] + q[n]]
           total == CHOOSE f : Runs(f, N)
<1>1. N \in Nat /\ \A k \in 1 .. N : q[k] \in Nat
  BY DEF IsNumbers
<1>2. SumOf(q) = total[N]
  BY DEF SumOf, ForEach
<1> HIDE DEF N, Runs, total
<1>3. Runs(total, N)
  <2> DEFINE S == {k \in 0 .. N : \E f : Runs(f, k)}
  <2>1. 0 \in S
    <3>1. Runs([n \in 0 .. 0 |-> 0], 0)
      BY DEF Runs
    <3> QED BY <3>1, <1>1
  <2>2. ASSUME NEW k \in 1 .. N, k - 1 \in S PROVE k \in S
    <3>1. PICK f : Runs(f, k - 1)
      BY <2>2
    <3> DEFINE h == [n \in 0 .. k |-> IF n = 0 THEN 0 ELSE f[n - 1] + q[n]]
    <3>2. \A n \in 0 .. k - 1 : h[n] = f[n]
      BY <3>1, <1>1 DEF Runs
    <3> HIDE DEF h
    <3>3. \A n \in 1 .. k : n - 1 \in 0 .. k - 1
      BY <1>1
    <3>4. \A n \in 0 .. k : n # 0 => h[n - 1] = f[n - 1]
      BY <3>2, <3>3, <1>1
    <3>5. Runs(h, k)
      BY <3>4 DEF Runs, h
    <3> QED BY <3>5
  <2> HIDE DEF S
  <2>3. \A k \in 0 .. N : k \in S
    BY <2>1, <2>2, <1>1, Induction
  <2> QED BY <2>3, <1>1 DEF S, total
<1>4. total[0] = 0 /\ \A k \in 1 .. N : total[k] = total[k - 1] + q[k]
  BY <1>1, <1>3 DEF Runs
<1>5. \A k \in 0 .. N : total[k] \in Nat
  <2> DEFINE S == {k \in 0 .. N : total[k] \in Nat}
  <2>1. 0 \in S
    BY <1>1, <1>4
  <2>2. ASSUME NEW k \in 1 .. N, k - 1 \in S PROVE k \in S
    BY <2>2, <1>1, <1>4
  <2> HIDE DEF S
  <2>3. \A k \in 0 .. N : k \in S
    BY <2>1, <2>2, <1>1, Induction
  <2> QED BY <2>3 DEF S
<1> QED BY <1>2, <1>4, <1>5 DEF N

LEMMA SumType == ASSUME NEW q, IsNumbers(q) PROVE SumOf(q) \in Nat
<1>1. PICK t : (\A k \in 0 .. Len(q) : t[k] \in Nat) /\ SumOf(q) = t[Len(q)]
  BY SumSteps
<1> QED BY <1>1 DEF IsNumbers

\* A sum is at most as many times the greatest element as there are elements.
LEMMA SumBounded ==
  ASSUME NEW q, Len(q) \in Nat, NEW b \in Nat, \A k \in 1 .. Len(q) : q[k] \in 0 .. b
  PROVE  SumOf(q) \in 0 .. Len(q) * b
<1> DEFINE N == Len(q)
<1>1. IsNumbers(q)
  BY DEF IsNumbers
<1>2. PICK t : /\ t[0] = 0
               /\ \A k \in 1 .. N : t[k] = t[k - 1] + q[k]
               /\ \A k \in 0 .. N : t[k] \in Nat
               /\ SumOf(q) = t[N]
  BY <1>1, SumSteps
<1> DEFINE S == {k \in 0 .. N : t[k] <= k * b}
<1>3. 0 \in S
  BY <1>2
<1>4. ASSUME NEW k \in 1 .. N, k - 1 \in S PROVE k \in S
  <2>1. k - 1 \in 0 .. N /\ k \in 0 .. N /\ t[k - 1] <= (k - 1) * b
    BY <1>4
  <2>2. (k - 1) * b + b = k * b
    OBVIOUS
  <2>3. t[k] = t[k - 1] + q[k] /\ q[k] \in 0 .. b /\ t[k - 1] \in Nat
    BY <1>2, <2>1
  <2>4. k * b \in Nat /\ (k - 1) * b \in Int
    OBVIOUS
  <2>5. t[k] <= k * b
    BY <2>1, <2>2, <2>3, <2>4
  <2> QED BY <2>1, <2>5
<1> HIDE DEF S
<1>5. \A k \in 0 .. N : k \in S
  BY <1>3, <1>4, Induction
<1>6. N * b \in Nat
  OBVIOUS
<1> QED BY <1>2, <1>5, <1>6 DEF S

\* An element that was zero adds itself.
LEMMA SumChanged ==
  ASSUME NEW q, IsNumbers(q), NEW r, IsNumbers(r), Len(r) = Len(q),
         NEW j \in 1 .. Len(q), q[j] = 0,
         \A k \in 1 .. Len(q) : k # j => r[k] = q[k]
  PROVE  SumOf(r) = SumOf(q) + r[j]
<1> DEFINE N == Len(q)
<1>1. PICK t : /\ t[0] = 0
               /\ \A k \in 1 .. N : t[k] = t[k - 1] + q[k]
               /\ \A k \in 0 .. N : t[k] \in Nat
               /\ SumOf(q) = t[N]
  BY SumSteps
<1>2. PICK u : /\ u[0] = 0
               /\ \A k \in 1 .. N : u[k] = u[k - 1] + r[k]
               /\ \A k \in 0 .. N : u[k] \in Nat
               /\ SumOf(r) = u[N]
  BY SumSteps
<1>3. N \in Nat /\ \A k \in 1 .. N : q[k] \in Nat /\ r[k] \in Nat
  BY DEF IsNumbers
<1> HIDE DEF N
<1>0. j \in 1 .. N /\ q[j] = 0 /\ \A k \in 1 .. N : k # j => r[k] = q[k]
  BY DEF N
<1> DEFINE S == {k \in 0 .. N : u[k] = IF k < j THEN t[k] ELSE t[k] + r[j]}
<1>4. 0 \in S
  BY <1>0, <1>1, <1>2, <1>3
<1>5. ASSUME NEW k \in 1 .. N, k - 1 \in S PROVE k \in S
  <2>1. /\ k - 1 \in 0 .. N /\ k \in 0 .. N
        /\ u[k - 1] = IF k - 1 < j THEN t[k - 1] ELSE t[k - 1] + r[j]
    BY <1>5, <1>3
  <2>2. t[k] = t[k - 1] + q[k] /\ u[k] = u[k - 1] + r[k]
    BY <1>1, <1>2
  <2>3. t[k - 1] \in Nat /\ q[k] \in Nat /\ r[k] \in Nat /\ r[j] \in Nat
    BY <1>0, <1>1, <1>3, <2>1
  <2>4. u[k] = IF k < j THEN t[k] ELSE t[k] + r[j]
    <3>1. CASE k < j
      BY <3>1, <2>1, <2>2, <2>3, <1>0
    <3>2. CASE k = j
      BY <3>2, <2>1, <2>2, <2>3, <1>0
    <3>3. CASE k > j
      BY <3>3, <2>1, <2>2, <2>3, <1>0
    <3> QED BY <3>1, <3>2, <3>3
  <2> QED BY <2>1, <2>4
<1> HIDE DEF S
<1>6. \A k \in 0 .. N : k \in S
  BY <1>3, <1>4, <1>5, Induction
<1>7. N \in S /\ ~(N < j)
  BY <1>0, <1>3, <1>6
<1> QED BY <1>1, <1>2, <1>7 DEF S

\* Greater elements make a greater sum.
LEMMA SumOrdered ==
  ASSUME NEW q, IsNumbers(q), NEW r, IsNumbers(r), Len(r) = Len(q),
         \A k \in 1 .. Len(q) : q[k] <= r[k]
  PROVE  SumOf(q) <= SumOf(r)
<1> DEFINE N == Len(q)
<1>1. PICK t : /\ t[0] = 0
               /\ \A k \in 1 .. N : t[k] = t[k - 1] + q[k]
               /\ \A k \in 0 .. N : t[k] \in Nat
               /\ SumOf(q) = t[N]
  BY SumSteps
<1>2. PICK u : /\ u[0] = 0
               /\ \A k \in 1 .. N : u[k] = u[k - 1] + r[k]
               /\ \A k \in 0 .. N : u[k] \in Nat
               /\ SumOf(r) = u[N]
  BY SumSteps
<1>3. N \in Nat /\ \A k \in 1 .. N : q[k] \in Nat /\ r[k] \in Nat
  BY DEF IsNumbers
<1> HIDE DEF N
<1>0. \A k \in 1 .. N : q[k] <= r[k]
  BY DEF N
<1> DEFINE S == {k \in 0 .. N : t[k] <= u[k]}
<1>4. 0 \in S
  BY <1>1, <1>2, <1>3
<1>5. ASSUME NEW k \in 1 .. N, k - 1 \in S PROVE k \in S
  <2>1. k - 1 \in 0 .. N /\ k \in 0 .. N /\ t[k - 1] <= u[k - 1]
    BY <1>5, <1>3
  <2>2. t[k] = t[k - 1] + q[k] /\ u[k] = u[k - 1] + r[k]
    BY <1>1, <1>2
  <2>3. t[k - 1] \in Nat /\ u[k - 1] \in Nat /\ q[k] \in Nat /\ r[k] \in Nat
    BY <1>1, <1>2, <1>3, <2>1
  <2> QED BY <2>1, <2>2, <2>3, <1>0
<1> HIDE DEF S
<1>6. \A k \in 0 .. N : k \in S
  BY <1>3, <1>4, <1>5, Induction
<1>7. N \in S
  BY <1>3, <1>6
<1> QED BY <1>1, <1>2, <1>7 DEF S

\* Where each element that is not zero has a place of its own in the other list
\* with at least as much, the other sum is no less.
LEMMA SumInjected ==
  ASSUME NEW q, IsNumbers(q), NEW r, IsNumbers(r), NEW place,
         \A k \in 1 .. Len(q) :
           q[k] # 0 => place[k] \in 1 .. Len(r) /\ q[k] <= r[place[k]],
         \A k, l \in 1 .. Len(q) :
           q[k] # 0 /\ q[l] # 0 /\ place[k] = place[l] => k = l
  PROVE  SumOf(q) <= SumOf(r)
<1> DEFINE N == Len(q)
           M == Len(r)
           Taken(k, j) == \E i \in 1 .. k : q[i] # 0 /\ place[i] = j
           part == [k \in 0 .. N |-> [j \in 1 .. M |-> IF Taken(k, j) THEN r[j] ELSE 0]]
<1>1. PICK t : /\ t[0] = 0
               /\ \A k \in 1 .. N : t[k] = t[k - 1] + q[k]
               /\ \A k \in 0 .. N : t[k] \in Nat
               /\ SumOf(q) = t[N]
  BY SumSteps
<1>2. N \in Nat /\ M \in Nat /\ (\A k \in 1 .. N : q[k] \in Nat) /\ (\A j \in 1 .. M : r[j] \in Nat)
  BY DEF IsNumbers
<1>3. \A k \in 1 .. N : q[k] # 0 => place[k] \in 1 .. M /\ q[k] <= r[place[k]]
  OBVIOUS
<1>4. \A k, l \in 1 .. N : q[k] # 0 /\ q[l] # 0 /\ place[k] = place[l] => k = l
  OBVIOUS
<1>5. ASSUME NEW k \in 0 .. N PROVE IsNumbers(part[k]) /\ Len(part[k]) = M
  <2> HIDE DEF Taken, M
  <2>1. Len(part[k]) = M
    BY <1>2, ListMade
  <2> QED BY <1>2, <2>1 DEF IsNumbers
<1>6. ASSUME NEW k \in 0 .. N PROVE SumOf(part[k]) \in Nat
  <2> HIDE DEF part
  <2> QED BY <1>5, SumType
<1> HIDE DEF N, M
<1> DEFINE S == {k \in 0 .. N : t[k] <= SumOf(part[k])}
<1>7. 0 \in S
  BY <1>1, <1>2, <1>6
<1>8. ASSUME NEW k \in 1 .. N, k - 1 \in S PROVE k \in S
  <2>1. k - 1 \in 0 .. N /\ k \in 0 .. N /\ t[k - 1] <= SumOf(part[k - 1])
    BY <1>8, <1>2
  <2>2. t[k] = t[k - 1] + q[k] /\ t[k - 1] \in Nat /\ t[k] \in Nat /\ q[k] \in Nat
    BY <1>1, <1>2, <2>1
  <2>3. SumOf(part[k - 1]) \in Nat /\ SumOf(part[k]) \in Nat
    BY <1>6, <2>1
  <2>4. CASE q[k] = 0
    <3>1. \A j : Taken(k, j) <=> Taken(k - 1, j)
      BY <2>4, <1>2
    <3>2. part[k] = part[k - 1]
      <4>1. /\ part[k] = [i \in 1 .. M |-> IF Taken(k, i) THEN r[i] ELSE 0]
            /\ part[k - 1] = [i \in 1 .. M |-> IF Taken(k - 1, i) THEN r[i] ELSE 0]
        BY <2>1
      <4> HIDE DEF part, Taken, M
      <4> QED BY <3>1, <4>1
    <3> HIDE DEF part
    <3>3. t[k] = t[k - 1] /\ SumOf(part[k]) = SumOf(part[k - 1])
      BY <2>2, <2>4, <3>2
    <3> QED BY <2>1, <3>3
  <2>5. CASE q[k] # 0
    <3> DEFINE j == place[k]
    <3>1. j \in 1 .. M /\ q[k] <= r[j]
      BY <1>3, <2>5
    <3>2. ~Taken(k - 1, j) /\ Taken(k, j)
      BY <1>2, <1>4, <2>5
    <3>3. \A i : i # j => (Taken(k, i) <=> Taken(k - 1, i))
      BY <1>2
    <3>4. part[k - 1][j] = 0 /\ part[k][j] = r[j]
      BY <3>1, <3>2, <2>1
    <3>5. \A i \in 1 .. M : i # j => part[k][i] = part[k - 1][i]
      BY <3>3, <2>1
    <3> HIDE DEF part, j, Taken
    <3>7. /\ IsNumbers(part[k - 1]) /\ IsNumbers(part[k])
          /\ Len(part[k - 1]) = M /\ Len(part[k]) = Len(part[k - 1])
      BY <1>5, <2>1
    <3>6. SumOf(part[k]) = SumOf(part[k - 1]) + part[k][j]
      <4> DEFINE u == part[k - 1]
                 v == part[k]
      <4>1. /\ IsNumbers(u) /\ IsNumbers(v) /\ Len(v) = Len(u) /\ j \in 1 .. Len(u) /\ u[j] = 0
            /\ \A i \in 1 .. Len(u) : i # j => v[i] = u[i]
        BY <3>1, <3>4, <3>5, <3>7
      <4> HIDE DEF u, v
      <4>2. SumOf(v) = SumOf(u) + v[j]
        BY <4>1, SumChanged
      <4> QED BY <4>2 DEF u, v
    <3>8. q[k] <= r[j] /\ r[j] \in Nat
      BY <1>2, <2>1, <3>1
    <3>9. t[k - 1] <= SumOf(part[k - 1])
      BY <2>1
    <3>10. SumOf(part[k]) = SumOf(part[k - 1]) + r[j]
      BY <3>4, <3>6
    <3>11. t[k] <= SumOf(part[k])
      BY <2>2, <2>3, <3>8, <3>9, <3>10
    <3> QED BY <2>1, <3>11
  <2> QED BY <2>4, <2>5
<1> HIDE DEF S
<1>9. \A k \in 0 .. N : k \in S
  BY <1>2, <1>7, <1>8, Induction
<1>10. t[N] <= SumOf(part[N])
  BY <1>2, <1>9 DEF S
<1>11. SumOf(part[N]) <= SumOf(r)
  <2>1. \A j \in 1 .. M : part[N][j] <= r[j]
    BY <1>2
  <2> HIDE DEF part
  <2>2. IsNumbers(part[N]) /\ Len(part[N]) = Len(r)
    BY <1>2, <1>5 DEF M
  <2>3. IsNumbers(r) /\ \A j \in 1 .. Len(part[N]) : part[N][j] <= r[j]
    BY <2>1, <2>2 DEF M
  <2> DEFINE u == part[N]
  <2>4. IsNumbers(u) /\ Len(u) = Len(r) /\ IsNumbers(r) /\ \A j \in 1 .. Len(u) : u[j] <= r[j]
    BY <2>2, <2>3
  <2> HIDE DEF u
  <2>5. SumOf(u) <= SumOf(r)
    BY <2>4, SumOrdered
  <2> QED BY <2>5 DEF u
<1>12. SumOf(r) \in Nat
  BY SumType
<1>13. SumOf(part[N]) \in Nat /\ t[N] \in Nat
  <2>1. N \in 0 .. N
    BY <1>2
  <2> HIDE DEF part
  <2> QED BY <1>1, <1>6, <2>1
<1>14. SumOf(q) = t[N]
  BY <1>1
<1> HIDE DEF part
<1> DEFINE u == SumOf(part[N])
           v == t[N]
<1>15. v \in Nat /\ u \in Nat /\ v <= u /\ u <= SumOf(r) /\ SumOf(q) = v
  BY <1>10, <1>11, <1>13, <1>14
<1> HIDE DEF u, v
<1> QED BY <1>12, <1>15
=============================================================================
