----------------------------- MODULE TileProofs -----------------------------
(***************************************************************************)
(* Lemmas about lists, and about the rows of a tiled compound: whatever    *)
(* the sizes, the nodes packed lie in the width and height computed, and   *)
(* no two overlap.                                                         *)
(***************************************************************************)
EXTENDS TileRows, SetFacts, FiniteSetTheorems, TLAPS

------------------------------------------------------------------------------
(* Sequences.                                                               *)

\* Lists, and one with another element at r.
Lists(T) == Seq(T)
Put(s, r, e) == [s EXCEPT ![r] = e]

\* A list has its elements at 1 to its length.
LEMMA Listing ==
  ASSUME NEW T, NEW s \in Lists(T)
  PROVE  Len(s) \in Nat /\ DOMAIN s = 1..Len(s) /\ \A i \in DOMAIN s : s[i] \in T
BY DEF Lists

\* A list of things of another kind is a list of that kind.
LEMMA Relisting ==
  ASSUME NEW T, NEW s \in Lists(T), NEW U, \A i \in DOMAIN s : s[i] \in U
  PROVE  s \in Lists(U)
BY DEF Lists

\* What Append leaves where it was, and what it adds.
LEMMA Appending ==
  ASSUME NEW T, NEW s \in Lists(T), NEW e \in T
  PROVE  /\ Append(s, e) \in Lists(T) /\ Len(Append(s, e)) = Len(s) + 1
         /\ DOMAIN Append(s, e) = 1..Len(s) + 1
         /\ Append(s, e)[Len(s) + 1] = e
         /\ \A i \in 1..Len(s) : Append(s, e)[i] = s[i]
BY DEF Lists

\* What Put leaves where it was, and what it changes.
LEMMA Replacing ==
  ASSUME NEW T, NEW s \in Lists(T), NEW e \in T, NEW r \in DOMAIN s
  PROVE  /\ Put(s, r, e) \in Lists(T) /\ Len(Put(s, r, e)) = Len(s)
         /\ DOMAIN Put(s, r, e) = 1..Len(s)
         /\ Put(s, r, e)[r] = e
         /\ \A i \in 1..Len(s) : i # r => Put(s, r, e)[i] = s[i]
BY DEF Lists, Put

\* A list of one.
LEMMA Single ==
  ASSUME NEW T, NEW e \in T
  PROVE  /\ <<e>> \in Lists(T) /\ Len(<<e>>) = 1 /\ <<e>>[1] = e /\ DOMAIN <<e>> = {1}
BY DEF Lists

\* What the concatenation of two lists has, and where.
LEMMA Joining ==
  ASSUME NEW T, NEW s \in Lists(T), NEW t \in Lists(T)
  PROVE  /\ s \o t \in Lists(T) /\ Len(s \o t) = Len(s) + Len(t)
         /\ DOMAIN (s \o t) = 1..Len(s) + Len(t)
         /\ \A i \in 1..Len(s) : (s \o t)[i] = s[i]
         /\ \A i \in 1..Len(t) : (s \o t)[Len(s) + i] = t[i]
         /\ ToSet(s \o t) = ToSet(s) \cup ToSet(t)
<1>1. /\ s \o t \in Seq(T) /\ Len(s \o t) = Len(s) + Len(t) /\ Len(s) \in Nat /\ Len(t) \in Nat
      /\ \A i \in 1..Len(s) : (s \o t)[i] = s[i]
      /\ \A i \in 1..Len(t) : (s \o t)[Len(s) + i] = t[i]
      /\ DOMAIN (s \o t) = 1..Len(s) + Len(t) /\ DOMAIN s = 1..Len(s) /\ DOMAIN t = 1..Len(t)
  BY DEF Lists
<1>2. \A i \in 1..Len(s) + Len(t) : i \in 1..Len(s) \/ \E j \in 1..Len(t) : i = Len(s) + j
  <2> SUFFICES ASSUME NEW i \in 1..Len(s) + Len(t), i \notin 1..Len(s)
               PROVE  \E j \in 1..Len(t) : i = Len(s) + j
    OBVIOUS
  <2>1. i - Len(s) \in 1..Len(t) /\ i = Len(s) + (i - Len(s))
    BY <1>1
  <2> QED BY <2>1
<1>3. \A i \in 1..Len(s) : i \in 1..Len(s) + Len(t)
  BY <1>1
<1>4. \A i \in 1..Len(t) : Len(s) + i \in 1..Len(s) + Len(t)
  BY <1>1
<1> DEFINE u == s \o t
<1>5. /\ DOMAIN u = 1..Len(s) + Len(t)
      /\ \A i \in 1..Len(s) : u[i] = s[i]
      /\ \A i \in 1..Len(t) : u[Len(s) + i] = t[i]
  BY <1>1
<1> HIDE DEF u
<1>6. ToSet(u) = ToSet(s) \cup ToSet(t)
  <2>1. ASSUME NEW x \in ToSet(u) PROVE x \in ToSet(s) \cup ToSet(t)
    <3>1. PICK i \in 1..Len(s) + Len(t) : x = u[i]
      BY <1>5 DEF ToSet
    <3>2. CASE i \in 1..Len(s)
      <4>1. i \in DOMAIN s /\ x = s[i]
        BY <1>1, <1>5, <3>1, <3>2
      <4> QED BY <4>1 DEF ToSet
    <3>3. CASE i \notin 1..Len(s)
      <4>1. PICK j \in 1..Len(t) : i = Len(s) + j
        BY <1>2, <3>3
      <4>2. j \in DOMAIN t /\ x = t[j]
        BY <1>1, <1>5, <3>1, <4>1
      <4> QED BY <4>2 DEF ToSet
    <3> QED BY <3>2, <3>3
  <2>2. ASSUME NEW x \in ToSet(s) PROVE x \in ToSet(u)
    BY <1>1, <1>3, <1>5 DEF ToSet
  <2>3. ASSUME NEW x \in ToSet(t) PROVE x \in ToSet(u)
    <3>1. PICK i \in 1..Len(t) : x = t[i]
      BY <1>1 DEF ToSet
    <3>2. Len(s) + i \in DOMAIN u /\ u[Len(s) + i] = x
      BY <1>4, <1>5, <3>1
    <3> QED BY <3>2 DEF ToSet
  <2> QED BY <2>1, <2>2, <2>3
<1> QED BY <1>1, <1>6 DEF u, Lists

\* Reverse turns a list round.
LEMMA Reversing ==
  ASSUME NEW T, NEW s \in Lists(T)
  PROVE  /\ Reverse(s) \in Lists(T) /\ Len(Reverse(s)) = Len(s)
         /\ \A i \in 1..Len(s) : Reverse(s)[i] = s[Len(s) - i + 1]
<1>1. Len(s) \in Nat /\ \A i \in 1..Len(s) : s[i] \in T
  BY DEF Lists
<1>2. \A i \in 1..Len(s) : Len(s) - i + 1 \in 1..Len(s) /\ Reverse(s)[i] = s[Len(s) - i + 1]
  BY <1>1 DEF Reverse
<1>3. Reverse(s) = [i \in 1..Len(s) |-> s[Len(s) - i + 1]]
  BY DEF Reverse
<1>4. Reverse(s) \in [1..Len(s) -> T]
  <2> DEFINE k == Len(s)
             r(i) == s[k - i + 1]
  <2>1. \A i \in 1..k : r(i) \in T
    BY <1>1, <1>2
  <2>2. Reverse(s) = [i \in 1..k |-> r(i)]
    BY <1>3
  <2> HIDE DEF k, r
  <2>3. Reverse(s) \in [1..k -> T]
    BY <2>1, <2>2
  <2> QED BY <2>3 DEF k
<1>5. Reverse(s) \in Seq(T)
  <2> HIDE DEF Reverse
  <2> QED BY <1>1, <1>4
<1>6. Len(Reverse(s)) = Len(s)
  <2>1. DOMAIN Reverse(s) = 1..Len(s)
    BY <1>4
  <2> HIDE DEF Reverse
  <2> QED BY <1>1, <1>5, <2>1
<1> QED BY <1>2, <1>5, <1>6 DEF Lists

\* SetToSeq lists the elements of a finite set.
LEMMA ListingASet ==
  ASSUME NEW S, IsFiniteSet(S)
  PROVE  SetToSeq(S) \in Lists(S) /\ ToSet(SetToSeq(S)) = S
         /\ \A i, j \in DOMAIN SetToSeq(S) : SetToSeq(S)[i] = SetToSeq(S)[j] => i = j
<1> DEFINE n == Cardinality(S)
           f == SetToSeq(S)
<1>1. PICK k \in Nat : ExistsBijection(1..k, S)
  BY FS_NatBijection
<1>2. k = n
  BY <1>1, FS_CountingElements
<1>3. PICK h \in Bijection(1..n, S) : TRUE
  BY <1>1, <1>2 DEF ExistsBijection
<1>4. n \in Nat /\ h \in [1..n -> S] /\ \A a, b \in 1..n : h[a] = h[b] => a = b
  BY <1>1, <1>2, <1>3 DEF Bijection, Injection, IsInjective
<1>5. f \in [1..n -> S] /\ \A a, b \in 1..n : f[a] = f[b] => a = b
  <2>1. IsInjective(h)
    BY <1>4 DEF IsInjective
  <2>2. \E x \in [1..n -> S] : IsInjective(x)
    BY <1>4, <2>1
  <2>3. f \in [1..n -> S] /\ IsInjective(f)
    BY <2>2 DEF SetToSeq
  <2> QED BY <2>3 DEF IsInjective
<1> HIDE DEF f
<1>6. DOMAIN f = 1..n /\ f \in Lists(S)
  BY <1>4, <1>5 DEF Lists
<1>7. ToSet(f) = S
  <2>1. f \in Injection(1..n, S)
    BY <1>5 DEF Injection, IsInjective
  <2>2. Cardinality(1..n) = n
    <3> HIDE DEF n
    <3> QED BY <1>4, FS_Interval
  <2>3. f \in Surjection(1..n, S)
    BY <2>1, <2>2, FS_Injection
  <2>4. \A x \in S : \E i \in 1..n : f[i] = x
    BY <2>3 DEF Surjection
  <2> QED BY <1>5, <1>6, <2>4 DEF ToSet
<1> QED BY <1>5, <1>6, <1>7 DEF f

\* What FlattenSeq has after each of the lists.
Flattenings(T, seqs) ==
    {f \in [0..Len(seqs) -> Lists(T)] : f[0] = <<>> /\ \A i \in 1..Len(seqs) : f[i] = f[i - 1] \o seqs[i]}

\* FlattenSeq appends one list after another.
LEMMA Flattening ==
  ASSUME NEW T, NEW seqs \in Lists(Lists(T))
  PROVE  \E f \in Flattenings(T, seqs) : FlattenSeq(seqs) = f[Len(seqs)]
<1> DEFINE L == Lists(T)
           n == Len(seqs)
           next == [x \in L \X (1..n) |-> x[1] \o seqs[x[2]]]
           Solves(f) == f = [i \in 1..n |-> IF i = 1 THEN seqs[i] ELSE f[i - 1] \o seqs[i]]
           flatten == CHOOSE f : Solves(f)
<1>1. n \in Nat /\ \A i \in 1..n : seqs[i] \in L
  BY Listing
<1>2. <<>> \in L /\ \A s \in L : <<>> \o s = s
  BY DEF Lists
<1>3. \A s \in L : \A i \in 1..n : s \o seqs[i] \in L
  BY <1>1, Joining
<1> HIDE DEF L, n
<1>4. next \in Steps(L, n)
  BY <1>3 DEF Steps
<1>5. \A s \in L : \A i \in 1..n : next[<<s, i>>] = s \o seqs[i]
  OBVIOUS
<1> HIDE DEF next
<1>6. PICK f : f \in Computations(L, n, <<>>, next)
  BY <1>1, <1>2, <1>4, Iteration
<1>7. f \in [0..n -> L] /\ f[0] = <<>> /\ \A i \in 1..n : f[i] = f[i - 1] \o seqs[i]
  <2>1. f \in [0..n -> L] /\ f[0] = <<>> /\ \A i \in 1..n : f[i] = next[<<f[i - 1], i>>]
    BY <1>6 DEF Computations
  <2>2. \A i \in 1..n : f[i - 1] \in L
    BY <1>1, <2>1
  <2> QED BY <1>5, <2>1, <2>2
<1>8. FlattenSeq(seqs) = IF n = 0 THEN seqs ELSE flatten[n]
  BY DEF FlattenSeq, n
<1>9. CASE n = 0
  <2>1. seqs = <<>>
    BY <1>9 DEF n, Lists
  <2> QED BY <1>7, <1>8, <1>9, <2>1 DEF Flattenings, n, L
<1>10. CASE n # 0
  <2> DEFINE h == [i \in 1..n |-> f[i]]
  <2>1. \A i \in 1..n : h[i] = IF i = 1 THEN seqs[i] ELSE h[i - 1] \o seqs[i]
    <3> SUFFICES ASSUME NEW i \in 1..n PROVE f[i] = IF i = 1 THEN seqs[i] ELSE h[i - 1] \o seqs[i]
      OBVIOUS
    <3>1. CASE i = 1
      <4>1. f[i] = f[0] \o seqs[i]
        <5>1. f[i] = f[i - 1] \o seqs[i]
          BY <1>7
        <5>2. i - 1 = 0
          BY <3>1
        <5> QED BY <5>1, <5>2
      <4> QED BY <1>1, <1>2, <1>7, <3>1, <4>1
    <3>2. CASE i # 1
      <4>1. i - 1 \in 1..n
        BY <1>1, <3>2
      <4> QED BY <1>7, <3>2, <4>1
    <3> QED BY <3>1, <3>2
  <2>2. h = [i \in 1..n |-> h[i]]
    OBVIOUS
  <2> HIDE DEF h
  <2>3. Solves(h)
    BY <2>1, <2>2
  <2>4. Solves(flatten)
    <3> HIDE DEF Solves
    <3> QED BY <2>3
  <2> HIDE DEF flatten
  <2>5. \A i \in 1..n : flatten[i] = IF i = 1 THEN seqs[i] ELSE flatten[i - 1] \o seqs[i]
    BY <2>4
  <2> DEFINE S == {i \in 0..n : i = 0 \/ flatten[i] = f[i]}
  <2>6. ASSUME NEW i \in 1..n, i - 1 \in S PROVE i \in S
    <3>1. CASE i = 1
      <4>1. f[i] = f[0] \o seqs[i]
        <5>1. f[i] = f[i - 1] \o seqs[i]
          BY <1>7
        <5>2. i - 1 = 0
          BY <3>1
        <5> QED BY <5>1, <5>2
      <4> QED BY <1>1, <1>2, <1>7, <2>5, <3>1, <4>1
    <3>2. CASE i # 1
      <4>1. flatten[i - 1] = f[i - 1] /\ i \in 0..n
        BY <1>1, <2>6, <3>2
      <4> QED BY <1>7, <2>5, <3>2, <4>1
    <3> QED BY <3>1, <3>2
  <2>7. \A i \in 0..n : i \in S
    <3>1. 0 \in S
      BY <1>1
    <3> HIDE DEF S
    <3> QED BY <1>1, <2>6, <3>1, UpTo
  <2>8. flatten[n] = f[n]
    BY <1>1, <1>10, <2>7
  <2> QED BY <1>7, <1>8, <1>10, <2>8 DEF Flattenings, n, L
<1> QED BY <1>9, <1>10

------------------------------------------------------------------------------
(* The organization.                                                        *)

\* Every node of S has one place in the rows.
RowsOK(org, S) ==
    /\ org.rows \in Lists(Lists(S)) /\ \A r \in DOMAIN org.rows : Len(org.rows[r]) # 0
    /\ \A n \in S : \E r \in DOMAIN org.rows : \E i \in DOMAIN org.rows[r] : org.rows[r][i] = n
    /\ \A r, q \in DOMAIN org.rows : \A i \in DOMAIN org.rows[r], j \in DOMAIN org.rows[q] :
           org.rows[r][i] = org.rows[q][j] => r = q /\ i = j

\* left is where the nodes begin in their rows, if the width of a row is kept right.
LeftOK(org, sz, padding, left) ==
    \A r \in DOMAIN org.rows :
        /\ left[org.rows[r][1]] = padding
        /\ \A i \in DOMAIN org.rows[r] : i # 1 =>
              left[org.rows[r][i]] = left[org.rows[r][i - 1]] + Width(sz[org.rows[r][i - 1]]) + Gap
        /\ \A i \in DOMAIN org.rows[r] : i = Len(org.rows[r]) =>
              left[org.rows[r][i]] + Width(sz[org.rows[r][i]]) + padding = org.rowWidth[r]
WidthsOK(org, S, sz, padding) ==
    /\ org.rowWidth \in Lists(Nat) /\ Len(org.rowWidth) = Len(org.rows) /\ org.width \in Nat
    /\ \A r \in DOMAIN org.rows : org.rowWidth[r] =< org.width
    /\ \E left \in [S -> Nat] : LeftOK(org, sz, padding, left)

\* below[r] is where row r ends at the latest, if the height of the whole is kept right.
BelowOK(org, padding, below) ==
    /\ below[0] = padding /\ below[Len(org.rows)] + padding = org.height
    /\ \A r \in DOMAIN org.rows : below[r] = below[r - 1] + org.rowHeight[r]
HeightsOK(org, sz, padding) ==
    /\ org.rowHeight \in Lists(Nat) /\ Len(org.rowHeight) = Len(org.rows) /\ org.height \in Nat
    /\ \A r \in DOMAIN org.rows : \A i \in DOMAIN org.rows[r] :
           Needs(r, sz[org.rows[r][i]]) =< org.rowHeight[r]
    /\ \E below \in [0..Len(org.rows) -> Nat] : BelowOK(org, padding, below)

Organized(org, S, sz, padding) ==
    RowsOK(org, S) /\ WidthsOK(org, S, sz, padding) /\ HeightsOK(org, sz, padding)

Sized(S, sz) == \A n \in S : Width(sz[n]) \in Nat /\ Height(sz[n]) \in Nat

\* Nothing packed is organized.
LEMMA NoRowsOrganized ==
  ASSUME NEW sz, NEW padding \in Nat
  PROVE  Organized(NoRows(padding), {}, sz, padding)
<1> DEFINE org == NoRows(padding)
           below == [i \in 0..0 |-> padding]
           left == [n \in {} |-> 0]
<1>1. /\ org.rows = <<>> /\ org.rowWidth = <<>> /\ org.rowHeight = <<>> /\ org.width = 0
      /\ org.height = 2 * padding /\ DOMAIN org.rows = {} /\ Len(org.rows) = 0
  BY DEF NoRows, minWidth
<1> HIDE DEF org
<1>2. RowsOK(org, {})
  BY <1>1 DEF RowsOK, Lists
<1>3. WidthsOK(org, {}, sz, padding)
  <2>1. left \in [{} -> Nat] /\ LeftOK(org, sz, padding, left)
    BY <1>1 DEF LeftOK
  <2> HIDE DEF left
  <2>2. \E l \in [{} -> Nat] : LeftOK(org, sz, padding, l)
    BY <2>1
  <2>3. org.rowWidth \in Lists(Nat) /\ Len(org.rowWidth) = 0 /\ org.width \in Nat
    BY <1>1 DEF Lists
  <2> QED BY <1>1, <2>2, <2>3 DEF WidthsOK
<1>4. HeightsOK(org, sz, padding)
  <2>1. below \in [0..0 -> Nat] /\ BelowOK(org, padding, below)
    BY <1>1 DEF BelowOK
  <2> HIDE DEF below
  <2> QED BY <1>1, <2>1 DEF HeightsOK, Lists
<1> QED BY <1>2, <1>3, <1>4 DEF Organized, org

\* Places up to k + 1 but the last.
LEMMA NotTheLast ==
  ASSUME NEW k \in Nat, NEW q \in 1..k + 1, q # k + 1
  PROVE  q \in 1..k
OBVIOUS

\* The rows are after; row r has n at its end, and the rest is as it was.
Extended(S, rows, n, r, after) ==
    /\ after \in Lists(Lists(S \cup {n}))
    /\ Len(after) = IF r > Len(rows) THEN Len(rows) + 1 ELSE Len(rows)
    /\ \A q \in DOMAIN after : q # r => q \in DOMAIN rows /\ after[q] = rows[q]
    /\ r \in DOMAIN after
    /\ Len(after[r]) = IF r > Len(rows) THEN 1 ELSE Len(rows[r]) + 1
    /\ after[r][Len(after[r])] = n
    /\ \A i \in DOMAIN after[r] : i # Len(after[r]) =>
          r \in DOMAIN rows /\ i \in DOMAIN rows[r] /\ after[r][i] = rows[r][i]

\* createRow and insertNodeToRow: a new row with n alone.
LEMMA RowAppended ==
  ASSUME NEW S, NEW rows \in Lists(Lists(S)), NEW n
  PROVE  Extended(S, rows, n, Len(rows) + 1, Append(rows, <<n>>))
<1> DEFINE U == S \cup {n}
           last == <<n>>
           after == Append(rows, last)
           r == Len(rows) + 1
<1>1. /\ Len(rows) \in Nat /\ DOMAIN rows = 1..Len(rows)
      /\ \A q \in DOMAIN rows : rows[q] \in Lists(S)
  BY Listing
<1>2. \A s \in Lists(S) : s \in Lists(U)
  BY Listing, Relisting
<1>3. rows \in Lists(Lists(U))
  <2> HIDE DEF U
  <2> QED BY <1>1, <1>2, Relisting
<1>4. last \in Lists(U) /\ Len(last) = 1 /\ last[1] = n /\ DOMAIN last = {1}
  BY Single
<1> HIDE DEF last, U
<1>5. /\ after \in Lists(Lists(U)) /\ Len(after) = Len(rows) + 1 /\ DOMAIN after = 1..Len(rows) + 1
      /\ after[Len(rows) + 1] = last /\ \A q \in 1..Len(rows) : after[q] = rows[q]
  BY <1>3, <1>4, Appending
<1>6. r > Len(rows) /\ r \in 1..Len(rows) + 1
  BY <1>1
<1> HIDE DEF after
<1>7. \A q \in DOMAIN after : q # r => q \in DOMAIN rows /\ after[q] = rows[q]
  BY <1>1, <1>5, NotTheLast
<1> HIDE DEF r
<1>8. after[r] = last /\ r \in DOMAIN after /\ Len(after) = Len(rows) + 1
  BY <1>5, <1>6 DEF r
<1>9. \A i \in DOMAIN after[r] : i = Len(after[r])
  BY <1>4, <1>8
<1>10. Extended(S, rows, n, r, after)
  BY <1>4, <1>5, <1>6, <1>7, <1>8, <1>9 DEF Extended, U
<1> QED BY <1>10 DEF r, after, last

\* insertNodeToRow: n at the end of a row there is.
LEMMA RowReplaced ==
  ASSUME NEW S, NEW rows \in Lists(Lists(S)), NEW n, NEW r \in DOMAIN rows
  PROVE  Extended(S, rows, n, r, Put(rows, r, Append(rows[r], n)))
<1> DEFINE U == S \cup {n}
           row == Append(rows[r], n)
           after == Put(rows, r, row)
<1>1. /\ Len(rows) \in Nat /\ DOMAIN rows = 1..Len(rows)
      /\ \A q \in DOMAIN rows : rows[q] \in Lists(S)
  BY Listing
<1>2. \A s \in Lists(S) : s \in Lists(U)
  BY Listing, Relisting
<1>3. rows \in Lists(Lists(U)) /\ n \in U
  <2>1. n \in U
    OBVIOUS
  <2> HIDE DEF U
  <2> QED BY <1>1, <1>2, <2>1, Relisting
<1>4. rows[r] \in Lists(U)
  BY <1>1, <1>2
<1> HIDE DEF U
<1>5. Len(rows[r]) \in Nat /\ DOMAIN rows[r] = 1..Len(rows[r])
  BY <1>4, Listing
<1>6. /\ row \in Lists(U) /\ Len(row) = Len(rows[r]) + 1 /\ DOMAIN row = 1..Len(rows[r]) + 1
      /\ row[Len(rows[r]) + 1] = n /\ \A i \in 1..Len(rows[r]) : row[i] = rows[r][i]
  BY <1>3, <1>4, Appending
<1> HIDE DEF row
<1>7. \A i \in DOMAIN row : i # Len(row) => i \in DOMAIN rows[r] /\ row[i] = rows[r][i]
  BY <1>5, <1>6, NotTheLast
<1>8. /\ after \in Lists(Lists(U)) /\ Len(after) = Len(rows) /\ DOMAIN after = 1..Len(rows)
      /\ after[r] = row /\ \A q \in 1..Len(rows) : q # r => after[q] = rows[q]
  BY <1>3, <1>6, Replacing
<1> HIDE DEF after
<1>9. ~(r > Len(rows))
  BY <1>1
<1>10. Extended(S, rows, n, r, after)
  BY <1>1, <1>6, <1>7, <1>8, <1>9 DEF Extended, U
<1> QED BY <1>10 DEF after, row

\* The numbers are after; that of row r is v, and the rest is as it was.
Renumbered(list, r, v, after) ==
    /\ after \in Lists(Nat) /\ after[r] = v
    /\ Len(after) = IF r > Len(list) THEN Len(list) + 1 ELSE Len(list)
    /\ \A q \in DOMAIN after : q # r => q \in DOMAIN list /\ after[q] = list[q]

\* A new row's number.
LEMMA NumberAppended ==
  ASSUME NEW list \in Lists(Nat), NEW v \in Nat
  PROVE  Renumbered(list, Len(list) + 1, v, Append(list, v))
<1> DEFINE after == Append(list, v)
           r == Len(list) + 1
<1>1. Len(list) \in Nat /\ DOMAIN list = 1..Len(list) /\ r > Len(list)
  BY Listing
<1>2. /\ after \in Lists(Nat) /\ Len(after) = Len(list) + 1 /\ DOMAIN after = 1..Len(list) + 1
      /\ after[Len(list) + 1] = v /\ \A i \in 1..Len(list) : after[i] = list[i]
  BY Appending
<1> HIDE DEF after
<1>3. \A q \in DOMAIN after : q # r => q \in DOMAIN list /\ after[q] = list[q]
  BY <1>1, <1>2, NotTheLast
<1>4. Renumbered(list, r, v, after)
  BY <1>1, <1>2, <1>3 DEF Renumbered
<1> QED BY <1>4 DEF after

\* A new number for a row there is.
LEMMA NumberReplaced ==
  ASSUME NEW list \in Lists(Nat), NEW v \in Nat, NEW r \in DOMAIN list
  PROVE  Renumbered(list, r, v, Put(list, r, v))
<1>1. Len(list) \in Nat /\ DOMAIN list = 1..Len(list) /\ ~(r > Len(list))
  <2>1. Len(list) \in Nat /\ DOMAIN list = 1..Len(list)
    BY Listing
  <2> QED BY <2>1
<1>2. /\ Put(list, r, v) \in Lists(Nat) /\ Len(Put(list, r, v)) = Len(list)
      /\ DOMAIN Put(list, r, v) = 1..Len(list)
      /\ Put(list, r, v)[r] = v
      /\ \A i \in 1..Len(list) : i # r => Put(list, r, v)[i] = list[i]
  <2> DEFINE N == Nat
  <2>1. list \in Lists(N) /\ v \in N
    OBVIOUS
  <2> HIDE DEF N
  <2>2. /\ Put(list, r, v) \in Lists(N) /\ Len(Put(list, r, v)) = Len(list)
        /\ DOMAIN Put(list, r, v) = 1..Len(list)
        /\ Put(list, r, v)[r] = v
        /\ \A i \in 1..Len(list) : i # r => Put(list, r, v)[i] = list[i]
    BY <2>1, Replacing
  <2> QED BY <2>2 DEF N
<1> QED BY <1>1, <1>2 DEF Renumbered

------------------------------------------------------------------------------
(* What a node put into a row leaves right.                                 *)

\* The rows still have every node in one place.
LEMMA RowsKept ==
  ASSUME NEW S, NEW org, NEW n, n \notin S, NEW r \in 1..Len(org.rows) + 1, NEW after,
         RowsOK(org, S), Extended(S, org.rows, n, r, after.rows)
  PROVE  RowsOK(after, S \cup {n})
<1>1. /\ Len(org.rows) \in Nat /\ DOMAIN org.rows = 1..Len(org.rows)
      /\ \A q \in DOMAIN org.rows : org.rows[q] \in Lists(S)
  BY Listing DEF RowsOK
<1>2. \A q \in DOMAIN org.rows : /\ Len(org.rows[q]) \in Nat /\ DOMAIN org.rows[q] = 1..Len(org.rows[q])
                                 /\ \A i \in DOMAIN org.rows[q] : org.rows[q][i] \in S
  BY <1>1, Listing
<1>3. after.rows \in Lists(Lists(S \cup {n}))
  BY DEF Extended
<1>4. /\ Len(after.rows) \in Nat /\ DOMAIN after.rows = 1..Len(after.rows)
      /\ \A q \in DOMAIN after.rows : after.rows[q] \in Lists(S \cup {n})
  BY <1>3, Listing
<1>5. \A q \in DOMAIN after.rows : /\ Len(after.rows[q]) \in Nat
                                   /\ DOMAIN after.rows[q] = 1..Len(after.rows[q])
  BY <1>4, Listing
<1>6. \A q \in DOMAIN after.rows : Len(after.rows[q]) # 0
  BY <1>1, <1>2, <1>5 DEF Extended, RowsOK
<1>7. r \in DOMAIN after.rows /\ Len(after.rows[r]) \in DOMAIN after.rows[r]
      /\ after.rows[r][Len(after.rows[r])] = n
  BY <1>5, <1>6 DEF Extended
\* A place after is that of n, or the place a node of S had.
<1>8. \A q \in DOMAIN after.rows : \A i \in DOMAIN after.rows[q] :
         \/ q = r /\ i = Len(after.rows[r])
         \/ q \in DOMAIN org.rows /\ i \in DOMAIN org.rows[q] /\ after.rows[q][i] = org.rows[q][i]
  BY DEF Extended
\* A node of S has its place still.
<1>9. \A q \in DOMAIN org.rows : \A i \in DOMAIN org.rows[q] :
         q \in DOMAIN after.rows /\ i \in DOMAIN after.rows[q] /\ after.rows[q][i] = org.rows[q][i]
  <2> SUFFICES ASSUME NEW q \in DOMAIN org.rows, NEW i \in DOMAIN org.rows[q]
               PROVE  /\ q \in DOMAIN after.rows /\ i \in DOMAIN after.rows[q]
                      /\ after.rows[q][i] = org.rows[q][i]
    OBVIOUS
  <2>1. q \in DOMAIN after.rows
    BY <1>1, <1>4 DEF Extended
  <2>2. CASE q # r
    BY <2>1, <2>2 DEF Extended
  <2>3. CASE q = r
    <3>1. Len(after.rows[r]) = Len(org.rows[r]) + 1
      BY <1>1, <2>3 DEF Extended
    <3>2. i \in DOMAIN after.rows[r] /\ i # Len(after.rows[r])
      BY <1>2, <1>5, <2>1, <2>3, <3>1
    <3> QED BY <2>1, <2>3, <3>2 DEF Extended
  <2> QED BY <2>2, <2>3
<1>10. \A m \in S \cup {n} : \E q \in DOMAIN after.rows : \E i \in DOMAIN after.rows[q] :
          after.rows[q][i] = m
  <2> SUFFICES ASSUME NEW m \in S \cup {n}
               PROVE  \E q \in DOMAIN after.rows : \E i \in DOMAIN after.rows[q] : after.rows[q][i] = m
    OBVIOUS
  <2>1. CASE m = n
    BY <1>7, <2>1
  <2>2. CASE m \in S
    <3>1. PICK q \in DOMAIN org.rows : \E i \in DOMAIN org.rows[q] : org.rows[q][i] = m
      BY <2>2 DEF RowsOK
    <3>2. PICK i \in DOMAIN org.rows[q] : org.rows[q][i] = m
      BY <3>1
    <3> QED BY <1>9, <3>2
  <2> QED BY <2>1, <2>2
<1>11. \A p, q \in DOMAIN after.rows : \A i \in DOMAIN after.rows[p], j \in DOMAIN after.rows[q] :
          after.rows[p][i] = after.rows[q][j] => p = q /\ i = j
  <2> SUFFICES ASSUME NEW p \in DOMAIN after.rows, NEW q \in DOMAIN after.rows,
                      NEW i \in DOMAIN after.rows[p], NEW j \in DOMAIN after.rows[q],
                      after.rows[p][i] = after.rows[q][j]
               PROVE  p = q /\ i = j
    OBVIOUS
  <2>1. CASE p = r /\ i = Len(after.rows[r])
    BY <1>2, <1>7, <1>8, <2>1
  <2>2. CASE q = r /\ j = Len(after.rows[r])
    BY <1>2, <1>7, <1>8, <2>2
  <2>3. CASE ~(p = r /\ i = Len(after.rows[r])) /\ ~(q = r /\ j = Len(after.rows[r]))
    <3>1. /\ p \in DOMAIN org.rows /\ i \in DOMAIN org.rows[p]
          /\ q \in DOMAIN org.rows /\ j \in DOMAIN org.rows[q]
          /\ org.rows[p][i] = org.rows[q][j]
      BY <1>8, <2>3
    <3> QED BY <3>1 DEF RowsOK
  <2> QED BY <2>1, <2>2, <2>3
<1> QED BY <1>3, <1>6, <1>10, <1>11 DEF RowsOK

\* The widths are right with n after the last node of its row.
LEMMA WidthsKept ==
  ASSUME NEW S, NEW org, NEW sz, NEW padding \in Nat, NEW n, n \notin S, NEW r \in 1..Len(org.rows) + 1,
         RowsOK(org, S), WidthsOK(org, S, sz, padding), Sized(S \cup {n}, sz),
         NEW wide \in Nat,
         wide = (IF r > Len(org.rows) THEN 2 * padding ELSE org.rowWidth[r] + Gap) + Width(sz[n]),
         NEW after, RowsOK(after, S \cup {n}), Extended(S, org.rows, n, r, after.rows),
         Renumbered(org.rowWidth, r, wide, after.rowWidth), after.width = Larger(org.width, wide)
  PROVE  WidthsOK(after, S \cup {n}, sz, padding)
<1>1. /\ Len(org.rows) \in Nat /\ DOMAIN org.rows = 1..Len(org.rows)
      /\ \A q \in DOMAIN org.rows : org.rows[q] \in Lists(S)
  BY Listing DEF RowsOK
<1>2. \A q \in DOMAIN org.rows : /\ Len(org.rows[q]) \in Nat /\ DOMAIN org.rows[q] = 1..Len(org.rows[q])
                                 /\ \A i \in DOMAIN org.rows[q] : org.rows[q][i] \in S
  BY <1>1, Listing
<1>3. /\ DOMAIN org.rowWidth = 1..Len(org.rows)
      /\ \A q \in 1..Len(org.rows) : org.rowWidth[q] \in Nat
  BY Listing DEF WidthsOK
<1>4. /\ Len(after.rows) \in Nat /\ DOMAIN after.rows = 1..Len(after.rows)
      /\ \A q \in DOMAIN after.rows : after.rows[q] \in Lists(S \cup {n})
  BY Listing DEF Extended
<1>5. \A q \in DOMAIN after.rows : /\ Len(after.rows[q]) \in Nat /\ Len(after.rows[q]) # 0
                                   /\ DOMAIN after.rows[q] = 1..Len(after.rows[q])
  BY <1>4, Listing DEF RowsOK
<1>6. after.width \in Nat /\ org.width =< after.width /\ wide =< after.width
  BY DEF Larger, WidthsOK
<1>7. after.rowWidth \in Lists(Nat) /\ Len(after.rowWidth) = Len(after.rows)
  BY DEF Renumbered, Extended, WidthsOK
<1>8. /\ DOMAIN after.rowWidth = DOMAIN after.rows /\ after.rowWidth[r] = wide /\ r \in DOMAIN after.rows
      /\ \A q \in DOMAIN after.rows : q # r => /\ q \in DOMAIN org.rows /\ after.rows[q] = org.rows[q]
                                               /\ after.rowWidth[q] = org.rowWidth[q]
  BY <1>4, <1>7, Listing DEF Renumbered, Extended
<1>9. \A q \in DOMAIN after.rows : after.rowWidth[q] =< after.width
  <2> SUFFICES ASSUME NEW q \in DOMAIN after.rows PROVE after.rowWidth[q] =< after.width
    OBVIOUS
  <2>1. CASE q = r
    BY <1>6, <1>8, <2>1
  <2>2. CASE q # r
    <3>1. org.rowWidth[q] =< org.width /\ org.rowWidth[q] \in Nat /\ after.rowWidth[q] = org.rowWidth[q]
      BY <1>1, <1>3, <1>8, <2>2 DEF WidthsOK
    <3> QED BY <1>6, <3>1 DEF WidthsOK
  <2> QED BY <2>1, <2>2
<1>10. PICK left \in [S -> Nat] : LeftOK(org, sz, padding, left)
  BY DEF WidthsOK
<1> DEFINE new == r > Len(org.rows)
           begin == IF new THEN padding ELSE org.rowWidth[r] + Gap - padding
           left_after == [m \in S \cup {n} |-> IF m = n THEN begin ELSE left[m]]
\* Where the last node of the row ends.
<1>11. ~new => /\ r \in DOMAIN org.rows /\ Len(org.rows[r]) \in DOMAIN org.rows[r]
               /\ org.rows[r][Len(org.rows[r])] \in S
               /\ left[org.rows[r][Len(org.rows[r])]] + Width(sz[org.rows[r][Len(org.rows[r])]]) + padding
                      = org.rowWidth[r]
  <2> SUFFICES ASSUME ~new
               PROVE  /\ r \in DOMAIN org.rows /\ Len(org.rows[r]) \in DOMAIN org.rows[r]
                      /\ org.rows[r][Len(org.rows[r])] \in S
                      /\ left[org.rows[r][Len(org.rows[r])]] + Width(sz[org.rows[r][Len(org.rows[r])]])
                             + padding = org.rowWidth[r]
    OBVIOUS
  <2>1. r \in DOMAIN org.rows
    BY <1>1
  <2>2. Len(org.rows[r]) \in Nat /\ Len(org.rows[r]) # 0 /\ DOMAIN org.rows[r] = 1..Len(org.rows[r])
    BY <1>2, <2>1 DEF RowsOK
  <2>3. Len(org.rows[r]) \in DOMAIN org.rows[r]
    BY <2>2
  <2> QED BY <1>2, <1>10, <2>1, <2>3 DEF LeftOK
<1>12. begin \in Nat /\ begin + Width(sz[n]) + padding = wide
  <2>1. Width(sz[n]) \in Nat /\ Gap \in Nat
    BY TileAssumption DEF Sized
  <2>2. CASE new
    BY <2>1, <2>2
  <2>3. CASE ~new
    <3> DEFINE m == org.rows[r][Len(org.rows[r])]
    <3>1. m \in S /\ left[m] + Width(sz[m]) + padding = org.rowWidth[r]
      BY <1>11, <2>3
    <3> HIDE DEF m
    <3>2. left[m] \in Nat /\ Width(sz[m]) \in Nat
      BY <1>10, <3>1 DEF Sized
    <3>3. org.rowWidth[r] \in Nat /\ org.rowWidth[r] >= padding
      BY <3>1, <3>2
    <3> QED BY <2>1, <2>3, <3>3
  <2> QED BY <2>2, <2>3
<1> HIDE DEF begin
<1>13. /\ left_after[n] = begin /\ \A m \in S : left_after[m] = left[m]
       /\ left_after \in [S \cup {n} -> Nat]
  BY <1>10, <1>12
<1> HIDE DEF left_after
<1>14. /\ Len(after.rows[r]) = IF new THEN 1 ELSE Len(org.rows[r]) + 1
       /\ after.rows[r][Len(after.rows[r])] = n
       /\ \A i \in DOMAIN after.rows[r] : i # Len(after.rows[r]) =>
             r \in DOMAIN org.rows /\ i \in DOMAIN org.rows[r] /\ after.rows[r][i] = org.rows[r][i]
  BY DEF Extended
<1>15. LeftOK(after, sz, padding, left_after)
  <2> SUFFICES ASSUME NEW q \in DOMAIN after.rows
               PROVE  /\ left_after[after.rows[q][1]] = padding
                      /\ \A i \in DOMAIN after.rows[q] : i # 1 =>
                            left_after[after.rows[q][i]]
                              = left_after[after.rows[q][i - 1]] + Width(sz[after.rows[q][i - 1]]) + Gap
                      /\ \A i \in DOMAIN after.rows[q] : i = Len(after.rows[q]) =>
                            left_after[after.rows[q][i]] + Width(sz[after.rows[q][i]]) + padding
                              = after.rowWidth[q]
    BY DEF LeftOK
  <2>1. CASE q # r
    <3>1. q \in DOMAIN org.rows /\ after.rows[q] = org.rows[q] /\ after.rowWidth[q] = org.rowWidth[q]
      BY <1>8, <2>1
    <3>2. \A i \in DOMAIN org.rows[q] : left_after[org.rows[q][i]] = left[org.rows[q][i]]
      BY <1>2, <1>13, <3>1
    <3>3. 1 \in DOMAIN org.rows[q] /\ \A i \in DOMAIN org.rows[q] : i # 1 => i - 1 \in DOMAIN org.rows[q]
      BY <1>5, <3>1
    <3> QED BY <1>10, <3>1, <3>2, <3>3 DEF LeftOK
  <2>2. CASE q = r /\ new
    <3>1. Len(after.rows[q]) = 1 /\ after.rows[q][1] = n /\ \A i \in DOMAIN after.rows[q] : i = 1
      <4>1. Len(after.rows[q]) = 1
        BY <1>14, <2>2
      <4>2. DOMAIN after.rows[q] = 1..Len(after.rows[q])
        BY <1>5
      <4> QED BY <1>14, <2>2, <4>1, <4>2
    <3>2. begin = padding
      BY <2>2 DEF begin
    <3> QED BY <1>8, <1>12, <1>13, <2>2, <3>1, <3>2
  <2>3. CASE q = r /\ ~new
    <3> DEFINE k == Len(org.rows[r])
               row == org.rows[r]
               long == after.rows[r]
    <3>1. /\ r \in DOMAIN org.rows /\ k \in DOMAIN row /\ row[k] \in S
          /\ left[row[k]] + Width(sz[row[k]]) + padding = org.rowWidth[r]
      BY <1>11, <2>3
    <3>2. k \in Nat /\ k # 0 /\ DOMAIN row = 1..k /\ \A i \in DOMAIN row : row[i] \in S
      BY <1>2, <3>1 DEF RowsOK
    <3>3. /\ Len(long) = k + 1 /\ DOMAIN long = 1..k + 1 /\ long[k + 1] = n
          /\ \A i \in 1..k : long[i] = row[i]
      <4>1. Len(long) = k + 1 /\ DOMAIN long = 1..k + 1
        BY <1>5, <1>8, <1>14, <2>3
      <4>2. \A i \in 1..k : i \in DOMAIN long /\ i # Len(long)
        BY <3>2, <4>1
      <4> QED BY <1>14, <4>1, <4>2
    <3>4. \A i \in 1..k : left_after[long[i]] = left[row[i]]
      BY <1>13, <3>2, <3>3
    <3>5. begin = left[row[k]] + Width(sz[row[k]]) + Gap
      <4>1. left[row[k]] \in Nat /\ Width(sz[row[k]]) \in Nat /\ Gap \in Nat
        BY <1>10, <3>1, TileAssumption DEF Sized
      <4> QED BY <2>3, <3>1, <4>1 DEF begin
    <3>6. /\ left[row[1]] = padding
          /\ \A i \in 1..k : i # 1 => left[row[i]] = left[row[i - 1]] + Width(sz[row[i - 1]]) + Gap
      BY <1>10, <3>1, <3>2 DEF LeftOK
    <3> HIDE DEF k, row, long
    <3>7. left_after[long[1]] = padding
      BY <3>2, <3>4, <3>6
    <3>8. \A i \in 1..k + 1 : i # 1 => left_after[long[i]]
                                         = left_after[long[i - 1]] + Width(sz[long[i - 1]]) + Gap
      <4> SUFFICES ASSUME NEW i \in 1..k + 1, i # 1
                   PROVE  left_after[long[i]] = left_after[long[i - 1]] + Width(sz[long[i - 1]]) + Gap
        OBVIOUS
      <4>1. i - 1 \in 1..k
        BY <3>2
      <4>2. CASE i = k + 1
        <5>1. i - 1 = k /\ long[i] = n
          BY <3>2, <3>3, <4>2
        <5> QED BY <1>13, <3>3, <3>4, <3>5, <4>1, <5>1
      <4>3. CASE i # k + 1
        <5>1. i \in 1..k
          BY <3>2, <4>3
        <5> QED BY <3>3, <3>4, <3>6, <4>1, <5>1
      <4> QED BY <4>2, <4>3
    <3>9. left_after[long[k + 1]] + Width(sz[long[k + 1]]) + padding = after.rowWidth[r]
      BY <1>8, <1>12, <1>13, <3>3
    <3> QED BY <2>3, <3>3, <3>7, <3>8, <3>9 DEF long
  <2> QED BY <2>1, <2>2, <2>3
<1> QED BY <1>6, <1>7, <1>9, <1>13, <1>15 DEF WidthsOK

\* The heights are right with a row as high as its highest node needs.
LEMMA HeightsKept ==
  ASSUME NEW S, NEW org, NEW sz, NEW padding \in Nat, NEW n, NEW r \in 1..Len(org.rows) + 1,
         RowsOK(org, S), HeightsOK(org, sz, padding), Sized(S \cup {n}, sz),
         NEW high, high = IF r > Len(org.rows) THEN 0 ELSE org.rowHeight[r],
         NEW higher \in Nat, higher = Larger(high, Needs(r, sz[n])),
         NEW after, RowsOK(after, S \cup {n}), Extended(S, org.rows, n, r, after.rows),
         Renumbered(org.rowHeight, r, higher, after.rowHeight),
         after.height = org.height + (higher - high)
  PROVE  HeightsOK(after, sz, padding)
<1>1. Len(org.rows) \in Nat /\ DOMAIN org.rows = 1..Len(org.rows)
  BY Listing DEF RowsOK
<1>2. /\ DOMAIN org.rowHeight = 1..Len(org.rows)
      /\ \A q \in 1..Len(org.rows) : org.rowHeight[q] \in Nat
  BY Listing DEF HeightsOK
<1>3. /\ Len(after.rows) \in Nat /\ DOMAIN after.rows = 1..Len(after.rows)
      /\ Len(after.rows) = IF r > Len(org.rows) THEN Len(org.rows) + 1 ELSE Len(org.rows)
  BY Listing DEF Extended
<1>4. after.rowHeight \in Lists(Nat) /\ Len(after.rowHeight) = Len(after.rows)
  BY DEF Renumbered, Extended, HeightsOK
<1>5. /\ DOMAIN after.rowHeight = DOMAIN after.rows /\ after.rowHeight[r] = higher
      /\ r \in DOMAIN after.rows
      /\ \A q \in DOMAIN after.rows : q # r => /\ q \in DOMAIN org.rows /\ after.rows[q] = org.rows[q]
                                               /\ after.rowHeight[q] = org.rowHeight[q]
  BY <1>3, <1>4, Listing DEF Renumbered, Extended
<1>6. Needs(r, sz[n]) \in Nat
  BY <1>3, <1>5, TileAssumption DEF Needs, Sized
<1>7. high \in Nat /\ high =< higher /\ Needs(r, sz[n]) =< higher
  <2>1. high \in Nat
    BY <1>1, <1>2
  <2> QED BY <1>6, <2>1 DEF Larger
<1>8. PICK below \in [0..Len(org.rows) -> Nat] : BelowOK(org, padding, below)
  BY DEF HeightsOK
<1>9. \A q \in DOMAIN after.rows : \A i \in DOMAIN after.rows[q] :
         Needs(q, sz[after.rows[q][i]]) =< after.rowHeight[q]
  <2> SUFFICES ASSUME NEW q \in DOMAIN after.rows, NEW i \in DOMAIN after.rows[q]
               PROVE  Needs(q, sz[after.rows[q][i]]) =< after.rowHeight[q]
    OBVIOUS
  <2>1. CASE q # r
    BY <1>5, <2>1 DEF HeightsOK
  <2>2. CASE q = r /\ i = Len(after.rows[r])
    <3>1. after.rows[q][i] = n
      BY <2>2 DEF Extended
    <3> QED BY <1>5, <1>7, <2>2, <3>1
  <2>3. CASE q = r /\ i # Len(after.rows[r])
    <3>1. r \in DOMAIN org.rows /\ i \in DOMAIN org.rows[r] /\ after.rows[r][i] = org.rows[r][i]
      BY <2>3 DEF Extended
    <3>2. Needs(r, sz[org.rows[r][i]]) =< org.rowHeight[r]
      BY <3>1 DEF HeightsOK
    <3>3. org.rowHeight[r] = high
      BY <1>1, <3>1
    <3>4. Needs(r, sz[org.rows[r][i]]) \in Nat
      <4>1. org.rows[r] \in Lists(S)
        BY <3>1, Listing DEF RowsOK
      <4>2. org.rows[r][i] \in S
        BY <3>1, <4>1, Listing
      <4>3. r \in Nat /\ Gap \in Nat /\ Height(sz[org.rows[r][i]]) \in Nat
        BY <1>1, <3>1, <4>2, TileAssumption DEF Sized
      <4> QED BY <4>3 DEF Needs
    <3>5. /\ Needs(q, sz[after.rows[q][i]]) = Needs(r, sz[org.rows[r][i]])
          /\ after.rowHeight[q] = higher
      BY <1>5, <2>3, <3>1
    <3> QED BY <1>7, <3>2, <3>3, <3>4, <3>5
  <2> QED BY <2>1, <2>2, <2>3
<1> DEFINE new == r > Len(org.rows)
           lower == [q \in 0..Len(after.rows) |->
                        IF q < r THEN below[q]
                        ELSE IF new THEN below[q - 1] + higher ELSE below[q] + (higher - high)]
<1>10. /\ below[0] = padding /\ below[Len(org.rows)] + padding = org.height
       /\ \A q \in 1..Len(org.rows) : below[q] = below[q - 1] + org.rowHeight[q]
       /\ \A q \in 0..Len(org.rows) : below[q] \in Nat
  BY <1>1, <1>8 DEF BelowOK
<1>11. r \in Nat /\ r # 0 /\ 0 \in 0..Len(after.rows) /\ 0 \in 0..Len(org.rows)
  BY <1>1, <1>3
<1>12. CASE new
  <2>1. r = Len(org.rows) + 1 /\ Len(after.rows) = r /\ high = 0
    BY <1>1, <1>3, <1>12
  <2>2. lower[r] = below[Len(org.rows)] + higher
    <3>1. r \in 0..Len(after.rows) /\ ~(r < r) /\ r - 1 = Len(org.rows)
      BY <1>1, <1>11, <2>1
    <3> QED BY <1>12, <3>1
  <2>3. \A q \in 0..Len(org.rows) : lower[q] = below[q]
    <3> SUFFICES ASSUME NEW q \in 0..Len(org.rows) PROVE lower[q] = below[q]
      OBVIOUS
    <3>1. q \in 0..Len(after.rows) /\ q < r
      BY <1>1, <2>1
    <3> QED BY <3>1
  <2>4. lower \in [0..Len(after.rows) -> Nat]
    <3> SUFFICES ASSUME NEW q \in 0..Len(after.rows) PROVE lower[q] \in Nat
      OBVIOUS
    <3>1. CASE q = r
      BY <1>1, <1>10, <2>2, <3>1
    <3>2. CASE q # r
      <4>1. q \in 0..Len(org.rows)
        BY <1>1, <2>1, <3>2
      <4> QED BY <1>10, <2>3, <4>1
    <3> QED BY <3>1, <3>2
  <2> HIDE DEF lower
  <2>5. BelowOK(after, padding, lower)
    <3>1. lower[0] = padding
      BY <1>10, <1>11, <2>3
    <3>2. lower[Len(after.rows)] + padding = after.height
      BY <1>1, <1>10, <2>1, <2>2
    <3>3. \A q \in DOMAIN after.rows : lower[q] = lower[q - 1] + after.rowHeight[q]
      <4> SUFFICES ASSUME NEW q \in DOMAIN after.rows
                   PROVE  lower[q] = lower[q - 1] + after.rowHeight[q]
        OBVIOUS
      <4>1. q \in 1..Len(org.rows) + 1 /\ q - 1 \in 0..Len(org.rows)
        BY <1>1, <1>3, <2>1
      <4>2. CASE q = r
        BY <1>1, <1>5, <2>1, <2>2, <2>3, <4>1, <4>2
      <4>3. CASE q # r
        <5>1. q \in 1..Len(org.rows) /\ q \in 0..Len(org.rows)
          BY <1>1, <2>1, <4>1, <4>3
        <5> QED BY <1>5, <1>10, <2>3, <4>1, <4>3, <5>1
      <4> QED BY <4>2, <4>3
    <3> QED BY <3>1, <3>2, <3>3 DEF BelowOK
  <2>6. after.height \in Nat
    BY <1>7, <2>1 DEF HeightsOK
  <2> QED BY <1>4, <1>9, <2>4, <2>5, <2>6 DEF HeightsOK
<1>13. CASE ~new
  <2>1. r \in 1..Len(org.rows) /\ Len(after.rows) = Len(org.rows) /\ high = org.rowHeight[r]
    BY <1>1, <1>3, <1>13
  <2>2. \A q \in 0..Len(org.rows) : lower[q] = IF q < r THEN below[q] ELSE below[q] + (higher - high)
    BY <1>13, <2>1
  <2>3. lower \in [0..Len(after.rows) -> Nat]
    <3> SUFFICES ASSUME NEW q \in 0..Len(org.rows) PROVE lower[q] \in Nat
      BY <2>1
    <3>1. below[q] \in Nat /\ higher - high \in Nat
      BY <1>7, <1>10
    <3> QED BY <2>2, <3>1
  <2> HIDE DEF lower
  <2>4. BelowOK(after, padding, lower)
    <3>1. lower[0] = padding
      BY <1>10, <1>11, <2>2
    <3>2. lower[Len(after.rows)] + padding = after.height
      <4>1. Len(org.rows) \in 0..Len(org.rows) /\ ~(Len(org.rows) < r)
        BY <1>1, <1>11, <2>1, <1>13
      <4>2. lower[Len(after.rows)] = below[Len(org.rows)] + (higher - high)
        BY <2>1, <2>2, <4>1
      <4> DEFINE end == below[Len(org.rows)]
      <4>3. end \in Nat /\ end + padding = org.height
        BY <1>10, <4>1
      <4>4. lower[Len(after.rows)] = end + (higher - high)
        BY <4>2
      <4> HIDE DEF end
      <4>5. end + (higher - high) + padding = org.height + (higher - high)
        BY <1>7, <4>3
      <4> QED BY <4>4, <4>5
    <3>3. \A q \in DOMAIN after.rows : lower[q] = lower[q - 1] + after.rowHeight[q]
      <4> SUFFICES ASSUME NEW q \in 1..Len(org.rows)
                   PROVE  lower[q] = lower[q - 1] + after.rowHeight[q]
        BY <1>3, <2>1
      <4>1. q \in 0..Len(org.rows) /\ q - 1 \in 0..Len(org.rows) /\ q \in DOMAIN after.rows
        BY <1>1, <1>3, <2>1
      <4>2. below[q] = below[q - 1] + org.rowHeight[q] /\ below[q - 1] \in Nat /\ org.rowHeight[q] \in Nat
        BY <1>2, <1>10, <4>1
      <4>3. CASE q = r
        <5>1. lower[q] = below[q] + (higher - high) /\ lower[q - 1] = below[q - 1]
          BY <1>11, <2>2, <4>1, <4>3
        <5> QED BY <1>5, <1>7, <2>1, <4>2, <4>3, <5>1
      <4>4. CASE q < r
        <5>1. lower[q] = below[q] /\ lower[q - 1] = below[q - 1]
          BY <1>11, <2>2, <4>1, <4>4
        <5> QED BY <1>5, <1>11, <4>1, <4>2, <4>4, <5>1
      <4>5. CASE q > r
        <5>1. lower[q] = below[q] + (higher - high) /\ lower[q - 1] = below[q - 1] + (higher - high)
          BY <1>11, <2>2, <4>1, <4>5
        <5>2. after.rowHeight[q] = org.rowHeight[q]
          BY <1>5, <1>11, <4>1, <4>5
        <5> QED BY <1>7, <4>2, <5>1, <5>2
      <4> QED BY <1>11, <4>3, <4>4, <4>5
    <3> QED BY <3>1, <3>2, <3>3 DEF BelowOK
  <2>5. after.height \in Nat
    BY <1>7 DEF HeightsOK
  <2> QED BY <1>4, <1>9, <2>3, <2>4, <2>5 DEF HeightsOK
<1> QED BY <1>12, <1>13

\* A node of no row put into a row leaves the organization right.
LEMMA InsertKeeps ==
  ASSUME NEW S, NEW org, NEW sz, NEW padding \in Nat, NEW n, n \notin S,
         Organized(org, S, sz, padding), Sized(S \cup {n}, sz), NEW r \in 1..Len(org.rows) + 1
  PROVE  Organized(insertNodeToRow(org, n, sz[n], r, padding), S \cup {n}, sz, padding)
<1> DEFINE new == r > Len(org.rows)
           wide == (IF new THEN 2 * padding ELSE org.rowWidth[r] + Gap) + Width(sz[n])
           high == IF new THEN 0 ELSE org.rowHeight[r]
           higher == Larger(high, Needs(r, sz[n]))
           after == insertNodeToRow(org, n, sz[n], r, padding)
<1>1. RowsOK(org, S) /\ WidthsOK(org, S, sz, padding) /\ HeightsOK(org, sz, padding)
  BY DEF Organized
<1>2. Width(sz[n]) \in Nat /\ Height(sz[n]) \in Nat
  BY DEF Sized
<1>3. /\ org.rows \in Lists(Lists(S)) /\ org.rowWidth \in Lists(Nat) /\ org.rowHeight \in Lists(Nat)
      /\ Len(org.rowWidth) = Len(org.rows) /\ Len(org.rowHeight) = Len(org.rows)
  BY <1>1 DEF RowsOK, WidthsOK, HeightsOK
<1>4. /\ Len(org.rows) \in Nat /\ DOMAIN org.rows = 1..Len(org.rows)
      /\ DOMAIN org.rowWidth = 1..Len(org.rows) /\ DOMAIN org.rowHeight = 1..Len(org.rows)
      /\ \A q \in 1..Len(org.rows) : org.rowWidth[q] \in Nat /\ org.rowHeight[q] \in Nat
  BY <1>3, Listing
<1>5. r \in Nat /\ Gap \in Nat
  BY <1>4, TileAssumption
<1>6. CASE new
  <2>1. r = Len(org.rows) + 1
    BY <1>4, <1>6
  <2>2. wide \in Nat /\ high \in Nat /\ Needs(r, sz[n]) \in Nat
    BY <1>2, <1>5, <1>6 DEF Needs
  <2>3. higher \in Nat
    BY <2>2 DEF Larger
  <2>4. /\ after.rows = Append(org.rows, <<n>>) /\ after.rowWidth = Append(org.rowWidth, wide)
        /\ after.rowHeight = Append(org.rowHeight, higher)
        /\ after.width = Larger(org.width, wide) /\ after.height = org.height + (higher - high)
    BY <1>6 DEF insertNodeToRow, minWidth
  <2>5. Extended(S, org.rows, n, r, after.rows)
    BY <1>3, <2>1, <2>4, RowAppended
  <2>6. wide = (IF r > Len(org.rows) THEN 2 * padding ELSE org.rowWidth[r] + Gap) + Width(sz[n])
    OBVIOUS
  <2>7. high = (IF r > Len(org.rows) THEN 0 ELSE org.rowHeight[r]) /\ higher = Larger(high, Needs(r, sz[n]))
    OBVIOUS
  <2> HIDE DEF after, wide, high, higher
  <2>8. Renumbered(org.rowWidth, r, wide, after.rowWidth)
    BY <1>3, <2>1, <2>2, <2>4, NumberAppended
  <2>9. Renumbered(org.rowHeight, r, higher, after.rowHeight)
    BY <1>3, <2>1, <2>3, <2>4, NumberAppended
  <2>10. RowsOK(after, S \cup {n})
    BY <1>1, <2>5, RowsKept
  <2>11. WidthsOK(after, S \cup {n}, sz, padding)
    BY <1>1, <2>2, <2>4, <2>5, <2>6, <2>8, <2>10, WidthsKept
  <2>12. HeightsOK(after, sz, padding)
    BY <1>1, <2>3, <2>4, <2>5, <2>7, <2>9, <2>10, HeightsKept
  <2>13. Organized(after, S \cup {n}, sz, padding)
    BY <2>10, <2>11, <2>12 DEF Organized
  <2> QED BY <2>13 DEF after
<1>7. CASE ~new
  <2>1. r \in 1..Len(org.rows)
    BY <1>4, <1>7
  <2>2. wide \in Nat /\ high \in Nat /\ Needs(r, sz[n]) \in Nat
    BY <1>2, <1>4, <1>5, <1>7, <2>1 DEF Needs
  <2>3. higher \in Nat
    BY <2>2 DEF Larger
  <2>4. /\ after.rows = Put(org.rows, r, Append(org.rows[r], n))
        /\ after.rowWidth = Put(org.rowWidth, r, wide)
        /\ after.rowHeight = Put(org.rowHeight, r, higher)
        /\ after.width = Larger(org.width, wide) /\ after.height = org.height + (higher - high)
    BY <1>7 DEF insertNodeToRow, Put
  <2>5. Extended(S, org.rows, n, r, after.rows)
    BY <1>3, <1>4, <2>1, <2>4, RowReplaced
  <2>6. wide = (IF r > Len(org.rows) THEN 2 * padding ELSE org.rowWidth[r] + Gap) + Width(sz[n])
    OBVIOUS
  <2>7. high = (IF r > Len(org.rows) THEN 0 ELSE org.rowHeight[r]) /\ higher = Larger(high, Needs(r, sz[n]))
    OBVIOUS
  <2> HIDE DEF after, wide, high, higher
  <2>8. Renumbered(org.rowWidth, r, wide, after.rowWidth)
    BY <1>3, <1>4, <2>1, <2>2, <2>4, NumberReplaced
  <2>9. Renumbered(org.rowHeight, r, higher, after.rowHeight)
    BY <1>3, <1>4, <2>1, <2>3, <2>4, NumberReplaced
  <2>10. RowsOK(after, S \cup {n})
    BY <1>1, <2>5, RowsKept
  <2>11. WidthsOK(after, S \cup {n}, sz, padding)
    BY <1>1, <2>2, <2>4, <2>5, <2>6, <2>8, <2>10, WidthsKept
  <2>12. HeightsOK(after, sz, padding)
    BY <1>1, <2>3, <2>4, <2>5, <2>7, <2>9, <2>10, HeightsKept
  <2>13. Organized(after, S \cup {n}, sz, padding)
    BY <2>10, <2>11, <2>12 DEF Organized
  <2> QED BY <2>13 DEF after
<1> QED BY <1>6, <1>7

------------------------------------------------------------------------------
(* tileNodes.                                                               *)

\* A finite set has an element whose number is the largest.
LEMMA HasLargest ==
  ASSUME NEW S, IsFiniteSet(S), S # {}, NEW f, \A x \in S : f[x] \in Nat
  PROVE  \E x \in S : \A y \in S : f[y] =< f[x]
<1> DEFINE Good == {P \in SUBSET S : P # {} /\ \E x \in P : \A y \in P : f[y] =< f[x]}
           Sizes == {Cardinality(P) : P \in Good}
<1>1. PICK s \in S : TRUE
  OBVIOUS
<1>2. {s} \in Good
  BY <1>1
<1>3. ASSUME NEW P \in Good, NEW z \in S PROVE P \cup {z} \in Good
  <2>1. PICK x \in P : \A y \in P : f[y] =< f[x]
    BY <1>3
  <2>2. x \in S /\ f[x] \in Nat /\ f[z] \in Nat /\ \A y \in P : f[y] \in Nat
    BY <1>3, <2>1
  <2>3. CASE f[z] =< f[x]
    <3>1. \A y \in P \cup {z} : f[y] =< f[x]
      BY <2>1, <2>3
    <3> QED BY <2>1, <2>2, <3>1
  <2>4. CASE f[x] =< f[z]
    <3>1. \A y \in P \cup {z} : f[y] =< f[z]
      BY <2>1, <2>2, <2>4
    <3> QED BY <2>2, <3>1
  <2> QED BY <2>2, <2>3, <2>4
<1>4. /\ Sizes \subseteq Nat /\ Sizes # {} /\ Cardinality(S) \in Nat
      /\ \A x \in Sizes : x =< Cardinality(S)
  <2>1. \A P \in Good : Cardinality(P) \in Nat /\ Cardinality(P) =< Cardinality(S)
    BY FS_Subset, FS_CardinalityType
  <2>2. Cardinality(S) \in Nat
    BY FS_CardinalityType
  <2> HIDE DEF Good
  <2> QED BY <1>2, <2>1, <2>2
<1>5. PICK P \in Good : \A R \in Good : Cardinality(R) =< Cardinality(P)
  <2>1. Max(Sizes) \in Sizes /\ \A x \in Sizes : x =< Max(Sizes)
    <3> HIDE DEF Sizes
    <3> QED BY <1>4, MaxIsGreatest
  <2> HIDE DEF Good
  <2> QED BY <2>1
<1>6. P = S
  <2> SUFFICES ASSUME P # S PROVE FALSE
    OBVIOUS
  <2>1. PICK z \in S \ P : TRUE
    BY <1>5
  <2>2. IsFiniteSet(P) /\ Cardinality(P) \in Nat
    BY <1>5, FS_Subset, FS_CardinalityType
  <2>3. Cardinality(P \cup {z}) = Cardinality(P) + 1
    BY <2>1, <2>2, FS_AddElement
  <2>4. Cardinality(P \cup {z}) =< Cardinality(P)
    BY <1>3, <1>5, <2>1
  <2> QED BY <2>2, <2>3, <2>4
<1> QED BY <1>5, <1>6

\* tileNodes takes a node that is left.
LEMMA LargestIsThere ==
  ASSUME NEW S, IsFiniteSet(S), S # {}, NEW sz, Sized(S, sz)
  PROVE  Largest(S, sz) \in S
<1> DEFINE f == [n \in S |-> Width(sz[n]) * Height(sz[n])]
<1>1. \A n \in S : f[n] \in Nat
  BY DEF Sized
<1>2. PICK x \in S : \A y \in S : f[y] =< f[x]
  <2> HIDE DEF f
  <2> QED BY <1>1, HasLargest
<1>3. \E x_ \in S : \A m \in S : Width(sz[m]) * Height(sz[m]) =< Width(sz[x_]) * Height(sz[x_])
  <2>1. \A m \in S : f[m] = Width(sz[m]) * Height(sz[m])
    OBVIOUS
  <2> HIDE DEF f
  <2> QED BY <1>2, <2>1
<1> QED BY <1>3 DEF Largest

\* canAddHorizontal picks a row there is, or the next one.
LEMMA RowIsThere ==
  ASSUME NEW S, NEW org, NEW sz, NEW padding, Organized(org, S, sz, padding), NEW s
  PROVE  RowFor(org, s) \in 1..Len(org.rows) + 1
<1>1. Len(org.rows) \in Nat /\ DOMAIN org.rows = 1..Len(org.rows)
  BY Listing DEF Organized, RowsOK
<1>2. \A q \in 1..Len(org.rows) : org.rowWidth[q] \in Nat
  BY Listing DEF Organized, WidthsOK
<1>3. org.rows # <<>> => Len(org.rows) # 0
  BY DEF Organized, RowsOK, Lists
<1>4. org.rows # <<>> => ShortestRow(org) \in DOMAIN org.rows
  <2> SUFFICES ASSUME org.rows # <<>> PROVE ShortestRow(org) \in DOMAIN org.rows
    OBVIOUS
  <2> DEFINE D == DOMAIN org.rows
             T == {org.rowWidth[q] : q \in D}
             R == {q \in D : \A p \in D : org.rowWidth[q] =< org.rowWidth[p]}
  <2>1. T \subseteq Nat /\ T # {} /\ 1 \in D
    BY <1>1, <1>2, <1>3
  <2>2. PICK w \in T : \A v \in T : w =< v
    <3> HIDE DEF T
    <3> QED BY <2>1, LeastNatural
  <2>3. R \subseteq Nat /\ R # {}
    BY <1>1, <2>2
  <2>4. PICK r \in R : \A q \in R : r =< q
    <3> HIDE DEF R
    <3> QED BY <2>3, LeastNatural
  <2>5. \A q \in 1..(r - 1) : org.rowWidth[r] < org.rowWidth[q]
    <3> SUFFICES ASSUME NEW q \in 1..(r - 1) PROVE org.rowWidth[r] < org.rowWidth[q]
      OBVIOUS
    <3>1. r \in 1..Len(org.rows) /\ q \in 1..Len(org.rows) /\ ~(r =< q)
      BY <1>1, <2>4
    <3>2. q \notin R
      BY <2>4, <3>1
    <3>3. PICK p \in D : ~(org.rowWidth[q] =< org.rowWidth[p])
      BY <1>1, <3>1, <3>2
    <3>4. org.rowWidth[r] =< org.rowWidth[p]
      BY <2>4
    <3> QED BY <1>1, <1>2, <3>1, <3>3, <3>4
  <2> QED BY <2>4, <2>5 DEF ShortestRow
<1> HIDE DEF Organized
<1>5. CASE org.rows = <<>>
  <2>1. RowFor(org, s) = 1
    BY <1>5 DEF RowFor
  <2> QED BY <1>1, <2>1
<1>6. CASE org.rows # <<>>
  <2>1. RowFor(org, s) \in DOMAIN org.rows \/ RowFor(org, s) = Len(org.rows) + 1
    BY <1>4, <1>6 DEF RowFor
  <2> QED BY <1>1, <2>1
<1> QED BY <1>5, <1>6

\* One more node is taken from those left and put into a row.
Packed(before, sz, padding) ==
    [left |-> before.left \ {Largest(before.left, sz)},
     org |-> insertNodeToRow(before.org, Largest(before.left, sz), sz[Largest(before.left, sz)],
                             RowFor(before.org, sz[Largest(before.left, sz)]), padding)]
Packing(S, sz, padding) ==
    CHOOSE f : f = [k \in 0..Cardinality(S) |->
        IF k = 0 THEN [left |-> S, org |-> NoRows(padding)] ELSE Packed(f[k - 1], sz, padding)]

\* tileNodes packs one node after another.
LEMMA PackingUnfolds ==
  ASSUME NEW S, IsFiniteSet(S), NEW sz, NEW padding
  PROVE  /\ tileNodes(S, sz, padding) = Packing(S, sz, padding)[Cardinality(S)].org
         /\ Packing(S, sz, padding)[0] = [left |-> S, org |-> NoRows(padding)]
         /\ \A k \in 1..Cardinality(S) :
               Packing(S, sz, padding)[k] = Packed(Packing(S, sz, padding)[k - 1], sz, padding)
<1> DEFINE N == Cardinality(S)
           base == [left |-> S, org |-> NoRows(padding)]
           step(p) == Packed(p, sz, padding)
           pack == Packing(S, sz, padding)
           Fits(f, k) == f = [i \in 0..k |-> IF i = 0 THEN base ELSE step(f[i - 1])]
           Upto == {k \in 0..N : \E f : Fits(f, k)}
<1>1. N \in Nat
  BY FS_CardinalityType
<1>2. tileNodes(S, sz, padding) = pack[N].org
  BY DEF tileNodes, Packing, Packed, shiftToLastRow
<1>3. pack = CHOOSE f : Fits(f, N)
  BY DEF Packing
<1> HIDE DEF N, base, step, pack
<1>4. 0 \in Upto
  <2> DEFINE f == [i \in 0..0 |-> base]
  <2>1. Fits(f, 0)
    OBVIOUS
  <2> HIDE DEF f
  <2> QED BY <1>1, <2>1
<1>5. ASSUME NEW k \in 1..N, k - 1 \in Upto PROVE k \in Upto
  <2>1. PICK f : Fits(f, k - 1)
    BY <1>5
  <2> DEFINE last == step(f[k - 1])
             h == [i \in 0..k |-> IF i = k THEN last ELSE f[i]]
  <2>2. DOMAIN f = 0..k - 1 /\ \A i \in 0..k - 1 : f[i] = IF i = 0 THEN base ELSE step(f[i - 1])
    BY <2>1
  <2>3. \A i \in 0..k : h[i] = IF i = 0 THEN base ELSE step(h[i - 1])
    <3> SUFFICES ASSUME NEW i \in 0..k PROVE h[i] = IF i = 0 THEN base ELSE step(h[i - 1])
      OBVIOUS
    <3>1. CASE i = k
      <4>1. i # 0 /\ i - 1 \in 0..k /\ i - 1 # k
        BY <1>1, <3>1
      <4>2. h[i] = last /\ h[i - 1] = f[i - 1]
        BY <3>1, <4>1
      <4> QED BY <3>1, <4>1, <4>2
    <3>2. CASE i # k /\ i # 0
      <4>1. i \in 0..k - 1 /\ i - 1 \in 0..k /\ i - 1 # k
        BY <1>1, <3>2
      <4>2. h[i] = f[i] /\ h[i - 1] = f[i - 1]
        BY <3>2, <4>1
      <4> QED BY <2>2, <3>2, <4>1, <4>2
    <3>3. CASE i # k /\ i = 0
      <4>1. i \in 0..k - 1
        BY <1>1, <3>3
      <4> QED BY <2>2, <3>3, <4>1
    <3> QED BY <3>1, <3>2, <3>3
  <2>4. h = [i \in 0..k |-> h[i]]
    OBVIOUS
  <2> HIDE DEF h
  <2>5. Fits(h, k)
    BY <2>3, <2>4
  <2>6. k \in 0..N
    BY <1>1
  <2> QED BY <2>5, <2>6
<1>6. N \in Upto
  <2>1. \A i \in 0..N : i \in Upto
    <3> HIDE DEF Upto
    <3> QED BY <1>1, <1>4, <1>5, UpTo
  <2> QED BY <1>1, <2>1
<1>7. Fits(pack, N)
  BY <1>3, <1>6
<1>8. pack[0] = base /\ \A k \in 1..N : pack[k] = step(pack[k - 1])
  <2>1. \A i \in 0..N : pack[i] = IF i = 0 THEN base ELSE step(pack[i - 1])
    BY <1>7
  <2>2. 0 \in 0..N /\ \A k \in 1..N : k \in 0..N /\ k # 0
    BY <1>1
  <2> QED BY <2>1, <2>2
<1> QED BY <1>2, <1>8 DEF N, base, step, pack

\* The nodes of a compound are all packed, and the packing is organized.
LEMMA TilesOrganized ==
  ASSUME NEW S, IsFiniteSet(S), NEW sz, Sized(S, sz), NEW padding \in Nat
  PROVE  Organized(tileNodes(S, sz, padding), S, sz, padding)
<1> DEFINE N == Cardinality(S)
           pack == Packing(S, sz, padding)
           Good(k) == /\ pack[k].left \in SUBSET S /\ Cardinality(pack[k].left) = N - k
                      /\ Organized(pack[k].org, S \ pack[k].left, sz, padding)
           Upto == {k \in 0..N : Good(k)}
<1>1. /\ tileNodes(S, sz, padding) = pack[N].org
      /\ pack[0] = [left |-> S, org |-> NoRows(padding)]
      /\ \A k \in 1..N : pack[k] = Packed(pack[k - 1], sz, padding)
  BY PackingUnfolds
<1>2. N \in Nat
  BY FS_CardinalityType
<1> HIDE DEF pack
<1>3. 0 \in Upto
  <2>1. pack[0].left = S /\ pack[0].org = NoRows(padding) /\ S \ S = {}
    BY <1>1
  <2>2. Organized(pack[0].org, S \ pack[0].left, sz, padding)
    BY <2>1, NoRowsOrganized
  <2> QED BY <1>2, <2>1, <2>2
<1>4. ASSUME NEW k \in 1..N, k - 1 \in Upto PROVE k \in Upto
  <2> DEFINE left == pack[k - 1].left
             org == pack[k - 1].org
             n == Largest(left, sz)
             r == RowFor(org, sz[n])
  <2>1. left \in SUBSET S /\ Cardinality(left) = N - (k - 1) /\ Organized(org, S \ left, sz, padding)
    BY <1>4
  <2>2. IsFiniteSet(left) /\ left # {} /\ Sized(left, sz)
    <3>1. Cardinality(left) # 0
      BY <1>2, <2>1
    <3>2. IsFiniteSet(left)
      BY <2>1, FS_Subset
    <3> QED BY <2>1, <3>1, <3>2, FS_EmptySet DEF Sized
  <2>3. /\ pack[k].left = left \ {n}
        /\ pack[k].org = insertNodeToRow(org, n, sz[n], r, padding)
    <3> DEFINE p == pack[k - 1]
    <3>1. pack[k] = Packed(p, sz, padding)
      BY <1>1
    <3> HIDE DEF p
    <3>2. /\ pack[k].left = p.left \ {Largest(p.left, sz)}
          /\ pack[k].org = insertNodeToRow(p.org, Largest(p.left, sz), sz[Largest(p.left, sz)],
                                           RowFor(p.org, sz[Largest(p.left, sz)]), padding)
      BY <3>1 DEF Packed
    <3> QED BY <3>2 DEF p
  <2> HIDE DEF left, org
  <2>4. n \in left
    BY <2>2, LargestIsThere
  <2>5. r \in 1..Len(org.rows) + 1
    BY <2>1, RowIsThere
  <2> HIDE DEF n, r
  <2>6. S \ pack[k].left = (S \ left) \cup {n} /\ n \notin S \ left /\ pack[k].left \in SUBSET S
    BY <2>1, <2>3, <2>4
  <2>7. Sized((S \ left) \cup {n}, sz)
    BY <2>1, <2>4 DEF Sized
  <2>8. Organized(pack[k].org, (S \ left) \cup {n}, sz, padding)
    <3> DEFINE done == S \ left
    <3>1. n \notin done /\ Organized(org, done, sz, padding) /\ Sized(done \cup {n}, sz)
      BY <2>1, <2>6, <2>7
    <3> HIDE DEF done
    <3>2. Organized(insertNodeToRow(org, n, sz[n], r, padding), done \cup {n}, sz, padding)
      BY <2>5, <3>1, InsertKeeps
    <3> QED BY <2>3, <3>2 DEF done
  <2>9. Cardinality(pack[k].left) = N - k
    <3>1. Cardinality(left \ {n}) = Cardinality(left) - 1
      BY <2>2, <2>4, FS_RemoveElement
    <3> QED BY <1>2, <2>1, <2>3, <3>1
  <2>10. k \in 0..N
    BY <1>2
  <2> QED BY <2>6, <2>8, <2>9, <2>10
<1>5. Good(N)
  <2>1. \A i \in 0..N : i \in Upto
    <3> HIDE DEF Upto
    <3> QED BY <1>2, <1>3, <1>4, UpTo
  <2>2. N \in 0..N
    BY <1>2
  <2> QED BY <2>1, <2>2
<1>6. pack[N].left = {}
  <2>1. Cardinality(pack[N].left) = 0 /\ IsFiniteSet(pack[N].left)
    BY <1>2, <1>5, FS_Subset
  <2> HIDE DEF N
  <2> QED BY <2>1, FS_EmptySet
<1>7. S \ pack[N].left = S
  BY <1>6
<1> QED BY <1>1, <1>5, <1>7

------------------------------------------------------------------------------
(* Where the nodes come to lie.                                             *)

\* Sizes that agree on the nodes make the same organization right.
LEMMA SameSizes ==
  ASSUME NEW S, NEW org, NEW sz, NEW other, NEW padding, Organized(org, S, sz, padding),
         \A n \in S : other[n] = sz[n]
  PROVE  Organized(org, S, other, padding)
<1>1. \A r \in DOMAIN org.rows : \A i \in DOMAIN org.rows[r] : org.rows[r][i] \in S
  <2>1. \A r \in DOMAIN org.rows : org.rows[r] \in Lists(S)
    BY Listing DEF Organized, RowsOK
  <2> QED BY <2>1, Listing
<1>2. RowsOK(org, S) /\ WidthsOK(org, S, sz, padding) /\ HeightsOK(org, sz, padding)
  BY DEF Organized
<1>3. HeightsOK(org, other, padding)
  BY <1>1, <1>2 DEF HeightsOK
<1>4. WidthsOK(org, S, other, padding)
  <2>1. PICK left \in [S -> Nat] : LeftOK(org, sz, padding, left)
    BY <1>2 DEF WidthsOK
  <2>2. \A r \in DOMAIN org.rows : \A i \in DOMAIN org.rows[r] : i # 1 => i - 1 \in DOMAIN org.rows[r]
    <3> SUFFICES ASSUME NEW r \in DOMAIN org.rows, NEW i \in DOMAIN org.rows[r], i # 1
                 PROVE  i - 1 \in DOMAIN org.rows[r]
      OBVIOUS
    <3>1. org.rows[r] \in Lists(S)
      BY <1>2, Listing DEF RowsOK
    <3>2. Len(org.rows[r]) \in Nat /\ DOMAIN org.rows[r] = 1..Len(org.rows[r])
      BY <3>1, Listing
    <3> QED BY <3>2
  <2>3. LeftOK(org, other, padding, left)
    BY <1>1, <2>1, <2>2 DEF LeftOK
  <2> QED BY <1>2, <2>3 DEF WidthsOK
<1> QED BY <1>2, <1>3, <1>4 DEF Organized

\* Each begins where the one before it ends at the earliest: so do all after it.
LEMMA Chain ==
  ASSUME NEW k \in Nat, NEW f, NEW w, \A i \in 1..k : f[i] \in Nat /\ w[i] \in Nat,
         \A i \in 1..k : i # 1 => f[i - 1] + w[i - 1] =< f[i]
  PROVE  \A i, j \in 1..k : i < j => f[i] + w[i] =< f[j]
<1> DEFINE S == {j \in 0..k : \A i \in 1..k : i < j => f[i] + w[i] =< f[j]}
<1>1. 0 \in S
  OBVIOUS
<1>2. ASSUME NEW j \in 1..k, j - 1 \in S PROVE j \in S
  <2> SUFFICES ASSUME NEW i \in 1..k, i < j PROVE f[i] + w[i] =< f[j]
    OBVIOUS
  <2>1. j # 1 /\ j - 1 \in 1..k
    OBVIOUS
  <2>2. f[j - 1] + w[j - 1] =< f[j] /\ f[j] \in Nat /\ f[j - 1] \in Nat /\ w[j - 1] \in Nat
    BY <2>1
  <2>3. CASE i = j - 1
    BY <2>2, <2>3
  <2>4. CASE i # j - 1
    <3>1. i < j - 1
      BY <2>4
    <3>2. f[i] + w[i] =< f[j - 1]
      BY <1>2, <3>1
    <3>3. f[i] \in Nat /\ w[i] \in Nat
      OBVIOUS
    <3> QED BY <2>2, <3>2, <3>3
  <2> QED BY <2>3, <2>4
<1>3. \A j \in 0..k : j \in S
  <2> HIDE DEF S
  <2> QED BY <1>1, <1>2, UpTo
<1> SUFFICES ASSUME NEW i \in 1..k, NEW j \in 1..k, i < j PROVE f[i] + w[i] =< f[j]
  OBVIOUS
<1>4. j \in S
  BY <1>3
<1> QED BY <1>4

\* adjustLocations gives a node of a row the place its left in the row says.
LEMMA LeftInRow ==
  ASSUME NEW S, NEW row \in Lists(S), NEW sz, NEW padding, NEW left,
         left[row[1]] = padding,
         \A i \in DOMAIN row : i # 1 => left[row[i]] = left[row[i - 1]] + Width(sz[row[i - 1]]) + Gap,
         NEW i \in DOMAIN row
  PROVE  TileLeft(row, sz, padding, i) = left[row[i]]
<1> DEFINE k == Len(row)
           next(f, j) == f[j - 1] + Width(sz[row[j - 1]]) + Gap
           Fits(f) == f = [j \in DOMAIN row |-> IF j = 1 THEN padding ELSE next(f, j)]
           top == CHOOSE f : Fits(f)
           known == [j \in DOMAIN row |-> left[row[j]]]
<1>1. k \in Nat /\ DOMAIN row = 1..k
  BY Listing
<1>2. TileLeft(row, sz, padding, i) = top[i]
  BY DEF TileLeft
<1>3. Fits(known)
  <2>1. \A j \in DOMAIN row : known[j] = IF j = 1 THEN padding ELSE next(known, j)
    <3> SUFFICES ASSUME NEW j \in DOMAIN row PROVE known[j] = IF j = 1 THEN padding ELSE next(known, j)
      OBVIOUS
    <3>1. j # 1 => j - 1 \in DOMAIN row
      BY <1>1
    <3> QED BY <3>1
  <2>2. known = [j \in DOMAIN row |-> known[j]]
    OBVIOUS
  <2> HIDE DEF known, next
  <2> QED BY <2>1, <2>2
<1>4. Fits(top)
  <2> HIDE DEF Fits
  <2> QED BY <1>3
<1>5. \A j \in DOMAIN row : top[j] = IF j = 1 THEN padding ELSE next(top, j)
  <2> HIDE DEF top, next
  <2> QED BY <1>4
<1> HIDE DEF top, known
<1> DEFINE Same == {j \in 0..k : j # 0 => top[j] = left[row[j]]}
<1>6. 0 \in Same
  BY <1>1
<1>7. ASSUME NEW j \in 1..k, j - 1 \in Same PROVE j \in Same
  <2>1. j \in DOMAIN row /\ j \in 0..k
    BY <1>1
  <2>2. CASE j = 1
    BY <1>5, <2>1, <2>2
  <2>3. CASE j # 1
    <3>1. j - 1 # 0 /\ top[j - 1] = left[row[j - 1]]
      BY <1>7, <2>3
    <3>2. top[j] = left[row[j - 1]] + Width(sz[row[j - 1]]) + Gap
      BY <1>5, <2>1, <2>3, <3>1
    <3> QED BY <2>1, <2>3, <3>2
  <2> QED BY <2>2, <2>3
<1>8. \A j \in 0..k : j \in Same
  <2> HIDE DEF Same, k
  <2> QED BY <1>1, <1>6, <1>7, UpTo
<1>9. i \in Same /\ i # 0
  BY <1>1, <1>8
<1> QED BY <1>2, <1>9

\* The tallest node of a row needs no more than the height of the row.
LEMMA TallestFits ==
  ASSUME NEW S, NEW row \in Lists(S), Len(row) # 0, NEW sz, Sized(S, sz), NEW b \in Nat,
         \A i \in DOMAIN row : Height(sz[row[i]]) =< b
  PROVE  /\ Tallest(row, sz) \in Nat /\ Tallest(row, sz) =< b
         /\ \A i \in DOMAIN row : Height(sz[row[i]]) =< Tallest(row, sz)
<1> DEFINE T == {Height(sz[n]) : n \in ToSet(row)}
<1>1. Len(row) \in Nat /\ DOMAIN row = 1..Len(row) /\ \A i \in DOMAIN row : row[i] \in S
  BY Listing
<1>2. ToSet(row) = {row[i] : i \in DOMAIN row}
  BY DEF ToSet
<1>3. T \subseteq Nat /\ T # {} /\ \A h \in T : h =< b
  <2>1. \A n \in ToSet(row) : Height(sz[n]) \in Nat /\ Height(sz[n]) =< b
    BY <1>1, <1>2 DEF Sized
  <2>2. 1 \in DOMAIN row
    BY <1>1
  <2>3. row[1] \in ToSet(row)
    BY <1>2, <2>2
  <2> QED BY <2>1, <2>3
<1>4. Max(T) \in T /\ \A h \in T : h =< Max(T)
  <2> HIDE DEF T
  <2> QED BY <1>3, MaxIsGreatest
<1>5. Tallest(row, sz) \in T /\ \A n \in ToSet(row) : Height(sz[n]) =< Tallest(row, sz)
  <2>1. \E h \in T : \A n \in ToSet(row) : Height(sz[n]) =< h
    <3>1. \A n \in ToSet(row) : Height(sz[n]) =< Max(T)
      BY <1>4
    <3> HIDE DEF T
    <3> QED BY <1>4, <3>1
  <2> QED BY <2>1 DEF Tallest
<1> QED BY <1>2, <1>3, <1>5

\* adjustLocations begins the rows below one another.
LEMMA TopsOfRows ==
  ASSUME NEW L, NEW org, org.rows \in Lists(L), NEW sz, NEW padding \in Nat,
         \A q \in DOMAIN org.rows : Tallest(org.rows[q], sz) \in Nat
  PROVE  \A r \in DOMAIN org.rows :
            /\ RowTop(org, sz, padding, r) \in Nat
            /\ RowTop(org, sz, padding, r)
                 = IF r = 1 THEN padding
                   ELSE RowTop(org, sz, padding, r - 1) + Tallest(org.rows[r - 1], sz) + Gap
<1> DEFINE rows == org.rows
           k == Len(rows)
<1>0. k \in Nat /\ DOMAIN rows = 1..k /\ \A q \in 1..k : Tallest(rows[q], sz) \in Nat
  BY Listing
<1>rows. rows = org.rows
  OBVIOUS
<1> HIDE DEF rows, k
<1> DEFINE T == Nat
           more(t, q) == IF q = 1 THEN padding ELSE t + Tallest(rows[q - 1], sz) + Gap
           next == [x \in T \X (1..k) |-> more(x[1], x[2])]
           Fits(f) == f = [q \in DOMAIN org.rows |->
                              IF q = 1 THEN padding ELSE f[q - 1] + Tallest(org.rows[q - 1], sz) + Gap]
           top == CHOOSE f : Fits(f)
<1>1. \A t \in T : \A q \in 1..k : more(t, q) \in T
  <2> SUFFICES ASSUME NEW t \in Nat, NEW q \in 1..k PROVE more(t, q) \in Nat
    OBVIOUS
  <2>1. q # 1 => q - 1 \in 1..k
    BY <1>0
  <2> QED BY <1>0, <2>1, TileAssumption
<1>2. next \in Steps(T, k)
  <2> HIDE DEF more, T
  <2> QED BY <1>0, <1>1 DEF Steps
<1>3. PICK c \in [0..k -> T] : \A q \in 1..k : c[q] = next[<<c[q - 1], q>>]
  <2> HIDE DEF next
  <2>1. 0 \in T
    OBVIOUS
  <2> HIDE DEF T
  <2>2. \E c : c \in Computations(T, k, 0, next)
    BY <1>0, <1>2, <2>1, Iteration
  <2> QED BY <2>2 DEF Computations
<1>4. \A q \in 1..k : c[q] = more(c[q - 1], q)
  <2> SUFFICES ASSUME NEW q \in 1..k PROVE c[q] = more(c[q - 1], q)
    OBVIOUS
  <2>1. q - 1 \in 0..k
    BY <1>0
  <2>2. <<c[q - 1], q>> \in T \X (1..k)
    BY <1>3, <2>1
  <2> HIDE DEF more, T
  <2> QED BY <1>3, <2>2
<1> DEFINE known == [q \in 1..k |-> c[q]]
<1>5. Fits(known)
  <2>1. \A q \in 1..k : known[q] = IF q = 1 THEN padding ELSE known[q - 1] + Tallest(rows[q - 1], sz) + Gap
    <3> SUFFICES ASSUME NEW q \in 1..k
                 PROVE  known[q] = IF q = 1 THEN padding ELSE known[q - 1] + Tallest(rows[q - 1], sz) + Gap
      OBVIOUS
    <3>1. q # 1 => q - 1 \in 1..k
      BY <1>0
    <3> QED BY <1>4, <3>1
  <2>2. known = [q \in 1..k |-> known[q]]
    OBVIOUS
  <2> HIDE DEF known
  <2> QED BY <1>0, <1>rows, <2>1, <2>2
<1>6. Fits(top)
  <2> HIDE DEF Fits
  <2> QED BY <1>5
<1>7. \A r : RowTop(org, sz, padding, r) = top[r]
  BY DEF RowTop
<1> HIDE DEF top, known, next
<1>8. \A q \in 1..k : top[q] = IF q = 1 THEN padding ELSE top[q - 1] + Tallest(rows[q - 1], sz) + Gap
  BY <1>0, <1>rows, <1>6
<1> DEFINE Good == {q \in 0..k : q # 0 => top[q] \in Nat}
<1>9. \A q \in 0..k : q \in Good
  <2>1. 0 \in Good
    BY <1>0
  <2>2. ASSUME NEW q \in 1..k, q - 1 \in Good PROVE q \in Good
    <3>1. CASE q = 1
      BY <1>0, <1>8, <3>1
    <3>2. CASE q # 1
      <4>1. q - 1 \in 1..k /\ top[q - 1] \in Nat
        BY <1>0, <2>2, <3>2
      <4> QED BY <1>0, <1>8, <3>2, <4>1, TileAssumption
    <3> QED BY <3>1, <3>2
  <2> HIDE DEF Good
  <2> QED BY <1>0, <2>1, <2>2, UpTo
<1>10. \A q \in 1..k : top[q] \in Nat
  <2> SUFFICES ASSUME NEW q \in 1..k PROVE top[q] \in Nat
    OBVIOUS
  <2>1. q \in Good /\ q # 0
    BY <1>0, <1>9
  <2> QED BY <2>1
<1>11. \A q \in 1..k :
          /\ RowTop(org, sz, padding, q) \in Nat
          /\ RowTop(org, sz, padding, q)
               = IF q = 1 THEN padding
                 ELSE RowTop(org, sz, padding, q - 1) + Tallest(rows[q - 1], sz) + Gap
  BY <1>7, <1>8, <1>10
<1> QED BY <1>0, <1>rows, <1>11

\* The nodes lie in the width and height, and apart.
WellPlaced(org, S, sz, padding) ==
    \A n \in S :
        LET o == OffsetIn(org, sz, padding, n)
        IN  /\ o[1] \in Nat /\ o[2] \in Nat
            /\ o[1] + Width(sz[n]) =< org.width /\ o[2] + Height(sz[n]) =< org.height
            /\ \A m \in S \ {n} :
                  LET u == OffsetIn(org, sz, padding, m)
                  IN  \/ u[1] + Width(sz[m]) =< o[1] \/ o[1] + Width(sz[n]) =< u[1]
                      \/ u[2] + Height(sz[m]) =< o[2] \/ o[2] + Height(sz[n]) =< u[2]

\* A right organization places its nodes in the compound and apart.
LEMMA OrganizedIsPlaced ==
  ASSUME NEW S, NEW org, NEW sz, Sized(S, sz), NEW padding \in Nat, Organized(org, S, sz, padding)
  PROVE  /\ UNION {ToSet(org.rows[r]) : r \in DOMAIN org.rows} = S
         /\ WellPlaced(org, S, sz, padding)
<1> DEFINE rows == org.rows
           k == Len(rows)
           top(r) == RowTop(org, sz, padding, r)
           W(n) == Width(sz[n])
           H(n) == Height(sz[n])
<1>1. RowsOK(org, S) /\ WidthsOK(org, S, sz, padding) /\ HeightsOK(org, sz, padding)
  BY DEF Organized
<1>2. k \in Nat /\ DOMAIN rows = 1..k /\ \A r \in 1..k : rows[r] \in Lists(S)
  BY <1>1, Listing DEF RowsOK
<1>3. \A r \in 1..k : /\ Len(rows[r]) \in Nat /\ Len(rows[r]) # 0 /\ DOMAIN rows[r] = 1..Len(rows[r])
                      /\ \A i \in DOMAIN rows[r] : rows[r][i] \in S
  BY <1>1, <1>2, Listing DEF RowsOK
<1>4. \A n \in S : W(n) \in Nat /\ H(n) \in Nat
  BY DEF Sized
<1>5. /\ \A r \in 1..k : org.rowHeight[r] \in Nat /\ org.rowWidth[r] \in Nat
      /\ org.width \in Nat /\ org.height \in Nat /\ \A r \in 1..k : org.rowWidth[r] =< org.width
  BY <1>1, <1>2, Listing DEF HeightsOK, WidthsOK
<1>6. \A r \in 1..k : \A i \in DOMAIN rows[r] : H(rows[r][i]) + (IF r > 1 THEN Gap ELSE 0) =< org.rowHeight[r]
  BY <1>1, <1>2 DEF HeightsOK, Needs
<1>7. PICK left \in [S -> Nat] : LeftOK(org, sz, padding, left)
  BY <1>1 DEF WidthsOK
<1>8. PICK below \in [0..k -> Nat] : BelowOK(org, padding, below)
  BY <1>1 DEF HeightsOK
<1>9. /\ below[0] = padding /\ below[k] + padding = org.height
      /\ \A r \in 1..k : below[r] = below[r - 1] + org.rowHeight[r]
  BY <1>2, <1>8 DEF BelowOK
<1>10. UNION {ToSet(rows[r]) : r \in DOMAIN rows} = S
  <2>1. \A r \in DOMAIN rows : ToSet(rows[r]) = {rows[r][i] : i \in DOMAIN rows[r]}
    BY DEF ToSet
  <2>2. ASSUME NEW n \in S PROVE \E r \in DOMAIN rows : n \in ToSet(rows[r])
    <3>1. PICK r \in DOMAIN rows : \E i \in DOMAIN rows[r] : rows[r][i] = n
      BY <1>1 DEF RowsOK
    <3> QED BY <2>1, <3>1
  <2>3. \A r \in DOMAIN rows : ToSet(rows[r]) \subseteq S
    <3>1. ASSUME NEW r \in DOMAIN rows PROVE ToSet(rows[r]) \subseteq S
      <4> HIDE DEF rows, k
      <4>1. \A i \in DOMAIN rows[r] : rows[r][i] \in S
        BY <1>2, <1>3
      <4>2. ToSet(rows[r]) = {rows[r][i] : i \in DOMAIN rows[r]}
        BY <2>1
      <4> QED BY <4>1, <4>2
    <3> QED BY <3>1
  <2> QED BY <2>2, <2>3
\* Every node has its place in a row.
<1>11. \A n \in S : \E r \in 1..k : \E i \in DOMAIN rows[r] :
          rows[r][i] = n /\ OffsetIn(org, sz, padding, n) = <<left[n], top(r)>>
  <2> SUFFICES ASSUME NEW n \in S
               PROVE  \E r \in 1..k : \E i \in DOMAIN rows[r] :
                         rows[r][i] = n /\ OffsetIn(org, sz, padding, n) = <<left[n], top(r)>>
    OBVIOUS
  <2> DEFINE r == CHOOSE r \in DOMAIN rows : n \in ToSet(rows[r])
             i == CHOOSE i \in DOMAIN rows[r] : rows[r][i] = n
  <2>1. r \in DOMAIN rows /\ n \in ToSet(rows[r])
    BY <1>10
  <2>2. i \in DOMAIN rows[r] /\ rows[r][i] = n
    BY <2>1 DEF ToSet
  <2>3. OffsetIn(org, sz, padding, n) = <<TileLeft(rows[r], sz, padding, i), top(r)>>
    BY DEF OffsetIn
  <2> HIDE DEF r, i
  <2>4. rows[r] \in Lists(S)
    BY <1>2, <2>1
  <2>5. /\ left[rows[r][1]] = padding
        /\ \A j \in DOMAIN rows[r] : j # 1 =>
              left[rows[r][j]] = left[rows[r][j - 1]] + Width(sz[rows[r][j - 1]]) + Gap
    BY <1>7, <2>1 DEF LeftOK
  <2>6. TileLeft(rows[r], sz, padding, i) = left[rows[r][i]]
    <3> DEFINE row == rows[r]
    <3> HIDE DEF row, rows
    <3>1. row = rows[r]
      BY DEF row
    <3>2. /\ row \in Lists(S) /\ i \in DOMAIN row /\ left[row[1]] = padding
          /\ \A j \in DOMAIN row : j # 1 =>
                left[row[j]] = left[row[j - 1]] + Width(sz[row[j - 1]]) + Gap
      BY <2>2, <2>4, <2>5, <3>1
    <3>3. TileLeft(row, sz, padding, i) = left[row[i]]
      BY <3>2, LeftInRow
    <3> QED BY <3>1, <3>3
  <2> QED BY <1>2, <2>1, <2>2, <2>3, <2>6
\* In a row, every node ends before the next ones begin, and all end inside.
<1>12. \A r \in 1..k : \A i, j \in DOMAIN rows[r] :
          /\ i < j => left[rows[r][i]] + W(rows[r][i]) =< left[rows[r][j]]
          /\ left[rows[r][i]] + W(rows[r][i]) =< org.width
  <2> SUFFICES ASSUME NEW r \in 1..k
               PROVE  \A i, j \in DOMAIN rows[r] :
                         /\ i < j => left[rows[r][i]] + W(rows[r][i]) =< left[rows[r][j]]
                         /\ left[rows[r][i]] + W(rows[r][i]) =< org.width
    OBVIOUS
  <2> DEFINE row == rows[r]
             l == Len(row)
             f == [i \in 1..l |-> left[row[i]]]
             w == [i \in 1..l |-> W(row[i])]
  <2>1. l \in Nat /\ l # 0 /\ DOMAIN row = 1..l /\ \A i \in 1..l : row[i] \in S
    BY <1>3
  <2>2. /\ \A i \in 1..l : i # 1 => left[row[i]] = left[row[i - 1]] + W(row[i - 1]) + Gap
        /\ left[row[l]] + W(row[l]) + padding = org.rowWidth[r]
    <3>1. r \in DOMAIN org.rows /\ l \in DOMAIN row
      BY <1>2, <2>1
    <3> QED BY <1>7, <2>1, <3>1 DEF LeftOK
  <2> HIDE DEF row
  <2>3. \A i \in 1..l : left[row[i]] \in Nat /\ W(row[i]) \in Nat
    BY <1>4, <1>7, <2>1
  <2>4. \A i \in 1..l : f[i] = left[row[i]] /\ w[i] = W(row[i])
    OBVIOUS
  <2> HIDE DEF l, f, w, W
  <2>5. \A i \in 1..l : i # 1 => f[i - 1] + w[i - 1] =< f[i]
    <3> SUFFICES ASSUME NEW i \in 1..l, i # 1 PROVE f[i - 1] + w[i - 1] =< f[i]
      OBVIOUS
    <3>1. i - 1 \in 1..l
      BY <2>1
    <3> QED BY <2>2, <2>3, <2>4, <3>1, TileAssumption
  <2>6. \A i, j \in 1..l : i < j => f[i] + w[i] =< f[j]
    BY <2>1, <2>3, <2>4, <2>5, Chain
  <2>7. \A i \in 1..l : left[row[i]] + W(row[i]) =< org.width
    <3> SUFFICES ASSUME NEW i \in 1..l PROVE left[row[i]] + W(row[i]) =< org.width
      OBVIOUS
    <3>1. l \in 1..l /\ left[row[l]] \in Nat /\ W(row[l]) \in Nat
      BY <2>1, <2>3
    <3>2. left[row[l]] + W(row[l]) =< org.width
      BY <1>5, <2>2, <3>1
    <3>3. CASE i = l
      BY <3>2, <3>3
    <3>4. CASE i < l
      <4>1. left[row[i]] + W(row[i]) =< left[row[l]]
        BY <2>4, <2>6, <3>1, <3>4
      <4>2. left[row[i]] + W(row[i]) \in Nat
        BY <2>3
      <4> QED BY <1>5, <3>1, <3>2, <4>1, <4>2
    <3> QED BY <2>1, <3>3, <3>4
  <2> QED BY <2>1, <2>4, <2>6, <2>7 DEF row
\* Each row begins where the one before it ends, and its nodes end in its height.
<1>13. \A r \in 1..k : \A i \in DOMAIN rows[r] :
          H(rows[r][i]) \in Nat /\ H(rows[r][i]) =< org.rowHeight[r]
  <2> SUFFICES ASSUME NEW r \in 1..k, NEW i \in DOMAIN rows[r]
               PROVE  H(rows[r][i]) \in Nat /\ H(rows[r][i]) =< org.rowHeight[r]
    OBVIOUS
  <2>1. H(rows[r][i]) \in Nat
    BY <1>3, <1>4
  <2>2. H(rows[r][i]) + (IF r > 1 THEN Gap ELSE 0) =< org.rowHeight[r]
    BY <1>6
  <2> HIDE DEF H, rows
  <2> QED BY <1>5, <2>1, <2>2, TileAssumption
<1> DEFINE tall(r) == Tallest(rows[r], sz)
<1>14. \A r \in 1..k : /\ tall(r) \in Nat /\ \A i \in DOMAIN rows[r] : H(rows[r][i]) =< tall(r)
                       /\ tall(r) + (IF r > 1 THEN Gap ELSE 0) =< org.rowHeight[r]
  <2> SUFFICES ASSUME NEW r \in 1..k
               PROVE  /\ tall(r) \in Nat /\ \A i \in DOMAIN rows[r] : H(rows[r][i]) =< tall(r)
                      /\ tall(r) + (IF r > 1 THEN Gap ELSE 0) =< org.rowHeight[r]
    OBVIOUS
  <2> DEFINE row == rows[r]
             gap == IF r > 1 THEN Gap ELSE 0
             b == org.rowHeight[r] - gap
  <2>1. row \in Lists(S) /\ Len(row) # 0 /\ 1 \in DOMAIN row
    BY <1>2, <1>3
  <2>2. gap \in Nat /\ b \in Nat /\ \A i \in DOMAIN row : Height(sz[row[i]]) =< b
    <3>1. gap \in Nat
      BY TileAssumption
    <3>2. \A i \in DOMAIN row : H(row[i]) \in Nat /\ H(row[i]) + gap =< org.rowHeight[r]
      BY <1>6, <1>13
    <3> HIDE DEF gap, row
    <3>3. \A i \in DOMAIN row : H(row[i]) =< b /\ b \in Nat
      <4> SUFFICES ASSUME NEW i \in DOMAIN row PROVE H(row[i]) =< b /\ b \in Nat
        OBVIOUS
      <4>1. H(row[i]) \in Nat /\ H(row[i]) + gap =< org.rowHeight[r] /\ org.rowHeight[r] \in Nat
        BY <1>5, <3>2
      <4> HIDE DEF H
      <4> QED BY <3>1, <4>1
    <3> QED BY <2>1, <3>1, <3>3
  <2> HIDE DEF row, b, gap
  <2>3. /\ Tallest(row, sz) \in Nat /\ Tallest(row, sz) =< b
        /\ \A i \in DOMAIN row : Height(sz[row[i]]) =< Tallest(row, sz)
    BY <2>1, <2>2, TallestFits
  <2>4. Tallest(row, sz) + gap =< org.rowHeight[r]
    <3>1. b = org.rowHeight[r] - gap /\ org.rowHeight[r] \in Nat
      BY <1>5 DEF b
    <3> QED BY <2>2, <2>3, <3>1
  <2> QED BY <2>3, <2>4 DEF row, gap
<1>15. \A r \in 1..k : /\ top(r) \in Nat
                       /\ top(r) = IF r = 1 THEN padding ELSE top(r - 1) + tall(r - 1) + Gap
  <2>1. \A r \in 1..k : Tallest(rows[r], sz) \in Nat
    BY <1>14
  <2>2. org.rows \in Lists(Lists(S)) /\ \A r \in DOMAIN org.rows : Tallest(org.rows[r], sz) \in Nat
    BY <1>1, <1>2, <2>1 DEF RowsOK
  <2>3. \A r \in DOMAIN org.rows :
           /\ RowTop(org, sz, padding, r) \in Nat
           /\ RowTop(org, sz, padding, r)
                = IF r = 1 THEN padding
                  ELSE RowTop(org, sz, padding, r - 1) + Tallest(org.rows[r - 1], sz) + Gap
    BY <2>2, TopsOfRows
  <2> QED BY <1>2, <2>3
<1> HIDE DEF top, tall, rows, k, W, H
\* A row begins no lower than the heights of the rows before it say.
<1>16. \A r \in 1..k : top(r) =< below[r - 1] + (IF r > 1 THEN Gap ELSE 0)
  <2> DEFINE Good == {r \in 0..k : r # 0 => top(r) =< below[r - 1] + (IF r > 1 THEN Gap ELSE 0)}
  <2>1. 0 \in Good
    BY <1>2
  <2>2. ASSUME NEW r \in 1..k, r - 1 \in Good PROVE r \in Good
    <3>0. r \in 0..k /\ r \in Nat
      BY <1>2
    <3>1. CASE r = 1
      BY <1>9, <1>15, <3>0, <3>1
    <3>2. CASE r # 1
      <4>1. r - 1 \in 1..k /\ r - 1 # 0 /\ r - 1 - 1 = r - 2 /\ r - 2 \in 0..k /\ r > 1
        BY <1>2, <3>2
      <4>2. top(r - 1) =< below[r - 2] + (IF r - 1 > 1 THEN Gap ELSE 0)
        BY <2>2, <4>1
      <4>3. top(r) = top(r - 1) + tall(r - 1) + Gap
        BY <1>15, <3>2
      <4>4. tall(r - 1) + (IF r - 1 > 1 THEN Gap ELSE 0) =< org.rowHeight[r - 1]
        BY <1>14, <4>1
      <4>5. below[r - 1] = below[r - 2] + org.rowHeight[r - 1] /\ below[r - 2] \in Nat
        BY <1>8, <1>9, <4>1
      <4>6. /\ top(r - 1) \in Nat /\ tall(r - 1) \in Nat /\ org.rowHeight[r - 1] \in Nat
            /\ (IF r - 1 > 1 THEN Gap ELSE 0) \in Nat
        BY <1>5, <1>14, <1>15, <4>1, TileAssumption
      <4>7. top(r) =< below[r - 1] + Gap
        BY <4>2, <4>3, <4>4, <4>5, <4>6, TileAssumption
      <4> QED BY <3>0, <4>1, <4>7
    <3> QED BY <3>1, <3>2
  <2>3. \A r \in 0..k : r \in Good
    <3> HIDE DEF Good
    <3> QED BY <1>2, <2>1, <2>2, UpTo
  <2> SUFFICES ASSUME NEW r \in 1..k PROVE top(r) =< below[r - 1] + (IF r > 1 THEN Gap ELSE 0)
    OBVIOUS
  <2>4. r \in Good /\ r # 0
    BY <1>2, <2>3
  <2> QED BY <2>4
<1>17. \A r \in 1..k : below[r] \in Nat /\ below[r] =< org.height
  <2> DEFINE f == [i \in 1..k |-> below[i]]
             w == [i \in 1..k |-> 0]
  <2>1. \A i \in 1..k : below[i] \in Nat /\ i - 1 \in 0..k /\ below[i - 1] \in Nat
    BY <1>2, <1>8
  <2>2. \A i \in 1..k : f[i] = below[i] /\ w[i] = 0
    OBVIOUS
  <2> HIDE DEF f, w
  <2>3. \A i \in 1..k : i # 1 => f[i - 1] + w[i - 1] =< f[i]
    <3> SUFFICES ASSUME NEW i \in 1..k, i # 1 PROVE f[i - 1] + w[i - 1] =< f[i]
      OBVIOUS
    <3>1. i - 1 \in 1..k
      BY <1>2
    <3> QED BY <1>5, <1>9, <2>1, <2>2, <3>1
  <2>4. \A i \in 1..k : f[i] \in Nat /\ w[i] \in Nat
    BY <2>1, <2>2
  <2>5. \A i, j \in 1..k : i < j => f[i] + w[i] =< f[j]
    BY <1>2, <2>3, <2>4, Chain
  <2> SUFFICES ASSUME NEW r \in 1..k PROVE below[r] \in Nat /\ below[r] =< org.height
    OBVIOUS
  <2>6. k \in 1..k /\ below[k] =< org.height
    BY <1>2, <1>5, <1>9, <2>1
  <2>7. CASE r = k
    BY <2>1, <2>6, <2>7
  <2>8. CASE r < k
    <3>1. f[r] + w[r] =< f[k]
      BY <2>5, <2>6, <2>8
    <3>2. below[r] =< below[k] /\ below[r] \in Nat /\ below[k] \in Nat
      BY <2>1, <2>2, <2>6, <3>1
    <3> QED BY <1>5, <2>6, <3>2
  <2> QED BY <1>2, <2>7, <2>8
<1>18. \A r \in 1..k : \A i \in DOMAIN rows[r] : top(r) + H(rows[r][i]) =< org.height
  <2> SUFFICES ASSUME NEW r \in 1..k, NEW i \in DOMAIN rows[r]
               PROVE  top(r) + H(rows[r][i]) =< org.height
    OBVIOUS
  <2> DEFINE h == H(rows[r][i])
             gap == IF r > 1 THEN Gap ELSE 0
  <2>1. h \in Nat /\ h + gap =< org.rowHeight[r] /\ gap \in Nat /\ org.rowHeight[r] \in Nat
    BY <1>5, <1>6, <1>13, TileAssumption
  <2>2. top(r) \in Nat /\ top(r) =< below[r - 1] + gap
    BY <1>15, <1>16
  <2>3. below[r] = below[r - 1] + org.rowHeight[r] /\ below[r - 1] \in Nat
    <3>1. r - 1 \in 0..k
      BY <1>2
    <3> QED BY <1>8, <1>9, <3>1
  <2>4. below[r] \in Nat /\ below[r] =< org.height
    BY <1>17
  <2> HIDE DEF h, gap
  <2>5. top(r) + h =< org.height
    BY <1>5, <2>1, <2>2, <2>3, <2>4
  <2> QED BY <2>5 DEF h
\* A row ends before the next ones begin.
<1>19. \A q, r \in 1..k : q < r => top(q) + tall(q) =< top(r)
  <2> DEFINE f == [i \in 1..k |-> top(i)]
             w == [i \in 1..k |-> tall(i)]
  <2>1. \A i \in 1..k : f[i] = top(i) /\ w[i] = tall(i)
    OBVIOUS
  <2> HIDE DEF f, w
  <2>2. \A i \in 1..k : f[i] \in Nat /\ w[i] \in Nat
    BY <1>14, <1>15, <2>1
  <2>3. \A i \in 1..k : i # 1 => f[i - 1] + w[i - 1] =< f[i]
    <3> SUFFICES ASSUME NEW i \in 1..k, i # 1 PROVE f[i - 1] + w[i - 1] =< f[i]
      OBVIOUS
    <3>1. i - 1 \in 1..k
      BY <1>2
    <3>2. top(i) = top(i - 1) + tall(i - 1) + Gap
      BY <1>15
    <3> QED BY <2>1, <2>2, <3>1, <3>2, TileAssumption
  <2>4. \A i, j \in 1..k : i < j => f[i] + w[i] =< f[j]
    BY <1>2, <2>2, <2>3, Chain
  <2> QED BY <2>1, <2>4
<1>20. WellPlaced(org, S, sz, padding)
  <2> SUFFICES ASSUME NEW n \in S
               PROVE  LET o == OffsetIn(org, sz, padding, n)
                      IN  /\ o[1] \in Nat /\ o[2] \in Nat
                          /\ o[1] + W(n) =< org.width /\ o[2] + H(n) =< org.height
                          /\ \A m \in S \ {n} :
                                LET u == OffsetIn(org, sz, padding, m)
                                IN  \/ u[1] + W(m) =< o[1] \/ o[1] + W(n) =< u[1]
                                    \/ u[2] + H(m) =< o[2] \/ o[2] + H(n) =< u[2]
    BY DEF WellPlaced, W, H
  <2> DEFINE o == OffsetIn(org, sz, padding, n)
  <2>1. PICK r \in 1..k : \E i \in DOMAIN rows[r] : rows[r][i] = n /\ o = <<left[n], top(r)>>
    BY <1>11
  <2>2. PICK i \in DOMAIN rows[r] : rows[r][i] = n /\ o = <<left[n], top(r)>>
    BY <2>1
  <2> HIDE DEF o
  <2>3. o[1] = left[n] /\ o[2] = top(r) /\ o[1] \in Nat /\ o[2] \in Nat
    BY <1>7, <1>15, <2>2
  <2>4. o[1] + W(n) =< org.width /\ o[2] + H(n) =< org.height
    BY <1>12, <1>18, <2>2, <2>3
  <2>5. ASSUME NEW m \in S \ {n}, NEW u, u = OffsetIn(org, sz, padding, m)
        PROVE  \/ u[1] + W(m) =< o[1] \/ o[1] + W(n) =< u[1]
               \/ u[2] + H(m) =< o[2] \/ o[2] + H(n) =< u[2]
    <3>1. PICK q \in 1..k : \E j \in DOMAIN rows[q] : rows[q][j] = m /\ u = <<left[m], top(q)>>
      BY <1>11, <2>5
    <3>2. PICK j \in DOMAIN rows[q] : rows[q][j] = m /\ u = <<left[m], top(q)>>
      BY <3>1
    <3>3. u[1] = left[m] /\ u[2] = top(q)
      BY <3>2
    <3>4. CASE q = r
      <4>1. i # j /\ i \in Nat /\ j \in Nat
        BY <1>3, <2>2, <3>2, <3>4
      <4>2. CASE i < j
        BY <1>12, <2>2, <2>3, <3>2, <3>3, <3>4, <4>2
      <4>3. CASE j < i
        BY <1>12, <2>2, <2>3, <3>2, <3>3, <3>4, <4>3
      <4> QED BY <4>1, <4>2, <4>3
    <3>5. /\ H(n) \in Nat /\ H(m) \in Nat /\ H(n) =< tall(r) /\ H(m) =< tall(q)
          /\ tall(r) \in Nat /\ tall(q) \in Nat /\ top(r) \in Nat /\ top(q) \in Nat
      BY <1>4, <1>14, <1>15, <2>2, <3>2
    <3>6. CASE q < r
      <4>1. top(q) + tall(q) =< top(r)
        BY <1>19, <3>6
      <4>2. u[2] + H(m) =< o[2]
        BY <2>3, <3>3, <3>5, <4>1
      <4> QED BY <4>2
    <3>7. CASE r < q
      <4>1. top(r) + tall(r) =< top(q)
        BY <1>19, <3>7
      <4>2. o[2] + H(n) =< u[2]
        BY <2>3, <3>3, <3>5, <4>1
      <4> QED BY <4>2
    <3> QED BY <1>2, <3>4, <3>6, <3>7
  <2> QED BY <2>3, <2>4, <2>5 DEF o
<1> QED BY <1>10, <1>20 DEF rows
=============================================================================
