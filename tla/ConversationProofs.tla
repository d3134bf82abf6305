------------------------- MODULE ConversationProofs -------------------------
(***************************************************************************)
(* What holds of Conversation for any rows, transactions and pairs, any    *)
(* size of a page, and any number of requests under way.                   *)
(***************************************************************************)
EXTENDS Conversation, FiniteSetTheorems, TLAPS

-----------------------------------------------------------------------------
(* Keys, and the pages of the server *)

(* Keys are compared as the cursor does: a strict order, in which no two    *)
(* rows are equal, because their ids differ.                                *)
LEMMA KeyOrder ==
  ASSUME began \in [Txn -> Nat]
  PROVE  /\ \A r \in Row : Key(r) \in Nat \X Nat
         /\ \A k \in Nat \X Nat : ~Less(k, k)
         /\ \A k, l \in Nat \X Nat : Less(k, l) => ~Less(l, k)
         /\ \A k, l, m \in Nat \X Nat : Less(k, l) /\ Less(l, m) => Less(k, m)
         /\ \A r, s \in Row : r = s \/ Less(Key(r), Key(s)) \/ Less(Key(s), Key(r))
<1>1. \A r \in Row : Key(r) \in Nat \X Nat
  BY RowsAssumption DEF Key
<1>2. /\ \A k \in Nat \X Nat : ~Less(k, k)
      /\ \A k, l \in Nat \X Nat : Less(k, l) => ~Less(l, k)
  BY DEF Less
<1>3. \A k, l, m \in Nat \X Nat : Less(k, l) /\ Less(l, m) => Less(k, m)
  BY DEF Less
<1>4. \A r, s \in Row : r = s \/ Less(Key(r), Key(s)) \/ Less(Key(s), Key(r))
  BY RowsAssumption DEF Key, Less
<1> QED BY <1>1, <1>2, <1>3, <1>4

(* In a finite set with a strict total order, some element has n before it, *)
(* for each n up to their number: the counts differ, and so take all values.*)
LEMMA Ranks ==
  ASSUME NEW S, IsFiniteSet(S), NEW before \in [S -> SUBSET S],
         \A x \in S : x \notin before[x],
         \A x, y \in S : x = y \/ x \in before[y] \/ y \in before[x],
         \A x, y, z \in S : x \in before[y] /\ y \in before[z] => x \in before[z]
  PROVE  /\ Cardinality(S) \in Nat
         /\ \A x \in S : Cardinality(before[x]) \in 0..(Cardinality(S) - 1)
         /\ \A x, y \in S : x \in before[y] => Cardinality(before[x]) < Cardinality(before[y])
         /\ \A n \in 0..(Cardinality(S) - 1) : \E x \in S : Cardinality(before[x]) = n
<1> DEFINE count == [x \in S |-> Cardinality(before[x])]
           n == Cardinality(S)
<1>1. n \in Nat
  BY FS_CardinalityType
<1>2. ASSUME NEW x \in S
      PROVE  IsFiniteSet(before[x]) /\ Cardinality(before[x]) \in 0..(n - 1)
  <2>1. before[x] \in SUBSET S /\ before[x] # S
    OBVIOUS
  <2>2. IsFiniteSet(before[x]) /\ Cardinality(before[x]) <= n /\ Cardinality(before[x]) # n
    BY <2>1, FS_Subset
  <2>3. Cardinality(before[x]) \in Nat
    BY <2>2, FS_CardinalityType
  <2> QED BY <1>1, <2>2, <2>3
<1> HIDE DEF n
<1>3. ASSUME NEW x \in S, NEW y \in S, x \in before[y]
      PROVE  Cardinality(before[x]) < Cardinality(before[y])
  <2>1. before[x] \in SUBSET before[y] /\ before[x] # before[y]
    BY <1>3
  <2>2. Cardinality(before[x]) <= Cardinality(before[y])
          /\ Cardinality(before[x]) # Cardinality(before[y])
    BY <1>2, <2>1, FS_Subset
  <2> QED BY <1>1, <1>2, <2>2
<1>4. count \in [S -> 0..(n - 1)] /\ \A x \in S : count[x] = Cardinality(before[x])
  BY <1>2
<1> HIDE DEF count
<1>5. ASSUME NEW x \in S, NEW y \in S, count[x] = count[y] PROVE x = y
  <2>1. Cardinality(before[x]) \in Nat
    BY <1>1, <1>2
  <2>2. x \notin before[y] /\ y \notin before[x]
    BY <1>3, <1>4, <1>5, <2>1
  <2> QED BY <2>2
<1>6. count \in Injection(S, 0..(n - 1))
  BY <1>4, <1>5 DEF Injection, IsInjective
<1>7. IsFiniteSet(0..(n - 1)) /\ Cardinality(0..(n - 1)) = n
  BY <1>1, FS_Interval
<1>8. count \in Surjection(S, 0..(n - 1))
  BY <1>6, <1>7, FS_Injection DEF n
<1>9. \A m \in 0..(n - 1) : \E x \in S : count[x] = m
  BY <1>8 DEF Surjection
<1> QED BY <1>1, <1>2, <1>3, <1>4, <1>9 DEF n

(* Whoever lists each element at the place its rank gives lists them all,   *)
(* and in order.                                                            *)
LEMMA Listing ==
  ASSUME NEW S, IsFiniteSet(S), NEW before \in [S -> SUBSET S],
         \A x \in S : x \notin before[x],
         \A x, y \in S : x = y \/ x \in before[y] \/ y \in before[x],
         \A x, y, z \in S : x \in before[y] /\ y \in before[z] => x \in before[z],
         NEW list \in [1..Cardinality(S) -> S],
         \A i \in 1..Cardinality(S) : Cardinality(before[list[i]]) = i - 1
  PROVE  /\ \A i, j \in 1..Cardinality(S) : i < j => list[i] \in before[list[j]]
         /\ \A x \in S : \E i \in 1..Cardinality(S) : list[i] = x
<1> DEFINE n == Cardinality(S)
<1>1. /\ n \in Nat
      /\ \A x \in S : Cardinality(before[x]) \in 0..(n - 1)
      /\ \A x, y \in S : x \in before[y] => Cardinality(before[x]) < Cardinality(before[y])
  BY Ranks
<1> HIDE DEF n
<1>2. ASSUME NEW i \in 1..n
      PROVE  list[i] \in S /\ Cardinality(before[list[i]]) = i - 1
  BY DEF n
<1>3. ASSUME NEW i \in 1..n, NEW j \in 1..n, i < j PROVE list[i] \in before[list[j]]
  <2> DEFINE x == list[i]
             y == list[j]
  <2>1. /\ x \in S /\ Cardinality(before[x]) = i - 1
        /\ y \in S /\ Cardinality(before[y]) = j - 1
    BY <1>2
  <2> HIDE DEF x, y
  <2>2. y \notin before[x] /\ x # y
    BY <1>1, <1>3, <2>1
  <2> QED BY <2>1, <2>2 DEF x, y
<1>4. ASSUME NEW x \in S PROVE \E i \in 1..n : list[i] = x
  <2>1. PICK i \in 1..n : i = Cardinality(before[x]) + 1
    BY <1>1
  <2>2. list[i] \in S /\ Cardinality(before[list[i]]) = Cardinality(before[x])
    BY <1>1, <1>2, <2>1
  <2>3. Cardinality(before[x]) \in Nat
    BY <1>1
  <2>4. list[i] \notin before[x] /\ x \notin before[list[i]]
    BY <1>1, <2>2, <2>3
  <2> QED BY <2>2, <2>4
<1> QED BY <1>3, <1>4 DEF n

(* ORDER BY: the rows of the set, each once, with increasing keys. *)
LEMMA SortedFacts ==
  ASSUME began \in [Txn -> Nat], NEW S \in SUBSET Row
  PROVE  /\ Cardinality(S) \in Nat
         /\ Sorted(S) \in [1..Cardinality(S) -> S]
         /\ \A i, j \in 1..Cardinality(S) : i < j => Less(Key(Sorted(S)[i]), Key(Sorted(S)[j]))
         /\ \A r \in S : \E i \in 1..Cardinality(S) : Sorted(S)[i] = r
<1> DEFINE before == [r \in S |-> Before(S, r)]
<1>1. IsFiniteSet(S)
  BY RowsAssumption, FS_Subset
<1>2. before \in [S -> SUBSET S]
  BY DEF Before
<1>3. \A r, s \in S : r \in before[s] <=> Less(Key(r), Key(s))
  BY DEF Before
<1>4. \A r \in S : before[r] = Before(S, r)
  OBVIOUS
<1> HIDE DEF before
<1>5. /\ \A r \in S : r \notin before[r]
      /\ \A r, s \in S : r = s \/ r \in before[s] \/ s \in before[r]
      /\ \A r, s, t \in S : r \in before[s] /\ s \in before[t] => r \in before[t]
  BY <1>3, KeyOrder
<1>6. /\ Cardinality(S) \in Nat
      /\ \A m \in 0..(Cardinality(S) - 1) : \E r \in S : Cardinality(before[r]) = m
  BY <1>1, <1>2, <1>5, Ranks
<1>7. ASSUME NEW i \in 1..Cardinality(S)
      PROVE  Sorted(S)[i] \in S /\ Cardinality(before[Sorted(S)[i]]) = i - 1
  <2>1. i - 1 \in 0..(Cardinality(S) - 1)
    BY <1>6
  <2>2. \E r \in S : Cardinality(Before(S, r)) = i - 1
    BY <1>4, <1>6, <2>1
  <2>3. Sorted(S)[i] = CHOOSE r \in S : Cardinality(Before(S, r)) = i - 1
    BY DEF Sorted
  <2> QED BY <1>4, <2>2, <2>3
<1>8. Sorted(S) \in [1..Cardinality(S) -> S]
  BY <1>7 DEF Sorted
<1>9. /\ \A i, j \in 1..Cardinality(S) : i < j => Sorted(S)[i] \in before[Sorted(S)[j]]
      /\ \A r \in S : \E i \in 1..Cardinality(S) : Sorted(S)[i] = r
  <2> DEFINE list == Sorted(S)
  <2>1. /\ list \in [1..Cardinality(S) -> S]
        /\ \A i \in 1..Cardinality(S) : Cardinality(before[list[i]]) = i - 1
    BY <1>7, <1>8
  <2> HIDE DEF list
  <2>2. /\ \A i, j \in 1..Cardinality(S) : i < j => list[i] \in before[list[j]]
        /\ \A r \in S : \E i \in 1..Cardinality(S) : list[i] = r
    BY <1>1, <1>2, <1>5, <2>1, Listing, ZenonT(60)
  <2> QED BY <2>2 DEF list
<1>10. ASSUME NEW i \in 1..Cardinality(S), NEW j \in 1..Cardinality(S), i < j
       PROVE  Less(Key(Sorted(S)[i]), Key(Sorted(S)[j]))
  BY <1>3, <1>7, <1>9, <1>10
<1> QED BY <1>6, <1>8, <1>9, <1>10

(* A part of a list. *)
LEMMA Slice ==
  ASSUME NEW S, NEW n \in Nat, NEW s \in [1..n -> S],
         NEW a \in 1..(n + 1), NEW b \in 0..n, a <= b + 1
  PROVE  /\ SubSeq(s, a, b) \in Seq(S) /\ Len(SubSeq(s, a, b)) = b - a + 1
         /\ \A i \in 1..(b - a + 1) : SubSeq(s, a, b)[i] = s[a + i - 1]
<1>1. s \in Seq(S) /\ Len(s) = n
  OBVIOUS
<1> QED BY <1>1

(* A page is no longer than its rows. *)
LEMMA LimitFacts ==
  ASSUME NEW S, Cardinality(S) \in Nat
  PROVE  Limit(S) \in 0..Cardinality(S)
BY BoundsAssumption DEF Limit

Increasing(s) == \A i, j \in DOMAIN s : i < j => Less(Key(s[i]), Key(s[j]))

(* The first page has rows of the pair in order. *)
LEMMA FirstPageFacts ==
  ASSUME began \in [Txn -> Nat], NEW p
  PROVE  FirstPage(p) \in Seq(Visible(p)) /\ Increasing(FirstPage(p))
<1> DEFINE S == Visible(p)
           n == Cardinality(S)
           a == n - Limit(S) + 1
<1>1. S \in SUBSET Row
  BY DEF Visible
<1>2. /\ n \in Nat /\ Sorted(S) \in [1..n -> S]
      /\ \A i, j \in 1..n : i < j => Less(Key(Sorted(S)[i]), Key(Sorted(S)[j]))
  BY <1>1, SortedFacts
<1>3. a \in 1..(n + 1) /\ n \in 0..n /\ a <= n + 1
  BY <1>2, LimitFacts
<1>4. FirstPage(p) = SubSeq(Sorted(S), a, n)
  BY DEF FirstPage
<1> HIDE DEF S, n, a
<1>5. /\ FirstPage(p) \in Seq(S) /\ Len(FirstPage(p)) = n - a + 1
      /\ \A i \in 1..(n - a + 1) : FirstPage(p)[i] = Sorted(S)[a + i - 1]
  BY <1>2, <1>3, <1>4, Slice
<1>6. Increasing(FirstPage(p))
  <2> SUFFICES ASSUME NEW i \in 1..(n - a + 1), NEW j \in 1..(n - a + 1), i < j
               PROVE  Less(Key(FirstPage(p)[i]), Key(FirstPage(p)[j]))
    BY <1>5 DEF Increasing
  <2>1. a + i - 1 \in 1..n /\ a + j - 1 \in 1..n /\ a + i - 1 < a + j - 1
    BY <1>2, <1>3
  <2> QED BY <1>2, <1>5, <2>1
<1> QED BY <1>5, <1>6 DEF S

(* A page after a cursor has rows behind it in order, and leaves none out   *)
(* but behind them.                                                         *)
LEMMA NextPageFacts ==
  ASSUME began \in [Txn -> Nat], NEW p, NEW k
  PROVE  /\ NextPage(p, k) \in Seq(Visible(p)) /\ Increasing(NextPage(p, k))
         /\ \A i \in DOMAIN NextPage(p, k) : Less(k, Key(NextPage(p, k)[i]))
         /\ \A r \in Visible(p) : Less(k, Key(r)) =>
              \/ r \in ToSet(NextPage(p, k))
              \/ \A i \in DOMAIN NextPage(p, k) : Less(Key(NextPage(p, k)[i]), Key(r))
<1> DEFINE S == {r \in Visible(p) : After(r, k)}
           n == Cardinality(S)
           b == Limit(S)
           page == NextPage(p, k)
<1>1. S \in SUBSET Row /\ S \in SUBSET Visible(p)
  BY DEF Visible
<1>2. /\ n \in Nat /\ Sorted(S) \in [1..n -> S]
      /\ \A i, j \in 1..n : i < j => Less(Key(Sorted(S)[i]), Key(Sorted(S)[j]))
      /\ \A r \in S : \E i \in 1..n : Sorted(S)[i] = r
  BY <1>1, SortedFacts
<1>3. b \in 0..n
  BY <1>2, LimitFacts
<1>4. page = SubSeq(Sorted(S), 1, b)
  BY DEF NextPage
<1>5. /\ \A r \in S : Less(k, Key(r))
      /\ \A r \in Visible(p) : Less(k, Key(r)) => r \in S
  BY DEF After
<1> HIDE DEF S, n, b, page
<1>6. page \in Seq(S) /\ Len(page) = b /\ \A i \in 1..b : page[i] = Sorted(S)[i]
  <2>1. 1 \in 1..(n + 1) /\ 1 <= b + 1
    BY <1>2, <1>3
  <2>2. /\ SubSeq(Sorted(S), 1, b) \in Seq(S) /\ Len(SubSeq(Sorted(S), 1, b)) = b - 1 + 1
        /\ \A i \in 1..(b - 1 + 1) : SubSeq(Sorted(S), 1, b)[i] = Sorted(S)[1 + i - 1]
    BY <1>2, <1>3, <2>1, Slice
  <2> QED BY <1>3, <1>4, <2>2
<1>7. ASSUME NEW i \in 1..b PROVE i \in 1..n /\ page[i] \in S
  BY <1>2, <1>3, <1>6
<1>8. Increasing(page)
  BY <1>2, <1>6, <1>7 DEF Increasing
<1>9. ASSUME NEW r \in S PROVE r \in ToSet(page) \/ \A i \in DOMAIN page : Less(Key(page[i]), Key(r))
  <2>1. PICK j \in 1..n : Sorted(S)[j] = r
    BY <1>2
  <2>2. CASE j <= b
    BY <1>3, <1>6, <2>1, <2>2 DEF ToSet
  <2>3. CASE j > b
    BY <1>2, <1>3, <1>6, <1>7, <2>1, <2>3
  <2> QED BY <1>2, <1>3, <2>2, <2>3
<1>10. page \in Seq(Visible(p))
  BY <1>1, <1>6
<1> QED BY <1>5, <1>6, <1>7, <1>8, <1>9, <1>10 DEF page

(* What a poll adds: the rows of the page that are not shown yet, as they   *)
(* follow each other in it.                                                 *)
LEMMA AppendFacts ==
  ASSUME NEW S, NEW old \in Seq(S), NEW new \in Seq(S)
  PROVE  LET all == AppendNew(old, new) IN
         /\ all \in Seq(S) /\ Len(old) <= Len(all)
         /\ \A i \in DOMAIN old : all[i] = old[i]
         /\ \A j \in DOMAIN all \ DOMAIN old :
              all[j] \notin ToSet(old) /\ \E i \in DOMAIN new : all[j] = new[i]
         /\ \A j, k \in DOMAIN all \ DOMAIN old : j < k =>
              \E h, i \in DOMAIN new : h < i /\ all[j] = new[h] /\ all[k] = new[i]
         /\ \A i \in DOMAIN new : new[i] \in ToSet(all)
<1> DEFINE fresh == {i \in DOMAIN new : new[i] \notin ToSet(old)}
           m == Cardinality(fresh)
           before == [i \in fresh |-> {j \in fresh : j < i}]
           nth(n) == CHOOSE i \in fresh : Cardinality({j \in fresh : j < i}) = n - 1
           list == [n \in 1..m |-> nth(n)]
           tail == [n \in 1..m |-> new[nth(n)]]
           all == AppendNew(old, new)
<1>1. IsFiniteSet(fresh) /\ fresh \in SUBSET Nat
  <2>1. DOMAIN new = 1..Len(new) /\ Len(new) \in Nat
    OBVIOUS
  <2>2. IsFiniteSet(1..Len(new))
    BY <2>1, FS_Interval
  <2> QED BY <2>1, <2>2, FS_Subset
<1>2. before \in [fresh -> SUBSET fresh]
  OBVIOUS
<1>3. /\ \A i, j \in fresh : j \in before[i] <=> j < i
      /\ \A i \in fresh : before[i] = {j \in fresh : j < i}
  OBVIOUS
<1>4. all = old \o tail
  BY DEF AppendNew
<1>5. \A i \in fresh : i \in DOMAIN new /\ new[i] \notin ToSet(old) /\ new[i] \in S
  OBVIOUS
<1>6. \A i \in DOMAIN new : i \in fresh \/ new[i] \in ToSet(old)
  OBVIOUS
<1> HIDE DEF before
<1>7. /\ \A i \in fresh : i \notin before[i]
      /\ \A i, j \in fresh : i = j \/ i \in before[j] \/ j \in before[i]
      /\ \A i, j, k \in fresh : i \in before[j] /\ j \in before[k] => i \in before[k]
  <2> HIDE DEF fresh
  <2> QED BY <1>1, <1>3
<1>8. /\ m \in Nat
      /\ \A n \in 0..(m - 1) : \E i \in fresh : Cardinality(before[i]) = n
  BY <1>1, <1>2, <1>7, Ranks
<1> HIDE DEF fresh, m, all
<1>9. ASSUME NEW n \in 1..m PROVE nth(n) \in fresh /\ Cardinality(before[nth(n)]) = n - 1
  <2>1. n - 1 \in 0..(m - 1)
    BY <1>8
  <2>2. \E i \in fresh : Cardinality({j \in fresh : j < i}) = n - 1
    BY <1>3, <1>8, <2>1
  <2>3. nth(n) \in fresh /\ Cardinality({j \in fresh : j < nth(n)}) = n - 1
    BY <2>2
  <2> HIDE DEF nth
  <2> QED BY <1>3, <2>3
<1> HIDE DEF nth
<1>10. list \in [1..m -> fresh] /\ \A n \in 1..m : list[n] = nth(n)
  BY <1>9
<1>11. /\ \A n, o \in 1..m : n < o => nth(n) \in before[nth(o)]
       /\ \A i \in fresh : \E n \in 1..m : nth(n) = i
  <2> HIDE DEF list, tail
  <2>0. \A n \in 1..m : Cardinality(before[list[n]]) = n - 1
    BY <1>9, <1>10
  <2>1. /\ \A n, o \in 1..m : n < o => list[n] \in before[list[o]]
        /\ \A i \in fresh : \E n \in 1..m : list[n] = i
    BY <1>1, <1>2, <1>7, <1>10, <2>0, Listing DEF m
  <2> QED BY <1>10, <2>1
<1>12. ASSUME NEW n \in 1..m, NEW o \in 1..m, n < o PROVE nth(n) < nth(o)
  BY <1>3, <1>9, <1>11, <1>12
<1>13. tail \in Seq(S) /\ Len(tail) = m /\ \A n \in 1..m : tail[n] = new[nth(n)]
  BY <1>5, <1>8, <1>9
<1> HIDE DEF tail, list
<1>14. /\ all \in Seq(S) /\ Len(all) = Len(old) + m
       /\ \A i \in 1..Len(old) : all[i] = old[i]
       /\ \A n \in 1..m : all[Len(old) + n] = tail[n]
  <2>1. all \in Seq(S) /\ Len(all) = Len(old) + m
    BY <1>4, <1>13
  <2>2. \A i \in 1..Len(old) : all[i] = old[i]
    BY <1>4, <1>13
  <2>3. ASSUME NEW n \in 1..m PROVE all[Len(old) + n] = tail[n]
    BY <1>4, <1>8, <1>13
  <2> QED BY <2>1, <2>2, <2>3
<1>15. ASSUME NEW j \in DOMAIN all \ DOMAIN old
       PROVE  j - Len(old) \in 1..m /\ all[j] = new[nth(j - Len(old))]
  <2>1. j \in 1..(Len(old) + m) /\ j \notin 1..Len(old) /\ Len(old) \in Nat
    BY <1>14
  <2>2. j - Len(old) \in 1..m /\ Len(old) + (j - Len(old)) = j
    BY <1>8, <2>1
  <2> QED BY <1>13, <1>14, <2>2
<1>16. \A j \in DOMAIN all \ DOMAIN old :
         all[j] \notin ToSet(old) /\ \E i \in DOMAIN new : all[j] = new[i]
  BY <1>5, <1>9, <1>15
<1>17. ASSUME NEW j \in DOMAIN all \ DOMAIN old, NEW k \in DOMAIN all \ DOMAIN old, j < k
       PROVE  \E h, i \in DOMAIN new : h < i /\ all[j] = new[h] /\ all[k] = new[i]
  <2>1. j - Len(old) < k - Len(old)
    BY <1>14, <1>17
  <2>2. nth(j - Len(old)) < nth(k - Len(old))
    BY <1>12, <1>15, <2>1
  <2> QED BY <1>5, <1>9, <1>15, <2>2
<1>18. ASSUME NEW i \in DOMAIN new PROVE new[i] \in ToSet(all)
  <2>1. CASE new[i] \in ToSet(old)
    <3>1. PICK h \in 1..Len(old) : old[h] = new[i]
      BY <2>1 DEF ToSet
    <3>2. h \in DOMAIN all /\ all[h] = new[i]
      BY <1>8, <1>14, <3>1
    <3> QED BY <3>2 DEF ToSet
  <2>2. CASE i \in fresh
    <3>1. PICK n \in 1..m : nth(n) = i
      BY <1>11, <2>2
    <3>2. all[Len(old) + n] = new[i] /\ Len(old) + n \in DOMAIN all
      BY <1>8, <1>13, <1>14, <3>1
    <3> QED BY <3>2 DEF ToSet
  <2> QED BY <1>6, <2>1, <2>2
<1> QED BY <1>8, <1>14, <1>16, <1>17, <1>18 DEF all

-----------------------------------------------------------------------------
(* The invariant *)

(* Types; a row that is shown is committed, and its transaction has begun.  *)
Typed ==
  /\ TypeOK
  /\ DOMAIN req = Slot
  /\ \A t \in committed : began[t] # 0
  /\ \A i \in DOMAIN shown : Writes[shown[i]] \in committed

(* What the server may answer about the pair p, asked with k, when it sees  *)
(* rows: rows of the pair, in order; a row that it did not see, and that    *)
(* did not come late, is behind those it saw; and with a cursor, no row     *)
(* behind it is left out before the last one sent.                          *)
Answer(p, k, page, rows) ==
  /\ rows \subseteq Visible(p)
  /\ page \in Seq(rows) /\ Increasing(page)
  /\ \A r \in Visible(p) \ (rows \cup late) : \A s \in rows : Less(Key(s), Key(r))
  /\ k # None =>
       /\ \A i \in DOMAIN page : Less(k, Key(page[i]))
       /\ \A r \in rows : Less(k, Key(r)) =>
            r \in ToSet(page) \/ \A i \in DOMAIN page : Less(Key(page[i]), Key(r))
PagesInv ==
  \A q \in Slot : req[q] # None /\ req[q].page # None =>
    Answer(req[q].pair, req[q].after, req[q].page, req[q].rows)

Newest(q, kind) == req[q] # None /\ req[q].kind = kind /\ Current(q)

(* One load is the newest and settles the screen; only then polls are made, *)
(* of the pair the user is on.                                              *)
TokenInv ==
  /\ \A q \in Slot : req[q] # None =>
       req[q].token <= token /\ (req[q].kind = "load" => req[q].after = None)
  /\ \A q \in Slot : Newest(q, "load") =>
       /\ ~settled /\ (~astray => req[q].pair = pair)
       /\ \A o \in Slot : Newest(o, "load") => o = q
  /\ \A q \in Slot : Newest(q, "poll") => settled /\ req[q].pair = pair
  /\ ~settled => cursor = None

(* The screen: no row twice, in order, and of one pair. *)
ScreenInv ==
  /\ \A i, j \in DOMAIN shown : shown[i] = shown[j] => i = j
  /\ ShownInOrder
  /\ ScreenIsOfItsPair

(* The keys behind which the handset looks, or is about to.                 *)
Anchor(k) ==
  k # None /\ (k = cursor \/ \E q \in Slot : Newest(q, "poll") /\ req[q].after = k)

(* The last row of a pair the user has left, after a text was sent to it.   *)
LastForeign(i) ==
  /\ i \in DOMAIN shown /\ Of[shown[i]] # pair
  /\ \A j \in DOMAIN shown : j > i => Of[shown[j]] = pair

(* Wherever the handset looks on, from the rows shown or the last foreign   *)
(* one, whatever it has not got is behind all it has got - but for what     *)
(* is before a foreign row.                                                 *)
AnchorInv ==
  /\ \A k : Anchor(k) => \E i \in DOMAIN shown :
       k = Key(shown[i]) /\ (Of[shown[i]] = pair \/ LastForeign(i))
  /\ \A i, j \in DOMAIN shown :
       LastForeign(i) /\ Of[shown[j]] = pair => Less(Key(shown[i]), Key(shown[j]))
  /\ \A r \in Visible(pair) \ (late \cup older \cup ToSet(shown)) :
       \/ \E i \in DOMAIN shown : LastForeign(i) /\ ~Less(Key(shown[i]), Key(r))
       \/ \A j \in DOMAIN shown : Of[shown[j]] = pair => Less(Key(shown[j]), Key(r))
ReachInv == settled /\ ~undone => AnchorInv

ConversationInv == Typed /\ PagesInv /\ TokenInv /\ ScreenInv /\ ReachInv

-----------------------------------------------------------------------------
(* The steps of the server *)

(* It holds of the first load of an empty screen. *)
LEMMA InitInv == Init => ConversationInv
<1> SUFFICES ASSUME Init PROVE ConversationInv
  OBVIOUS
<1>1. PICK q \in Slot : req = [[o \in Slot |-> None] EXCEPT ![q] = Asking("load", First, 1, None)]
  BY DEF Init
<1>2. /\ DOMAIN req = Slot
      /\ \A o \in Slot \ {q} : req[o] = None
      /\ req[q] = Asking("load", First, 1, None)
  BY <1>1
<1>3. /\ Asking("load", First, 1, None) \in Request0
      /\ Asking("load", First, 1, None).page = None
      /\ Asking("load", First, 1, None).pair = First
      /\ Asking("load", First, 1, None).kind = "load"
      /\ Asking("load", First, 1, None).token = 1
      /\ Asking("load", First, 1, None).after = None
  BY RowsAssumption DEF Asking, Request0
<1>4. Typed
  <2>1. clock \in Nat /\ began \in [Txn -> Nat] /\ pair \in Pair /\ shown \in Seq(Row)
    BY RowsAssumption DEF Init
  <2>2. token \in 1..MaxLoad /\ lost \in 0..MaxLost
    BY BoundsAssumption DEF Init
  <2>3. \A o \in Slot : req[o] = None \/ req[o] \in Request0
    BY <1>2, <1>3
  <2>4. /\ committed = {} /\ late = {} /\ older = {} /\ shown = <<>> /\ cursor = None
        /\ posting \in [Pair -> 0..MaxLoad]
        /\ astray = FALSE /\ settled = FALSE /\ undone = FALSE
    BY BoundsAssumption DEF Init
  <2>5. TypeOK
    BY <2>1, <2>2, <2>3, <2>4 DEF TypeOK
  <2> QED BY <1>2, <2>4, <2>5 DEF Typed
<1>5. PagesInv
  BY <1>2, <1>3 DEF PagesInv
<1>6. TokenInv
  BY <1>2, <1>3 DEF Init, TokenInv, Newest, Current
<1>7. ScreenInv
  BY DEF Init, ScreenInv, ShownInOrder, ScreenIsOfItsPair
<1>8. ReachInv
  BY DEF Init, ReachInv
<1> QED BY <1>4, <1>5, <1>6, <1>7, <1>8 DEF ConversationInv

(* A row that comes in time comes behind every row of its pair; no key of a *)
(* row already there changes.                                               *)
Arrives ==
  /\ UNCHANGED <<pair, screen, token, posting, req, lost>>
  /\ clock' \in Nat /\ began' \in [Txn -> Nat]
  /\ committed' \in SUBSET Txn /\ late' \in SUBSET Row
  /\ committed \subseteq committed' /\ late \subseteq late'
  /\ \A t \in committed' : began'[t] = began[t] /\ began[t] # 0
  /\ \A r \in Row : Writes[r] \in committed' \ committed /\ r \notin late' =>
       \A s \in Visible(Of[r]) : Less(Key(s), Key(r))

(* The keys of visible rows stay what they are. *)
LEMMA ArrivesKeepsKeys ==
  ASSUME Arrives, NEW r \in Row, Writes[r] \in committed'
  PROVE  Key(r)' = Key(r)
BY RowsAssumption DEF Arrives, Key

(* Answers on their way stay right: what they have not seen is behind them. *)
LEMMA ArrivesKeepsAnswer ==
  ASSUME Arrives, NEW p, NEW k, NEW page, NEW rows, Answer(p, k, page, rows)
  PROVE  Answer(p, k, page, rows)'
<1>1. /\ rows \subseteq Visible(p) /\ page \in Seq(rows)
      /\ \A i, j \in DOMAIN page : i < j => Less(Key(page[i]), Key(page[j]))
      /\ \A r \in Visible(p) \ (rows \cup late) : \A s \in rows : Less(Key(s), Key(r))
      /\ k # None =>
           /\ \A i \in DOMAIN page : Less(k, Key(page[i]))
           /\ \A r \in rows : Less(k, Key(r)) =>
                r \in ToSet(page) \/ \A i \in DOMAIN page : Less(Key(page[i]), Key(r))
  BY DEF Answer, Increasing
<1>2. \A r \in rows : r \in Row /\ Of[r] = p /\ Writes[r] \in committed'
  BY <1>1 DEF Visible, Arrives
<1>3. \A r \in rows : Key(r)' = Key(r)
  BY <1>2, ArrivesKeepsKeys
<1>4. rows \subseteq Visible(p)'
  BY <1>2 DEF Visible
<1>5. \A i \in DOMAIN page : page[i] \in rows
  BY <1>1
<1>6. ASSUME NEW r \in Visible(p)' \ (rows \cup late'), NEW s \in rows
      PROVE  Less(Key(s)', Key(r)')
  <2>1. r \in Row /\ Of[r] = p /\ Writes[r] \in committed' /\ r \notin late /\ r \notin late'
    BY DEF Visible, Arrives
  <2>2. Key(r)' = Key(r) /\ Key(s)' = Key(s)
    BY <1>3, <2>1, ArrivesKeepsKeys
  <2>3. CASE Writes[r] \in committed
    BY <1>1, <2>1, <2>2, <2>3 DEF Visible
  <2>4. CASE Writes[r] \notin committed
    BY <1>1, <2>1, <2>2, <2>4 DEF Arrives
  <2> QED BY <2>3, <2>4
<1>7. \A i, j \in DOMAIN page : i < j => Less(Key(page[i])', Key(page[j])')
  BY <1>1, <1>3, <1>5
<1>8. k # None =>
        /\ \A i \in DOMAIN page : Less(k, Key(page[i])')
        /\ \A r \in rows : Less(k, Key(r)') =>
             r \in ToSet(page) \/ \A i \in DOMAIN page : Less(Key(page[i])', Key(r)')
  BY <1>1, <1>3, <1>5
<1> QED BY <1>1, <1>4, <1>6, <1>7, <1>8 DEF Answer, Increasing

(* So does the screen: what it has not got is still behind it. *)
LEMMA ArrivesKeepsScreen ==
  ASSUME ConversationInv, Arrives
  PROVE  ScreenInv' /\ ReachInv'
<1>1. UNCHANGED <<pair, shown, cursor, settled, older, undone, astray, token, req>>
  BY DEF Arrives, screen
<1>2. Typed /\ ScreenInv /\ ReachInv /\ shown \in Seq(Row)
  BY DEF ConversationInv, Typed, TypeOK
<1>3. \A i \in DOMAIN shown :
        shown[i] \in Row /\ Writes[shown[i]] \in committed /\ Writes[shown[i]] \in committed'
  BY <1>2 DEF Typed, Arrives
<1>4. \A i \in DOMAIN shown : Key(shown[i])' = Key(shown[i])
  <2>1. \A r \in Row : Writes[r] \in committed' => Key(r)' = Key(r)
    BY ArrivesKeepsKeys
  <2> QED BY <1>1, <1>3, <2>1 DEF Key
<1>5. ScreenInv'
  <2>1. ShownInOrder'
    BY <1>1, <1>2, <1>4 DEF ScreenInv, ShownInOrder, Arrives
  <2> QED BY <1>1, <1>2, <2>1 DEF ScreenInv, ScreenIsOfItsPair
<1>6. ASSUME settled, ~undone PROVE AnchorInv'
  <2>1. AnchorInv
    BY <1>2, <1>6 DEF ReachInv
  <2>2. \A i : LastForeign(i)' <=> LastForeign(i)
    BY <1>1 DEF LastForeign
  <2>3. \A k : Anchor(k)' <=> Anchor(k)
    BY <1>1 DEF Anchor, Newest, Current
  <2>4. \A k : Anchor(k)' => \E i \in DOMAIN shown :
          k = Key(shown[i])' /\ (Of[shown[i]] = pair \/ LastForeign(i)')
    BY <1>4, <2>1, <2>2, <2>3 DEF AnchorInv
  <2>5. \A i, j \in DOMAIN shown :
          LastForeign(i)' /\ Of[shown[j]] = pair => Less(Key(shown[i])', Key(shown[j])')
    BY <1>4, <2>1, <2>2 DEF AnchorInv
  <2>6. ASSUME NEW r \in Visible(pair)' \ (late' \cup older \cup ToSet(shown))
        PROVE  \/ \E i \in DOMAIN shown : LastForeign(i)' /\ ~Less(Key(shown[i])', Key(r)')
               \/ \A j \in DOMAIN shown : Of[shown[j]] = pair => Less(Key(shown[j])', Key(r)')
    <3>1. r \in Row /\ Of[r] = pair /\ Writes[r] \in committed' /\ r \notin late /\ r \notin late'
      BY <1>1 DEF Visible, Arrives
    <3>2. Key(r)' = Key(r)
      BY <3>1, ArrivesKeepsKeys
    <3>3. CASE Writes[r] \in committed
      <4>1. r \in Visible(pair) \ (late \cup older \cup ToSet(shown))
        BY <2>6, <3>1, <3>3 DEF Visible
      <4> QED BY <1>4, <2>1, <2>2, <3>2, <4>1 DEF AnchorInv
    <3>4. CASE Writes[r] \notin committed
      <4>1. \A j \in DOMAIN shown : Of[shown[j]] = pair => shown[j] \in Visible(Of[r])
        BY <1>3, <3>1 DEF Visible
      <4>2. \A j \in DOMAIN shown : Of[shown[j]] = pair => Less(Key(shown[j]), Key(r))
        BY <3>1, <3>4, <4>1 DEF Arrives
      <4> QED BY <1>4, <3>2, <4>2
    <3> QED BY <3>3, <3>4
  <2> QED BY <1>1, <2>4, <2>5, <2>6 DEF AnchorInv
<1> QED BY <1>1, <1>5, <1>6 DEF ReachInv

(* A transaction begins, or commits. *)
LEMMA ServerKeeps ==
  ASSUME ConversationInv, NEW t \in Txn, Begin(t) \/ Commit(t)
  PROVE  ConversationInv'
<1>1. Typed /\ clock \in Nat /\ began \in [Txn -> Nat] /\ committed \in SUBSET Txn
        /\ late \in SUBSET Row
  BY DEF ConversationInv, Typed, TypeOK
<1>2. Arrives
  <2>1. CASE Begin(t)
    BY <1>1, <2>1 DEF Begin, Arrives, Typed
  <2>2. CASE Commit(t)
    <3>1. UNCHANGED <<clock, began, pair, screen, token, posting, req, lost>>
      BY <2>2 DEF Commit
    <3>2. \A u \in committed' : began[u] # 0
      BY <1>1, <2>2 DEF Commit, Typed
    <3>3. ASSUME NEW r \in Row, Writes[r] \in committed' \ committed, r \notin late',
                 NEW s \in Visible(Of[r])
          PROVE  Less(Key(s), Key(r))
      <4>1. s \in Row /\ s # r
        BY <3>3 DEF Visible
      <4>2. ~Less(Key(r), Key(s))
        BY <2>2, <3>3 DEF Commit
      <4> QED BY <1>1, <4>1, <4>2, KeyOrder
    <3> QED BY <1>1, <2>2, <3>1, <3>2, <3>3 DEF Commit, Arrives
  <2> QED BY <2>1, <2>2
<1>3. Typed'
  BY <1>1, <1>2 DEF Typed, TypeOK, Arrives, screen
<1>4. TokenInv'
  BY <1>2 DEF ConversationInv, TokenInv, Arrives, screen, Newest, Current
<1>5. PagesInv'
  <2> SUFFICES ASSUME NEW q \in Slot, req[q] # None, req[q].page # None
               PROVE  Answer(req[q].pair, req[q].after, req[q].page, req[q].rows)'
    BY <1>2 DEF PagesInv, Arrives
  <2>1. PICK p, k, page, rows : /\ p = req[q].pair /\ k = req[q].after
                                /\ page = req[q].page /\ rows = req[q].rows
    OBVIOUS
  <2>2. Answer(p, k, page, rows)'
    BY <1>2, <2>1, ArrivesKeepsAnswer DEF ConversationInv, PagesInv
  <2> QED BY <1>2, <2>1, <2>2 DEF Arrives, Answer, Increasing
<1> QED BY <1>2, <1>3, <1>4, <1>5, ArrivesKeepsScreen DEF ConversationInv

(* What is not touched stays typed. *)
LEMMA TypedKept ==
  ASSUME Typed, UNCHANGED server, DOMAIN req' = Slot,
         \A q \in Slot : req'[q] = None \/ req'[q] = req[q] \/ req'[q] \in Request0,
         pair' \in Pair, astray' \in BOOLEAN, posting' \in [Pair -> 0..MaxLoad],
         shown' \in Seq(Row), \A i \in DOMAIN shown' : Writes[shown'[i]] \in committed,
         older' \in SUBSET Row, cursor' \in (Nat \X Nat) \cup {None},
         token' \in 1..MaxLoad, settled' \in BOOLEAN, undone' \in BOOLEAN,
         lost' \in 0..MaxLost
  PROVE  Typed'
<1>1. clock' = clock /\ began' = began /\ committed' = committed /\ late' = late
  BY DEF server
<1>2. \A q \in Slot : req'[q] = None \/ req'[q] \in Request0
  BY DEF Typed, TypeOK
<1>3. clock \in Nat /\ began \in [Txn -> Nat] /\ committed \in SUBSET Txn /\ late \in SUBSET Row
  BY DEF Typed, TypeOK
<1>4. TypeOK'
  BY <1>1, <1>2, <1>3 DEF TypeOK
<1> QED BY <1>1, <1>4 DEF Typed

(* The parts of the state, as the steps below need them. *)
LEMMA Parts ==
  ASSUME Typed
  PROVE  /\ pair \in Pair /\ astray \in BOOLEAN /\ posting \in [Pair -> 0..MaxLoad]
         /\ shown \in Seq(Row) /\ \A i \in DOMAIN shown : Writes[shown[i]] \in committed
         /\ older \in SUBSET Row /\ cursor \in (Nat \X Nat) \cup {None}
         /\ token \in 1..MaxLoad /\ settled \in BOOLEAN /\ undone \in BOOLEAN
         /\ lost \in 0..MaxLost /\ DOMAIN req = Slot
         /\ \A q \in Slot : req[q] = None \/ req[q] \in Request0
         /\ began \in [Txn -> Nat] /\ MaxLoad \in Nat /\ token \in Nat
<1>1. MaxLoad \in Nat
  BY BoundsAssumption
<1> QED BY <1>1 DEF Typed, TypeOK

(* Answers stay right while nothing is written. *)
LEMMA AnswerKept ==
  ASSUME UNCHANGED server, NEW p, NEW k, NEW page, NEW rows, Answer(p, k, page, rows)
  PROVE  Answer(p, k, page, rows)'
BY DEF Answer, Increasing, Visible, Key, server

(* So does what is under way. *)
LEMMA PagesKept ==
  ASSUME PagesInv, UNCHANGED server,
         \A q \in Slot : req'[q] # None /\ req'[q].page # None => req'[q] = req[q]
  PROVE  PagesInv'
<1> SUFFICES ASSUME NEW q \in Slot, req'[q] # None, req'[q].page # None
             PROVE  Answer(req[q].pair, req[q].after, req[q].page, req[q].rows)'
  BY DEF PagesInv
<1>1. req'[q] = req[q]
  OBVIOUS
<1>2. PICK p, k, page, rows : /\ p = req[q].pair /\ k = req[q].after
                              /\ page = req[q].page /\ rows = req[q].rows
  OBVIOUS
<1>3. Answer(p, k, page, rows)'
  BY <1>1, <1>2, AnswerKept DEF PagesInv
<1> QED BY <1>1, <1>2, <1>3 DEF Answer, Increasing

(* A screen nobody touches is as good as it was, while polls look on from   *)
(* where they did.                                                          *)
LEMMA ScreenKept ==
  ASSUME ScreenInv, ReachInv, UNCHANGED <<server, pair, screen>>,
         \A k : Anchor(k)' => Anchor(k)
  PROVE  ScreenInv' /\ ReachInv'
<1>1. ScreenInv'
  BY DEF ScreenInv, ShownInOrder, ScreenIsOfItsPair, Key, server, screen
<1>2. ReachInv'
  BY DEF ReachInv, AnchorInv, LastForeign, Visible, Key, server, screen
<1> QED BY <1>1, <1>2

(* The order of loads and polls holds when requests end or are answered. *)
LEMMA TokenKept ==
  ASSUME TokenInv, UNCHANGED <<pair, token, settled, cursor, astray>>,
         \A q \in Slot : req'[q] # None =>
           /\ req[q] # None /\ req'[q].token = req[q].token /\ req'[q].kind = req[q].kind
           /\ req'[q].pair = req[q].pair /\ req'[q].after = req[q].after
  PROVE  TokenInv'
<1>1. \A kind : \A q \in Slot : Newest(q, kind)' => Newest(q, kind) /\ req'[q].pair = req[q].pair
  BY DEF Newest, Current
<1>2. \A q \in Slot : req'[q] # None =>
        req'[q].token <= token' /\ (req'[q].kind = "load" => req'[q].after = None)
  BY DEF TokenInv
<1>3. \A q \in Slot : Newest(q, "load")' =>
        /\ ~settled' /\ (~astray' => req'[q].pair = pair')
        /\ \A o \in Slot : Newest(o, "load")' => o = q
  BY <1>1 DEF TokenInv
<1>4. \A q \in Slot : Newest(q, "poll")' => settled' /\ req'[q].pair = pair'
  BY <1>1 DEF TokenInv
<1>5. ~settled' => cursor' = None
  BY DEF TokenInv
<1> QED BY <1>2, <1>3, <1>4, <1>5 DEF TokenInv

(* A request is answered with a page of what is visible. *)
LEMMA ServeKeeps ==
  ASSUME ConversationInv, NEW q \in Slot, Serve(q)
  PROVE  ConversationInv'
<1> DEFINE p == req[q].pair
           k == req[q].after
           page == Page(p, k)
<1>1. /\ UNCHANGED <<server, pair, screen, token, posting, lost>>
      /\ req' = [req EXCEPT ![q].page = page, ![q].rows = Visible(p)]
      /\ req[q] # None
  BY DEF Serve
<1>2. Typed /\ DOMAIN req = Slot /\ began \in [Txn -> Nat] /\ req[q] \in Request0
  BY <1>1 DEF ConversationInv, Typed, TypeOK
<1>3. /\ req'[q] = [req[q] EXCEPT !.page = page, !.rows = Visible(p)]
      /\ \A o \in Slot \ {q} : req'[o] = req[o]
      /\ DOMAIN req' = Slot
  BY <1>1, <1>2
<1>4. /\ req'[q].kind = req[q].kind /\ req'[q].pair = p /\ req'[q].token = req[q].token
      /\ req'[q].after = k /\ req'[q].page = page /\ req'[q].rows = Visible(p)
  BY <1>2, <1>3 DEF Request0
<1>5. Answer(p, k, page, Visible(p))
  <2>1. CASE k = None
    <3>1. page = FirstPage(p)
      BY <2>1 DEF Page
    <3> QED BY <1>2, <2>1, <3>1, FirstPageFacts DEF Answer
  <2>2. CASE k # None
    <3>1. page = NextPage(p, k)
      BY <2>2 DEF Page
    <3> QED BY <1>2, <2>2, <3>1, NextPageFacts DEF Answer
  <2> QED BY <2>1, <2>2
<1> HIDE DEF p, k, page
<1>6. page \in Seq(Row) /\ Visible(p) \in SUBSET Row
  BY <1>5 DEF Answer, Visible
<1>7. req'[q] \in Request0
  BY <1>2, <1>3, <1>6 DEF Request0
<1>8. Typed'
  <2>1. \A o \in Slot : req'[o] = req[o] \/ req'[o] \in Request0
    BY <1>3, <1>7
  <2>2. UNCHANGED <<pair, shown, cursor, settled, older, undone, astray, token, posting, lost>>
    BY <1>1 DEF screen
  <2> QED BY <1>1, <1>2, <1>3, <2>1, <2>2, Parts, TypedKept
<1>9. PagesInv'
  <2>1. ASSUME NEW o \in Slot \ {q}, req'[o] # None, req'[o].page # None
        PROVE  Answer(req'[o].pair, req'[o].after, req'[o].page, req'[o].rows)
    BY <1>3, <2>1 DEF ConversationInv, PagesInv
  <2>2. Answer(req'[q].pair, req'[q].after, req'[q].page, req'[q].rows)
    BY <1>4, <1>5
  <2>3. ASSUME NEW o \in Slot, req'[o] # None, req'[o].page # None
        PROVE  Answer(req[o].pair, req[o].after, req[o].page, req[o].rows)'
    <3>1. PICK l, m, some, all : /\ l = req'[o].pair /\ m = req'[o].after
                                 /\ some = req'[o].page /\ all = req'[o].rows
      OBVIOUS
    <3>2. Answer(l, m, some, all)
      BY <2>1, <2>2, <2>3, <3>1
    <3>3. Answer(l, m, some, all)'
      BY <1>1, <3>2, AnswerKept
    <3> QED BY <3>1, <3>3 DEF Answer, Increasing
  <2> QED BY <2>3 DEF PagesInv
<1>10. \A o \in Slot : req'[o] # None =>
         /\ req[o] # None /\ req'[o].token = req[o].token /\ req'[o].kind = req[o].kind
         /\ req'[o].pair = req[o].pair /\ req'[o].after = req[o].after
  BY <1>1, <1>3, <1>4 DEF p, k
<1>11. \A kind : \A o \in Slot : Newest(o, kind)' => Newest(o, kind)
  BY <1>1, <1>10 DEF Newest, Current
<1>12. TokenInv'
  BY <1>1, <1>10, <1>11, TokenKept DEF ConversationInv, screen
<1>13. \A l : Anchor(l)' => Anchor(l)
  BY <1>1, <1>10, <1>11 DEF Anchor, screen, Newest
<1> QED BY <1>1, <1>8, <1>9, <1>12, <1>13, ScreenKept DEF ConversationInv

-----------------------------------------------------------------------------
(* The steps of the handset *)

(* A request ends without anything on the screen. *)
LEMMA FewerRequests ==
  ASSUME ConversationInv, UNCHANGED <<server, pair, screen, token>>,
         DOMAIN req' = Slot, \A q \in Slot : req'[q] = req[q] \/ req'[q] = None,
         posting' \in [Pair -> 0..MaxLoad], lost' \in 0..MaxLost
  PROVE  ConversationInv'
<1>1. UNCHANGED <<pair, shown, cursor, settled, older, undone, astray, token>>
  BY DEF screen
<1>2. Typed'
  BY <1>1, Parts, TypedKept DEF ConversationInv
<1>3. PagesInv'
  BY PagesKept DEF ConversationInv
<1>4. \A q \in Slot : req'[q] # None => req'[q] = req[q] /\ req[q] # None
  OBVIOUS
<1>5. TokenInv'
  BY <1>1, <1>4, TokenKept DEF ConversationInv
<1>6. \A k : Anchor(k)' => Anchor(k)
  BY <1>1, <1>4 DEF Anchor, Newest, Current
<1> QED BY <1>2, <1>3, <1>5, <1>6, ScreenKept DEF ConversationInv

(* The timer asks with the cursor the screen has. *)
LEMMA PollKeeps ==
  ASSUME ConversationInv, NEW q \in Slot, Poll(q)
  PROVE  ConversationInv'
<1>1. /\ UNCHANGED <<server, pair, screen, token, posting, lost>>
      /\ settled /\ req[q] = None
      /\ req' = [req EXCEPT ![q] = Asking("poll", pair, token, cursor)]
  BY DEF Poll, Request
<1>2. UNCHANGED <<pair, shown, cursor, settled, older, undone, astray, token, posting, lost>>
  BY <1>1 DEF screen
<1>3. /\ DOMAIN req = Slot /\ pair \in Pair /\ token \in Nat
      /\ cursor \in (Nat \X Nat) \cup {None}
  BY Parts DEF ConversationInv
<1>4. /\ req'[q].kind = "poll" /\ req'[q].pair = pair /\ req'[q].token = token
      /\ req'[q].after = cursor /\ req'[q].page = None /\ req'[q] \in Request0
  <2>1. req'[q] = Asking("poll", pair, token, cursor)
    BY <1>1, <1>3
  <2> QED BY <1>3, <2>1 DEF Asking, Request0
<1>5. DOMAIN req' = Slot /\ \A o \in Slot \ {q} : req'[o] = req[o]
  BY <1>1, <1>3
<1>6. Typed'
  <2>1. \A o \in Slot : req'[o] = req[o] \/ req'[o] \in Request0
    BY <1>4, <1>5
  <2> QED BY <1>1, <1>2, <1>5, <2>1, Parts, TypedKept DEF ConversationInv
<1>7. PagesInv'
  BY <1>1, <1>4, <1>5, PagesKept DEF ConversationInv
<1>8. /\ \A kind : \A o \in Slot \ {q} : Newest(o, kind)' <=> Newest(o, kind)
      /\ ~Newest(q, "load")'
  BY <1>1, <1>4, <1>5 DEF Newest, Current
<1>9. TokenInv'
  <2> USE DEF ConversationInv, TokenInv
  <2>1. \A o \in Slot : req'[o] # None =>
          req'[o].token <= token' /\ (req'[o].kind = "load" => req'[o].after = None)
    BY <1>2, <1>3, <1>4, <1>5
  <2>2. \A o \in Slot : Newest(o, "load")' =>
          /\ ~settled' /\ (~astray' => req'[o].pair = pair')
          /\ \A p \in Slot : Newest(p, "load")' => p = o
    BY <1>2, <1>5, <1>8
  <2>3. \A o \in Slot : Newest(o, "poll")' => settled' /\ req'[o].pair = pair'
    BY <1>1, <1>2, <1>4, <1>5, <1>8
  <2>4. ~settled' => cursor' = None
    BY <1>2
  <2> QED BY <2>1, <2>2, <2>3, <2>4
<1>10. \A k : Anchor(k)' => Anchor(k)
  BY <1>2, <1>4, <1>5, <1>8 DEF Anchor
<1> QED BY <1>1, <1>6, <1>7, <1>9, <1>10, ScreenKept DEF ConversationInv

(* A load takes the screen out of reach of every answer on its way. *)
LEMMA LoadKeeps ==
  ASSUME ConversationInv, NEW q \in Slot, NEW p \in Pair, Load(q, p),
         UNCHANGED <<server, shown, older, undone, lost>>,
         pair' \in Pair, posting' \in [Pair -> 0..MaxLoad],
         astray' \in BOOLEAN, ~astray' => pair' = p
  PROVE  ConversationInv'
<1>1. /\ token < MaxLoad /\ token' = token + 1 /\ settled' = FALSE /\ cursor' = None
      /\ req[q] = None
      /\ req' = [req EXCEPT ![q] = Asking("load", p, token', None)]
  BY DEF Load, Request
<1>2. DOMAIN req = Slot /\ token \in Nat /\ token' \in Nat /\ token' \in 1..MaxLoad
  BY <1>1, Parts DEF ConversationInv
<1>3. /\ req'[q].kind = "load" /\ req'[q].pair = p /\ req'[q].token = token'
      /\ req'[q].after = None /\ req'[q].page = None /\ req'[q] \in Request0
  <2>1. req'[q] = Asking("load", p, token', None)
    BY <1>1, <1>2
  <2> QED BY <1>2, <2>1 DEF Asking, Request0
<1>4. DOMAIN req' = Slot /\ \A o \in Slot \ {q} : req'[o] = req[o]
  BY <1>1, <1>2
<1>5. Typed'
  <2>1. \A o \in Slot : req'[o] = req[o] \/ req'[o] \in Request0
    BY <1>3, <1>4
  <2> QED BY <1>1, <1>2, <1>4, <2>1, Parts, TypedKept DEF ConversationInv
<1>6. PagesInv'
  BY <1>3, <1>4, PagesKept DEF ConversationInv
<1>7. \A o \in Slot : req[o] # None => req[o].token \in Nat /\ req[o].token <= token
  <2>1. \A o \in Slot : req[o] # None => req[o] \in Request0
    BY Parts DEF ConversationInv
  <2> QED BY <2>1 DEF ConversationInv, Request0, TokenInv
<1>8. \A kind : \A o \in Slot \ {q} : ~Newest(o, kind)'
  BY <1>1, <1>2, <1>4, <1>7 DEF Newest, Current
<1>9. ~Newest(q, "poll")'
  BY <1>3 DEF Newest
<1>10. TokenInv'
  <2>1. \A o \in Slot : req'[o] # None =>
          req'[o].token <= token' /\ (req'[o].kind = "load" => req'[o].after = None)
    BY <1>1, <1>2, <1>3, <1>4, <1>7 DEF ConversationInv, TokenInv
  <2>2. \A o \in Slot : Newest(o, "load")' => o = q
    BY <1>8
  <2>3. \A o \in Slot : ~Newest(o, "poll")'
    BY <1>8, <1>9
  <2> QED BY <1>1, <1>3, <2>1, <2>2, <2>3 DEF TokenInv
<1>11. ScreenInv'
  BY <1>1 DEF ConversationInv, ScreenInv, ShownInOrder, ScreenIsOfItsPair, Key, server
<1>12. ReachInv'
  BY <1>1 DEF ReachInv
<1> QED BY <1>5, <1>6, <1>10, <1>11, <1>12 DEF ConversationInv

(* A load that fails leaves an empty screen, and nothing asks further. *)
LEMMA FailedLoadKeeps ==
  ASSUME ConversationInv, NEW q \in Slot, Lose(q), Newest(q, "load")
  PROVE  ConversationInv'
<1>1. /\ shown' = <<>> /\ settled' = TRUE
      /\ UNCHANGED <<server, pair, cursor, older, undone, astray, token, posting>>
      /\ req' = [req EXCEPT ![q] = None] /\ lost < MaxLost /\ lost' = lost + 1
  BY DEF Lose, Free, Newest
<1>2. DOMAIN req = Slot
  BY Parts DEF ConversationInv
<1>3. DOMAIN req' = Slot /\ req'[q] = None /\ \A o \in Slot \ {q} : req'[o] = req[o]
  BY <1>1, <1>2
<1>4. lost' \in 0..MaxLost
  BY <1>1, BoundsAssumption, Parts DEF ConversationInv
<1>5. Typed'
  <2>1. \A o \in Slot : req'[o] = None \/ req'[o] = req[o]
    BY <1>3
  <2> QED BY <1>1, <1>3, <1>4, <2>1, Parts, TypedKept DEF ConversationInv
<1>6. PagesInv'
  BY <1>1, <1>3, PagesKept DEF ConversationInv
<1>7. ~settled /\ cursor = None /\ \A o \in Slot : Newest(o, "load") => o = q
  BY DEF ConversationInv, TokenInv
<1>8. \A o \in Slot : ~Newest(o, "poll")
  BY <1>7 DEF ConversationInv, TokenInv
<1>9. \A kind : \A o \in Slot : Newest(o, kind)' => o # q /\ Newest(o, kind)
  BY <1>1, <1>3 DEF Newest, Current
<1>10. \A o \in Slot : ~Newest(o, "load")' /\ ~Newest(o, "poll")'
  BY <1>7, <1>8, <1>9
<1>11. TokenInv'
  <2>1. \A o \in Slot : req'[o] # None =>
          req'[o].token <= token' /\ (req'[o].kind = "load" => req'[o].after = None)
    BY <1>1, <1>3 DEF ConversationInv, TokenInv
  <2> QED BY <1>1, <1>10, <2>1 DEF TokenInv
<1>12. ScreenInv'
  BY <1>1 DEF ScreenInv, ShownInOrder, ScreenIsOfItsPair, ToSet
<1>13. AnchorInv'
  <2>1. \A k : ~Anchor(k)'
    BY <1>1, <1>7, <1>10 DEF Anchor
  <2> QED BY <1>1, <2>1 DEF AnchorInv
<1> QED BY <1>5, <1>6, <1>11, <1>12, <1>13 DEF ConversationInv, ReachInv

(* An answer without a cursor takes the screen: what it has not got is      *)
(* behind it, or before it (older); no poll looks on from anywhere else.    *)
LEMMA ShowKeeps ==
  ASSUME ConversationInv, NEW q \in Slot, req[q] # None, req[q].page # None,
         Show(q), Free(q), UNCHANGED <<server, pair, token, posting, lost>>,
         settled' = TRUE, undone' \in BOOLEAN, astray' \in BOOLEAN,
         cursor' = CursorOf(req[q].page, None),
         ~astray' => req[q].pair = pair,
         \A o \in Slot \ {q} : ~Newest(o, "load"),
         \A o \in Slot \ {q} : Newest(o, "poll") =>
           req[o].pair = pair /\ (~undone' => req[o].after = None)
  PROVE  ConversationInv'
<1>1. PICK p, k, page, rows : /\ p = req[q].pair /\ k = req[q].after
                              /\ page = req[q].page /\ rows = req[q].rows
  OBVIOUS
<1>2. Answer(p, k, page, rows)
  BY <1>1 DEF ConversationInv, PagesInv
<1>3. DOMAIN req = Slot /\ began \in [Txn -> Nat]
  BY Parts DEF ConversationInv
<1>4. DOMAIN req' = Slot /\ req'[q] = None /\ \A o \in Slot \ {q} : req'[o] = req[o]
  BY <1>3 DEF Free
<1>5. shown' = page /\ older' = rows \ ToSet(page) /\ cursor' = CursorOf(page, None)
  BY <1>1 DEF Show
<1>6. clock' = clock /\ began' = began /\ committed' = committed /\ late' = late
  BY DEF server
<1>7. /\ page \in Seq(Row) /\ rows \in SUBSET Row
      /\ \A i \in DOMAIN page : /\ page[i] \in rows /\ page[i] \in Row
                                /\ Of[page[i]] = p /\ Writes[page[i]] \in committed
  BY <1>2 DEF Answer, Visible
<1>8. cursor' # None =>
        Len(page) \in DOMAIN page /\ cursor' = Key(page[Len(page)])
  BY <1>5, <1>7 DEF CursorOf, Last
<1>9. Typed'
  <2>1. cursor' \in (Nat \X Nat) \cup {None}
    <3>1. \A r \in Row : Key(r) \in Nat \X Nat
      BY <1>3, KeyOrder
    <3> QED BY <1>7, <1>8, <3>1
  <2>2. \A o \in Slot : req'[o] = None \/ req'[o] = req[o]
    BY <1>4
  <2> QED BY <1>4, <1>5, <1>7, <2>1, <2>2, Parts, TypedKept DEF ConversationInv
<1>10. PagesInv'
  BY <1>4, PagesKept DEF ConversationInv
<1>11. \A kind : \A o \in Slot : Newest(o, kind)' => o \in Slot \ {q} /\ Newest(o, kind)
  BY <1>4 DEF Newest, Current
<1>12. TokenInv'
  <2>1. \A o \in Slot : req'[o] # None =>
          req'[o].token <= token' /\ (req'[o].kind = "load" => req'[o].after = None)
    BY <1>4 DEF ConversationInv, TokenInv
  <2>2. \A o \in Slot : ~Newest(o, "load")'
    BY <1>11
  <2>3. \A o \in Slot : Newest(o, "poll")' => settled' /\ req'[o].pair = pair'
    BY <1>4, <1>11
  <2> QED BY <2>1, <2>2, <2>3 DEF TokenInv
<1>13. \A i, j \in DOMAIN page : i < j => Less(Key(page[i]), Key(page[j]))
  BY <1>2 DEF Answer, Increasing
<1>14. ScreenInv'
  <2>1. ASSUME NEW i \in DOMAIN page, NEW j \in DOMAIN page, page[i] = page[j] PROVE i = j
    <3>1. i \in Int /\ j \in Int
      BY <1>7
    <3>2. ~Less(Key(page[i]), Key(page[j])) /\ ~Less(Key(page[j]), Key(page[i]))
      BY <1>3, <1>7, <2>1, KeyOrder
    <3> QED BY <1>13, <3>1, <3>2
  <2>2. ShownInOrder'
    BY <1>5, <1>6, <1>13 DEF ShownInOrder, Key
  <2>3. ScreenIsOfItsPair'
    BY <1>1, <1>5, <1>7 DEF ScreenIsOfItsPair, ToSet
  <2> QED BY <1>5, <2>1, <2>2, <2>3 DEF ScreenInv
<1>15. ASSUME ~undone' PROVE AnchorInv'
  <2>1. \A r : Key(r)' = Key(r)
    BY <1>6 DEF Key
  <2>2. \A l : Anchor(l)' => l # None /\ l = cursor'
    BY <1>4, <1>11, <1>15 DEF Anchor
  <2>3. \A l : Anchor(l)' => \E i \in DOMAIN page :
          l = Key(page[i]) /\ (Of[page[i]] = pair \/ LastForeign(i)')
    <3>1. \A j \in DOMAIN page : ~(j > Len(page))
      BY <1>7
    <3> QED BY <1>5, <1>8, <2>2, <3>1 DEF LastForeign
  <2>4. \A i, j \in DOMAIN page : LastForeign(i)' /\ Of[page[j]] = pair => FALSE
    BY <1>5, <1>7 DEF LastForeign
  <2>5. ASSUME NEW r \in Visible(pair) \ (late \cup (rows \ ToSet(page)) \cup ToSet(page)),
               NEW j \in DOMAIN page, Of[page[j]] = pair
        PROVE  Less(Key(page[j]), Key(r))
    <3>1. p = pair /\ r \in Visible(p) \ (rows \cup late)
      BY <1>7, <2>5
    <3> QED BY <1>2, <1>7, <3>1 DEF Answer
  <2>6. Visible(pair)' = Visible(pair)
    BY <1>6 DEF Visible
  <2> QED BY <1>5, <1>6, <2>1, <2>3, <2>4, <2>5, <2>6 DEF AnchorInv
<1> QED BY <1>9, <1>10, <1>12, <1>14, <1>15 DEF ConversationInv, ReachInv

(* What is behind a key the handset looks on from, and not shown, is behind *)
(* all that is shown of the pair: nothing comes in between.                 *)
LEMMA NoGap ==
  ASSUME Typed, AnchorInv, NEW k, Anchor(k),
         NEW r \in Visible(pair) \ (late \cup older \cup ToSet(shown)), Less(k, Key(r)),
         NEW j \in DOMAIN shown, Of[shown[j]] = pair
  PROVE  Less(Key(shown[j]), Key(r))
<1>1. began \in [Txn -> Nat] /\ shown \in Seq(Row) /\ r \in Row
  BY Parts DEF Visible
<1>2. /\ \A i \in DOMAIN shown : Key(shown[i]) \in Nat \X Nat
      /\ Key(r) \in Nat \X Nat
      /\ \A l, m, n \in Nat \X Nat : Less(l, m) /\ Less(m, n) => Less(l, n)
  <2>1. /\ \A s \in Row : Key(s) \in Nat \X Nat
        /\ \A l, m, n \in Nat \X Nat : Less(l, m) /\ Less(m, n) => Less(l, n)
    BY <1>1, KeyOrder
  <2>2. \A i \in DOMAIN shown : shown[i] \in Row
    BY <1>1
  <2> QED BY <1>1, <2>1, <2>2
<1>3. PICK h \in DOMAIN shown : k = Key(shown[h]) /\ (Of[shown[h]] = pair \/ LastForeign(h))
  BY DEF AnchorInv
<1>4. ASSUME NEW i \in DOMAIN shown, LastForeign(i) PROVE Less(Key(shown[i]), Key(r))
  <2>1. CASE Of[shown[h]] = pair
    <3>1. Less(Key(shown[i]), k)
      BY <1>3, <1>4, <2>1 DEF AnchorInv
    <3> QED BY <1>2, <1>3, <3>1
  <2>2. CASE LastForeign(h)
    <3>1. h \in Int /\ i \in Int
      BY <1>1
    <3>2. h = i
      BY <1>4, <2>2, <3>1 DEF LastForeign
    <3> QED BY <1>3, <3>2
  <2> QED BY <1>3, <2>1, <2>2
<1>5. \/ \E i \in DOMAIN shown : LastForeign(i) /\ ~Less(Key(shown[i]), Key(r))
      \/ \A i \in DOMAIN shown : Of[shown[i]] = pair => Less(Key(shown[i]), Key(r))
  BY DEF AnchorInv
<1> QED BY <1>4, <1>5

(* A poll that asked with a cursor adds rows behind all that was shown of   *)
(* the pair, and leaves nothing out before the last one it adds.            *)
LEMMA AppendKeeps ==
  ASSUME ConversationInv, NEW q \in Slot, LandPoll(q), req[q].after # None
  PROVE  ConversationInv'
<1>1. PICK p, k, page, rows : /\ p = req[q].pair /\ k = req[q].after
                              /\ page = req[q].page /\ rows = req[q].rows
  OBVIOUS
<1> DEFINE all == AppendNew(shown, page)
<1>2. /\ req[q] # None /\ page # None /\ page # <<>> /\ k # None /\ Newest(q, "poll")
      /\ UNCHANGED <<server, pair, token, settled, posting, lost, older, undone, astray>>
      /\ shown' = all /\ cursor' = CursorOf(page, cursor)
      /\ req' = [req EXCEPT ![q] = None]
  BY <1>1 DEF LandPoll, Answered, Newest, Free
<1>3. /\ Typed /\ PagesInv /\ TokenInv /\ ScreenInv /\ ReachInv
      /\ DOMAIN req = Slot /\ began \in [Txn -> Nat] /\ shown \in Seq(Row)
  BY Parts DEF ConversationInv
<1>4. settled /\ p = pair
  BY <1>1, <1>2, <1>3 DEF TokenInv
<1>5. Answer(pair, k, page, rows)
  BY <1>1, <1>2, <1>3, <1>4 DEF PagesInv
<1>6. /\ page \in Seq(rows) /\ page \in Seq(Row) /\ rows \in SUBSET Row
      /\ \A i \in DOMAIN page : /\ page[i] \in rows /\ page[i] \in Visible(pair)
                                /\ Of[page[i]] = pair /\ Writes[page[i]] \in committed
                                /\ Less(k, Key(page[i]))
      /\ \A i, j \in DOMAIN page : i < j => Less(Key(page[i]), Key(page[j]))
  <2>1. rows \in SUBSET Visible(pair) /\ Visible(pair) \in SUBSET Row
    BY <1>5 DEF Answer, Visible
  <2>2. page \in Seq(rows)
    BY <1>5 DEF Answer
  <2>3. \A i \in DOMAIN page : page[i] \in rows
    BY <2>2
  <2> QED BY <1>2, <1>5, <2>1, <2>2, <2>3 DEF Answer, Increasing, Visible
<1>7. /\ all \in Seq(Row) /\ DOMAIN shown \subseteq DOMAIN all
      /\ \A i \in DOMAIN shown : all[i] = shown[i]
      /\ \A j \in DOMAIN all \ DOMAIN shown :
           all[j] \notin ToSet(shown) /\ \E i \in DOMAIN page : all[j] = page[i]
      /\ \A j, l \in DOMAIN all \ DOMAIN shown : j < l =>
           \E h, i \in DOMAIN page : h < i /\ all[j] = page[h] /\ all[l] = page[i]
      /\ \A i \in DOMAIN page : page[i] \in ToSet(all)
  <2> HIDE DEF all
  <2>1. /\ all \in Seq(Row) /\ Len(shown) <= Len(all)
        /\ \A i \in DOMAIN shown : all[i] = shown[i]
        /\ \A j \in DOMAIN all \ DOMAIN shown :
             all[j] \notin ToSet(shown) /\ \E i \in DOMAIN page : all[j] = page[i]
        /\ \A j, l \in DOMAIN all \ DOMAIN shown : j < l =>
             \E h, i \in DOMAIN page : h < i /\ all[j] = page[h] /\ all[l] = page[i]
        /\ \A i \in DOMAIN page : page[i] \in ToSet(all)
    BY <1>3, <1>6, AppendFacts DEF all
  <2>2. DOMAIN shown \subseteq DOMAIN all
    BY <1>3, <2>1
  <2> QED BY <2>1, <2>2
<1> HIDE DEF all
<1>8. /\ \A i, j \in DOMAIN all : i < j /\ j \in DOMAIN shown => i \in DOMAIN shown
      /\ \A i, j \in DOMAIN all : i < j \/ j < i \/ i = j
      /\ \A i \in DOMAIN all : all[i] \in Row
  BY <1>3, <1>7
<1>9. ASSUME NEW j \in DOMAIN all \ DOMAIN shown
      PROVE  /\ all[j] \in rows /\ all[j] \in Visible(pair) /\ Of[all[j]] = pair
             /\ Writes[all[j]] \in committed /\ Less(k, Key(all[j]))
             /\ all[j] \notin ToSet(shown)
  BY <1>6, <1>7
<1>10. \A i, j \in DOMAIN all \ DOMAIN shown : i < j => Less(Key(all[i]), Key(all[j]))
  BY <1>6, <1>7
<1>11. ASSUME ~undone
       PROVE  AnchorInv /\ Anchor(k)
  BY <1>1, <1>2, <1>3, <1>4, <1>11 DEF ReachInv, Anchor
<1>12. /\ clock' = clock /\ began' = began /\ committed' = committed /\ late' = late
       /\ \A r : Key(r)' = Key(r)
  BY <1>2 DEF server, Key
<1>13. /\ Len(page) \in DOMAIN page /\ cursor' = Key(page[Len(page)])
       /\ page[Len(page)] \in ToSet(all) /\ page[Len(page)] \in Row
       /\ Of[page[Len(page)]] = pair
  BY <1>2, <1>6, <1>7 DEF CursorOf, Last
<1>14. DOMAIN req' = Slot /\ req'[q] = None /\ \A o \in Slot \ {q} : req'[o] = req[o]
  BY <1>2, <1>3
<1>15. Typed'
  <2>1. cursor' \in (Nat \X Nat) \cup {None}
    BY <1>3, <1>13, KeyOrder
  <2>2. \A o \in Slot : req'[o] = None \/ req'[o] = req[o]
    BY <1>14
  <2>3. \A i \in DOMAIN all : Writes[all[i]] \in committed
    <3>1. \A i \in DOMAIN shown : Writes[shown[i]] \in committed
      BY <1>3, Parts
    <3> QED BY <1>7, <1>9, <3>1
  <2> QED BY <1>2, <1>3, <1>7, <1>14, <2>1, <2>2, <2>3, Parts, TypedKept
<1>16. PagesInv'
  BY <1>2, <1>3, <1>14, PagesKept
<1>17. \A kind : \A o \in Slot : Newest(o, kind)' => o # q /\ Newest(o, kind) /\ req'[o] = req[o]
  BY <1>2, <1>14 DEF Newest, Current
<1>18. TokenInv'
  <2>1. \A o \in Slot : req'[o] # None =>
          req'[o].token <= token' /\ (req'[o].kind = "load" => req'[o].after = None)
    BY <1>2, <1>3, <1>14 DEF TokenInv
  <2>2. \A o \in Slot : ~Newest(o, "load")'
    BY <1>3, <1>4, <1>17 DEF TokenInv
  <2>3. \A o \in Slot : Newest(o, "poll")' => settled' /\ req'[o].pair = pair'
    BY <1>2, <1>3, <1>17 DEF TokenInv
  <2> QED BY <1>2, <1>4, <2>1, <2>2, <2>3 DEF TokenInv
<1>19. ScreenInv'
  <2>1. ASSUME NEW i \in DOMAIN all, NEW j \in DOMAIN all, i < j PROVE all[i] # all[j]
    <3>1. CASE j \in DOMAIN shown
      <4>1. i \in DOMAIN shown /\ i # j
        BY <1>3, <1>8, <2>1, <3>1
      <4> QED BY <1>3, <1>7, <3>1, <4>1 DEF ScreenInv
    <3>2. CASE i \in DOMAIN shown /\ j \notin DOMAIN shown
      <4>1. all[i] \in ToSet(shown)
        BY <1>7, <3>2 DEF ToSet
      <4> QED BY <1>9, <3>2, <4>1
    <3>3. CASE i \notin DOMAIN shown /\ j \notin DOMAIN shown
      <4>1. Less(Key(all[i]), Key(all[j]))
        BY <1>10, <2>1, <3>3
      <4> QED BY <1>3, <1>8, <4>1, KeyOrder
    <3> QED BY <3>1, <3>2, <3>3
  <2>2. \A i, j \in DOMAIN all : all[i] = all[j] => i = j
    BY <1>8, <2>1
  <2>3. ASSUME NEW i \in DOMAIN all, NEW j \in DOMAIN all, i < j, Of[all[i]] = Of[all[j]],
               ~undone, all[i] \notin late \cup older, all[j] \notin late \cup older
        PROVE  Less(Key(all[i]), Key(all[j]))
    <3>1. CASE j \in DOMAIN shown
      <4>1. i \in DOMAIN shown /\ all[i] = shown[i] /\ all[j] = shown[j]
        BY <1>7, <1>8, <2>3, <3>1
      <4> QED BY <1>3, <2>3, <3>1, <4>1 DEF ScreenInv, ShownInOrder
    <3>2. CASE i \in DOMAIN shown /\ j \notin DOMAIN shown
      <4>1. Of[shown[i]] = pair /\ all[i] = shown[i]
        BY <1>7, <1>9, <2>3, <3>2
      <4>2. all[j] \in Visible(pair) \ (late \cup older \cup ToSet(shown)) /\ Less(k, Key(all[j]))
        BY <1>9, <2>3, <3>2
      <4> QED BY <1>3, <1>11, <2>3, <3>2, <4>1, <4>2, NoGap
    <3>3. CASE i \notin DOMAIN shown /\ j \notin DOMAIN shown
      BY <1>10, <2>3, <3>3
    <3> QED BY <3>1, <3>2, <3>3
  <2>4. ShownInOrder'
    BY <1>2, <1>12, <2>3 DEF ShownInOrder
  <2>5. ScreenIsOfItsPair'
    <3>1. ASSUME ~astray, NEW i \in DOMAIN all PROVE Of[all[i]] = pair
      <4>1. CASE i \in DOMAIN shown
        <5>1. shown[i] \in ToSet(shown)
          BY <4>1 DEF ToSet
        <5> QED BY <1>3, <1>4, <1>7, <3>1, <4>1, <5>1 DEF ScreenInv, ScreenIsOfItsPair
      <4>2. CASE i \notin DOMAIN shown
        BY <1>9, <4>2
      <4> QED BY <4>1, <4>2
    <3> QED BY <1>2, <3>1 DEF ScreenIsOfItsPair, ToSet
  <2> QED BY <1>2, <2>2, <2>4, <2>5 DEF ScreenInv
<1>20. ASSUME ~undone PROVE AnchorInv'
  <2>1. AnchorInv /\ Anchor(k)
    BY <1>11, <1>20
  <2>2. PICK h \in DOMAIN shown : k = Key(shown[h]) /\ (Of[shown[h]] = pair \/ LastForeign(h))
    BY <2>1 DEF AnchorInv
  <2>3. \A i : LastForeign(i)' <=> LastForeign(i)
    <3>1. ASSUME NEW i, LastForeign(i)' PROVE LastForeign(i)
      <4>1. i \in DOMAIN all /\ Of[all[i]] # pair /\ \A j \in DOMAIN all : j > i => Of[all[j]] = pair
        BY <1>2, <3>1 DEF LastForeign
      <4>2. i \in DOMAIN shown
        BY <1>9, <4>1
      <4> QED BY <1>7, <4>1, <4>2 DEF LastForeign
    <3>2. ASSUME NEW i, LastForeign(i) PROVE LastForeign(i)'
      <4>1. i \in DOMAIN shown /\ Of[shown[i]] # pair
              /\ \A j \in DOMAIN shown : j > i => Of[shown[j]] = pair
        BY <3>2 DEF LastForeign
      <4>2. \A j \in DOMAIN all : j > i => Of[all[j]] = pair
        BY <1>7, <1>9, <4>1
      <4> QED BY <1>2, <1>7, <4>1, <4>2 DEF LastForeign
    <3> QED BY <3>1, <3>2
  <2>4. ASSUME NEW l, Anchor(l)'
        PROVE  \E i \in DOMAIN all : l = Key(all[i]) /\ (Of[all[i]] = pair \/ LastForeign(i)')
    <3>1. CASE l = cursor'
      BY <1>13, <3>1 DEF ToSet
    <3>2. CASE l # cursor'
      <4>1. Anchor(l)
        BY <1>17, <2>4, <3>2 DEF Anchor
      <4> QED BY <1>7, <2>1, <2>3, <4>1 DEF AnchorInv
    <3> QED BY <3>1, <3>2
  <2>5. ASSUME NEW i \in DOMAIN all, NEW j \in DOMAIN all, LastForeign(i)', Of[all[j]] = pair
        PROVE  Less(Key(all[i]), Key(all[j]))
    <3>1. i \in DOMAIN shown /\ LastForeign(i) /\ all[i] = shown[i]
      BY <1>7, <2>3, <2>5 DEF LastForeign
    <3>2. CASE j \in DOMAIN shown
      BY <1>7, <2>1, <2>5, <3>1, <3>2 DEF AnchorInv
    <3>3. CASE j \notin DOMAIN shown
      <4>1. shown[i] = shown[h] \/ Less(Key(shown[i]), k)
        BY <1>3, <2>1, <2>2, <3>1 DEF LastForeign, AnchorInv
      <4>2. Less(k, Key(all[j])) /\ all[j] \in Row /\ shown[i] \in Row /\ shown[h] \in Row
        BY <1>3, <1>8, <1>9, <2>2, <3>1, <3>3
      <4> QED BY <1>3, <2>2, <3>1, <4>1, <4>2, KeyOrder
    <3> QED BY <3>2, <3>3
  <2>6. ASSUME NEW r \in Visible(pair) \ (late \cup older \cup ToSet(all)),
               \A i \in DOMAIN shown : LastForeign(i) => Less(Key(shown[i]), Key(r)),
               NEW j \in DOMAIN all, Of[all[j]] = pair
        PROVE  Less(Key(all[j]), Key(r))
    <3>1. r \in Visible(pair) \ (late \cup older \cup ToSet(shown))
      BY <1>7, <2>6 DEF ToSet
    <3>2. \A i \in DOMAIN shown : Of[shown[i]] = pair => Less(Key(shown[i]), Key(r))
      <4>1. \/ \E i \in DOMAIN shown : LastForeign(i) /\ ~Less(Key(shown[i]), Key(r))
            \/ \A i \in DOMAIN shown : Of[shown[i]] = pair => Less(Key(shown[i]), Key(r))
        BY <2>1, <3>1 DEF AnchorInv
      <4> QED BY <2>6, <4>1
    <3>3. CASE j \in DOMAIN shown
      BY <1>7, <2>6, <3>2, <3>3
    <3>4. CASE j \notin DOMAIN shown
      <4>1. PICK i \in DOMAIN page : all[j] = page[i]
        BY <1>7, <3>4
      <4>2. Less(k, Key(r))
        BY <2>2, <2>6, <3>2
      <4>3. CASE r \in rows
        <5>1. r \in ToSet(page) \/ Less(Key(page[i]), Key(r))
          BY <1>2, <1>5, <4>1, <4>2, <4>3 DEF Answer
        <5>2. r \notin ToSet(page)
          BY <1>7, <2>6 DEF ToSet
        <5> QED BY <4>1, <5>1, <5>2
      <4>4. CASE r \notin rows
        BY <1>5, <1>6, <3>1, <4>1, <4>4 DEF Answer
      <4> QED BY <4>3, <4>4
    <3> QED BY <3>3, <3>4
  <2>7. \A r \in Visible(pair) \ (late \cup older \cup ToSet(all)) :
          \/ \E i \in DOMAIN all : LastForeign(i)' /\ ~Less(Key(all[i]), Key(r))
          \/ \A j \in DOMAIN all : Of[all[j]] = pair => Less(Key(all[j]), Key(r))
    BY <1>7, <2>3, <2>6
  <2>8. Visible(pair)' = Visible(pair)
    BY <1>2, <1>12 DEF Visible
  <2> QED BY <1>2, <1>12, <2>4, <2>5, <2>7, <2>8 DEF AnchorInv
<1> QED BY <1>2, <1>15, <1>16, <1>18, <1>19, <1>20 DEF ConversationInv, ReachInv

(* The newest load lands: no poll is under way, and no other load counts. *)
LEMMA LandLoadKeeps ==
  ASSUME ConversationInv, NEW q \in Slot, LandLoad(q)
  PROVE  ConversationInv'
<1>1. /\ req[q] # None /\ req[q].page # None /\ Newest(q, "load")
      /\ Show(q) /\ Free(q) /\ UNCHANGED <<server, pair, token, astray, posting, lost>>
      /\ settled' = TRUE /\ undone' = FALSE /\ cursor' = CursorOf(req[q].page, None)
  BY DEF LandLoad, Answered, Newest
<1>2. astray' \in BOOLEAN
  BY <1>1, Parts DEF ConversationInv
<1>3. /\ ~settled /\ (~astray => req[q].pair = pair)
      /\ \A o \in Slot : Newest(o, "load") => o = q
  BY <1>1 DEF ConversationInv, TokenInv
<1>4. \A o \in Slot : ~Newest(o, "poll")
  BY <1>3 DEF ConversationInv, TokenInv
<1>5. \A o \in Slot \ {q} : ~Newest(o, "load")
  BY <1>3
<1> QED BY <1>1, <1>2, <1>3, <1>4, <1>5, ShowKeeps

(* A poll that asked without a cursor does what a load does; had it come in *)
(* time, the screen was empty and nothing has asked with a cursor yet.      *)
LEMMA LandPollKeeps ==
  ASSUME ConversationInv, NEW q \in Slot, LandPoll(q)
  PROVE  ConversationInv'
<1>1. CASE req[q].after # None
  BY <1>1, AppendKeeps
<1>2. CASE req[q].after = None
  <2>1. /\ req[q] # None /\ req[q].page # None /\ req[q].page # <<>> /\ Newest(q, "poll")
        /\ Show(q) /\ Free(q)
        /\ UNCHANGED <<server, pair, token, settled, posting, lost>>
        /\ undone' = (undone \/ shown # <<>>) /\ astray' = FALSE
        /\ cursor' = CursorOf(req[q].page, cursor)
    BY <1>2 DEF LandPoll, Answered, Newest
  <2>2. settled /\ req[q].pair = pair
    BY <2>1 DEF ConversationInv, TokenInv
  <2>3. \A o \in Slot : ~Newest(o, "load")
    BY <2>2 DEF ConversationInv, TokenInv
  <2>4. settled' = TRUE /\ undone' \in BOOLEAN
    <3>1. settled \in BOOLEAN
      BY Parts DEF ConversationInv
    <3> QED BY <2>1, <2>2, <3>1
  <2>5. cursor' = CursorOf(req[q].page, None)
    BY <2>1 DEF CursorOf
  <2>6. ASSUME NEW o \in Slot, Newest(o, "poll")
        PROVE  req[o].pair = pair /\ (~undone' => req[o].after = None)
    <3>1. req[o].pair = pair
      BY <2>6 DEF ConversationInv, TokenInv
    <3>2. ASSUME ~undone', req[o].after # None PROVE FALSE
      <4>1. AnchorInv /\ shown = <<>>
        BY <2>1, <2>2, <3>2 DEF ConversationInv, ReachInv
      <4>2. Anchor(req[o].after)
        BY <2>6, <3>2 DEF Anchor
      <4>3. \E i \in DOMAIN shown : req[o].after = Key(shown[i])
        BY <4>1, <4>2 DEF AnchorInv
      <4> QED BY <4>1, <4>3
    <3> QED BY <3>1, <3>2
  <2> QED BY <2>1, <2>2, <2>3, <2>4, <2>5, <2>6, ShowKeeps
<1> QED BY <1>1, <1>2

(* A request that fails: the newest load, or one that nobody misses. *)
LEMMA LoseKeeps ==
  ASSUME ConversationInv, NEW q \in Slot, Lose(q)
  PROVE  ConversationInv'
<1>1. CASE Newest(q, "load")
  BY <1>1, FailedLoadKeeps
<1>2. CASE ~Newest(q, "load")
  <2>1. /\ UNCHANGED <<server, pair, screen, token, posting>>
        /\ req' = [req EXCEPT ![q] = None] /\ lost < MaxLost /\ lost' = lost + 1
    BY <1>2 DEF Lose, Free, Newest
  <2>2. DOMAIN req = Slot /\ posting' \in [Pair -> 0..MaxLoad]
    BY <2>1, Parts DEF ConversationInv
  <2>3. lost' \in 0..MaxLost
    BY <2>1, BoundsAssumption, Parts DEF ConversationInv
  <2>4. DOMAIN req' = Slot /\ \A o \in Slot : req'[o] = req[o] \/ req'[o] = None
    BY <2>1, <2>2
  <2> QED BY <2>1, <2>2, <2>3, <2>4, FewerRequests
<1> QED BY <1>1, <1>2

(* Every step keeps the invariant. *)
LEMMA NextKeeps == ConversationInv /\ [Next]_vars => ConversationInv'
<1> SUFFICES ASSUME ConversationInv, [Next]_vars PROVE ConversationInv'
  OBVIOUS
<1>1. /\ pair \in Pair /\ posting \in [Pair -> 0..MaxLoad] /\ lost \in 0..MaxLost
      /\ astray \in BOOLEAN /\ DOMAIN req = Slot /\ token \in 1..MaxLoad
  BY Parts DEF ConversationInv
<1>2. CASE \E t \in Txn : Begin(t) \/ Commit(t)
  BY <1>2, ServerKeeps
<1>3. CASE SendMessage
  <2>1. /\ UNCHANGED <<server, pair, screen, token>> /\ req' = req /\ lost' = lost
        /\ posting[pair] < MaxLoad - token /\ posting' = [posting EXCEPT ![pair] = @ + 1]
    BY <1>3 DEF SendMessage
  <2>2. posting[pair] + 1 \in 0..MaxLoad
    BY <1>1, <2>1, BoundsAssumption
  <2>3. /\ DOMAIN req' = Slot /\ \A q \in Slot : req'[q] = req[q] \/ req'[q] = None
        /\ posting' \in [Pair -> 0..MaxLoad] /\ lost' \in 0..MaxLost
    BY <1>1, <2>1, <2>2
  <2> QED BY <2>1, <2>3, FewerRequests
<1>4. ASSUME NEW q \in Slot, Serve(q) PROVE ConversationInv'
  BY <1>4, ServeKeeps
<1>5. ASSUME NEW q \in Slot, LandLoad(q) PROVE ConversationInv'
  BY <1>5, LandLoadKeeps
<1>6. ASSUME NEW q \in Slot, LandPoll(q) PROVE ConversationInv'
  BY <1>6, LandPollKeeps
<1>7. ASSUME NEW q \in Slot, Drop(q) PROVE ConversationInv'
  <2>1. /\ UNCHANGED <<server, pair, screen, token>> /\ posting' = posting /\ lost' = lost
        /\ req' = [req EXCEPT ![q] = None]
    BY <1>7 DEF Drop, Free
  <2>2. /\ DOMAIN req' = Slot /\ \A o \in Slot : req'[o] = req[o] \/ req'[o] = None
        /\ posting' \in [Pair -> 0..MaxLoad] /\ lost' \in 0..MaxLost
    BY <1>1, <2>1
  <2> QED BY <2>1, <2>2, FewerRequests
<1>8. ASSUME NEW q \in Slot, Lose(q) PROVE ConversationInv'
  BY <1>8, LoseKeeps
<1>9. ASSUME NEW q \in Slot, Poll(q) PROVE ConversationInv'
  BY <1>9, PollKeeps
<1>10. ASSUME NEW q \in Slot, NEW p \in Pair, Posted(q, p) PROVE ConversationInv'
  <2>1. /\ posting[p] > 0 /\ Load(q, p) /\ posting' = [posting EXCEPT ![p] = @ - 1]
        /\ astray' = (p # pair)
        /\ UNCHANGED <<server, pair, shown, older, undone, lost>>
    BY <1>10 DEF Posted
  <2>2. posting' \in [Pair -> 0..MaxLoad]
    <3>1. posting[p] - 1 \in 0..MaxLoad
      BY <1>1, <2>1, BoundsAssumption
    <3> QED BY <1>1, <2>1, <3>1
  <2> QED BY <1>1, <2>1, <2>2, LoadKeeps
<1>11. ASSUME NEW q \in Slot, NEW p \in Pair, Switch(q, p) PROVE ConversationInv'
  <2>1. /\ Load(q, p) /\ pair' = p /\ astray' = FALSE
        /\ UNCHANGED <<server, shown, older, undone, posting, lost>>
    BY <1>11 DEF Switch
  <2> QED BY <1>1, <2>1, LoadKeeps
<1>12. CASE UNCHANGED vars
  <2>1. /\ UNCHANGED <<server, pair, screen, token>> /\ posting' = posting /\ lost' = lost
        /\ req' = req
    BY <1>12 DEF vars
  <2> QED BY <1>1, <2>1, FewerRequests
<1> QED
  BY <1>2, <1>3, <1>4, <1>5, <1>6, <1>7, <1>8, <1>9, <1>10, <1>11, <1>12 DEF Next, Land

-----------------------------------------------------------------------------
(* What follows *)

(* The invariant holds of every conversation the handset reads. *)
THEOREM ConversationInvariant == Spec => []ConversationInv
<1> QED BY InitInv, NextKeeps, PTL DEF Spec

(* Types: pages hold rows, cursors are keys, and answers are of requests.   *)
THEOREM TypeCorrect == Spec => []TypeOK
<1>1. ConversationInv => TypeOK
  BY DEF ConversationInv, Typed
<1> QED BY <1>1, ConversationInvariant, PTL

(* However polls overlap, and in whatever order their answers come, no row  *)
(* is shown twice.                                                          *)
THEOREM NoRowTwice == Spec => []NoBubbleTwice
<1>1. ASSUME ConversationInv PROVE NoBubbleTwice
  <2>1. shown \in Seq(Row) /\ \A i, j \in DOMAIN shown : shown[i] = shown[j] => i = j
    BY <1>1, Parts DEF ConversationInv, ScreenInv
  <2>2. Len(shown) \in Nat /\ DOMAIN shown = 1..Len(shown)
    BY <2>1
  <2>3. shown \in Bijection(1..Len(shown), ToSet(shown))
    BY <2>1, <2>2 DEF Bijection, Injection, Surjection, IsInjective, ToSet
  <2> QED BY <2>2, <2>3, FS_CountingElements DEF ExistsBijection, NoBubbleTwice
<1> QED BY <1>1, ConversationInvariant, PTL

(* No row of the pair up to the cursor is left out - but for those that     *)
(* committed behind others, those before the page that was loaded, and      *)
(* those a first page that came late took away.                             *)
THEOREM NothingIsSkipped == Spec => []NothingSkipped
<1>1. ASSUME ConversationInv PROVE NothingSkipped
  <2> SUFFICES ASSUME settled, ~undone, ~astray, cursor # None,
                      NEW r \in Visible(pair) \ (late \cup older), r \notin ToSet(shown)
               PROVE  Less(cursor, Key(r))
    BY DEF NothingSkipped
  <2>1. AnchorInv /\ Anchor(cursor)
    BY <1>1 DEF ConversationInv, ReachInv, Anchor
  <2>2. PICK i \in DOMAIN shown : cursor = Key(shown[i])
    BY <2>1 DEF AnchorInv
  <2>3. \A j \in DOMAIN shown : Of[shown[j]] = pair
    BY <1>1 DEF ConversationInv, ScreenInv, ScreenIsOfItsPair, ToSet
  <2>4. \/ \E j \in DOMAIN shown : LastForeign(j) /\ ~Less(Key(shown[j]), Key(r))
        \/ \A j \in DOMAIN shown : Of[shown[j]] = pair => Less(Key(shown[j]), Key(r))
    BY <2>1 DEF AnchorInv
  <2>5. \A j \in DOMAIN shown : ~LastForeign(j)
    BY <2>3 DEF LastForeign
  <2> QED BY <2>2, <2>3, <2>4, <2>5
<1> QED BY <1>1, ConversationInvariant, PTL

(* What is shown of a pair follows the order of the keys, but for rows that *)
(* came late and those before the page that was loaded or taken away.       *)
THEOREM RowsAreInOrder == Spec => []ShownInOrder
<1>1. ConversationInv => ShownInOrder
  BY DEF ConversationInv, ScreenInv
<1> QED BY <1>1, ConversationInvariant, PTL

(* No answer for a pair the user has left lands in the conversation that    *)
(* replaced it, but the load that ends the sending of a text.               *)
THEOREM AnswersAreOfThePair == Spec => []ScreenIsOfItsPair
<1>1. ConversationInv => ScreenIsOfItsPair
  BY DEF ConversationInv, ScreenInv
<1> QED BY <1>1, ConversationInvariant, PTL
=============================================================================
