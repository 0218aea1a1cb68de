---------------------------- MODULE ResultsProofs ----------------------------
(***************************************************************************)
(* Proofs about ResultPairs, for any number of directories and files, and  *)
(* any IDs, and about YcsbResults, for any number of files and lines, any  *)
(* operations, times, latencies and samples, and any percentile.           *)
(***************************************************************************)
EXTENDS ResultPairs, YcsbResults, Foundations

----------------------------------------------------------------------------
(* Sorting a directory *)

\* A list whose forms do not decrease.
Increasing(s) == \A i, j \in 1 .. Len(s) : i < j => s[i].form <= s[j].form

\* s is a list in another order.
Reordered(s, list, order) == Rearranged(s, list, order, Len(list))

\* The forms are numbers, and so is what is summed.
LEMMA IDs ==
  ASSUME NEW list, list \in Seq(ID)
  PROVE  \A k \in 1 .. Len(list) :
           /\ list[k] \in ID /\ list[k].form \in Int /\ list[k].form \in Forms \cup BadForms
           /\ Replaced(list[k].wild) \in Int
<1> SUFFICES ASSUME NEW k \in 1 .. Len(list)
             PROVE  /\ list[k] \in ID /\ list[k].form \in Int /\ list[k].form \in Forms \cup BadForms
                    /\ Replaced(list[k].wild) \in Int
  OBVIOUS
<1>1. list[k] \in ID
  OBVIOUS
<1>2. list[k].form \in Forms \cup BadForms /\ list[k].wild \in Wild \cup {0}
  BY <1>1 DEF ID
<1>3. Forms \subseteq Int /\ BadForms \subseteq Int /\ Wild \subseteq Int /\ Unlimited \in Int
  BY FormsAssumption
<1>4. Replaced(list[k].wild) \in Int
  <2>1. Wild \cup {0} \subseteq Int
    <3>1. 0 \in Int
      OBVIOUS
    <3> QED BY <1>3, <3>1
  <2>2. list[k].wild \in Int
    BY <1>2, <2>1
  <2> QED BY <1>3, <2>2 DEF Replaced
<1> QED BY <1>1, <1>2, <1>3, <1>4

\* Sorting puts a list into another order in which the forms do not decrease.
LEMMA SortByFormIs ==
  ASSUME NEW list, list \in Seq(ID)
  PROVE  /\ Increasing(SortByForm(list)) /\ \E order : Reordered(SortByForm(list), list, order)
         /\ SortByForm(list) \in Seq(ID) /\ Len(SortByForm(list)) = Len(list)
<1> DEFINE n == Len(list)
           key == [k \in 1 .. n |-> list[k].form]
           order == SortedPlaces(key)
           s == SortByForm(list)
<1>1. n \in Nat /\ DOMAIN list = 1 .. n
  OBVIOUS
<1>2. key \in [1 .. n -> Int]
  BY IDs
<1>3. s = [k \in 1 .. n |-> list[order[k]]]
  BY <1>1 DEF SortByForm
<1> HIDE DEF s, key
<1>4. IsSorting(order, n, key)
  <2> HIDE DEF n
  <2> QED BY <1>1, <1>2, SortedPlacesAre
<1> HIDE DEF order
<1>5. Reordered(s, list, order)
  BY <1>3, <1>4 DEF IsSorting, Reordered, Rearranged
<1>6. s \in Seq(ID) /\ Len(s) = n
  <2>1. \A k \in 1 .. n : order[k] \in 1 .. n
    BY <1>4 DEF IsSorting
  <2>2. \A k \in 1 .. n : list[order[k]] \in ID
    BY <2>1, IDs
  <2>3. s \in [1 .. n -> ID]
    BY <1>3, <2>2
  <2> HIDE DEF n
  <2> QED BY <1>1, <2>3
<1>7. Increasing(s)
  <2> SUFFICES ASSUME NEW i \in 1 .. n, NEW j \in 1 .. n, i < j PROVE s[i].form <= s[j].form
    BY <1>6 DEF Increasing
  <2>1. key[order[i]] <= key[order[j]] /\ order[i] \in 1 .. n /\ order[j] \in 1 .. n
    BY <1>4 DEF IsSorting
  <2> QED BY <1>3, <2>1 DEF key
<1> QED BY <1>5, <1>6, <1>7 DEF s

\* In another order a list has as many files of each form.
LEMMA ReorderedCount ==
  ASSUME NEW list, NEW s, NEW order, NEW form, list \in Seq(ID), Reordered(s, list, order)
  PROVE  CountOf(s, form) = CountOf(list, form)
<1> DEFINE n == Len(list)
           N == 1 .. n
           S == {k \in N : s[k].form = form}
           T == {k \in N : list[k].form = form}
<1>1. n \in Nat /\ DOMAIN list = N /\ DOMAIN s = N
  BY DEF Reordered, Rearranged
<1>2. /\ \A k \in N : s[k] = list[order[k]] /\ order[k] \in N
      /\ order \in [N -> N] /\ \A x \in N : \E i \in N : order[i] = x
  BY DEF Reordered, Rearranged
<1>3. \A i, j \in N : order[i] = order[j] => i = j
  <2> SUFFICES ASSUME NEW i \in N, NEW j \in N, i # j PROVE order[i] # order[j]
    OBVIOUS
  <2>1. i < j \/ j < i
    BY <1>1
  <2> QED BY <2>1 DEF Reordered, Rearranged
<1>4. IsFiniteSet(N)
  BY <1>1, FS_Interval
<1> HIDE DEF N
<1>5. OneToOne(order, N, N)
  BY <1>2, <1>3 DEF OneToOne, Onto
<1>6. S \subseteq N /\ T \subseteq N /\ \A k \in N : k \in S <=> order[k] \in T
  BY <1>2
<1> HIDE DEF S, T
<1>7. Cardinality(S) = Cardinality(T)
  BY <1>4, <1>5, <1>6, CountedAlike
<1> QED BY <1>1, <1>7 DEF CountOf, S, T

----------------------------------------------------------------------------
(* Two sorted directories *)

\* Where a sorted list goes on with a form that the other, sorted, is already past, it
\* has more files of this form.
LEMMA Ahead ==
  ASSUME NEW s, NEW t, NEW k, s \in Seq(ID), t \in Seq(ID), Increasing(s), Increasing(t),
         k \in 1 .. Len(s), k <= Len(t) => s[k].form < t[k].form,
         \A j \in 1 .. k - 1 : j <= Len(t) /\ s[j].form = t[j].form
  PROVE  CountOf(s, s[k].form) # CountOf(t, s[k].form)
<1> DEFINE x == s[k].form
           S == {j \in 1 .. Len(s) : s[j].form = x}
           T == {j \in 1 .. Len(t) : t[j].form = x}
<1>1. /\ Len(s) \in Nat /\ Len(t) \in Nat /\ DOMAIN s = 1 .. Len(s) /\ DOMAIN t = 1 .. Len(t)
      /\ x \in Int
  BY IDs
<1>2. ASSUME NEW j \in T PROVE j \in 1 .. k - 1
  <2> SUFFICES ASSUME ~(j < k) PROVE FALSE
    BY <1>1
  <2>1. j \in 1 .. Len(t) /\ k \in 1 .. Len(t) /\ x < t[k].form
    BY <1>1
  <2>2. t[k].form <= t[j].form
    <3>1. CASE j = k
      BY <2>1, <3>1, IDs
    <3>2. CASE j # k
      BY <2>1, <3>2 DEF Increasing
    <3> QED BY <3>1, <3>2
  <2>3. t[j].form = x /\ t[k].form \in Int
    BY <2>1, IDs
  <2> HIDE DEF x
  <2> QED BY <1>1, <2>1, <2>2, <2>3
<1>3. T \subseteq S
  <2> SUFFICES ASSUME NEW j \in T PROVE j \in S
    OBVIOUS
  <2>1. j \in 1 .. k - 1
    BY <1>2
  <2>2. j \in 1 .. Len(s) /\ s[j].form = t[j].form
    BY <1>1, <2>1
  <2> QED BY <2>2
<1>4. k \in S /\ k \notin T
  <2>1. k \notin 1 .. k - 1
    BY <1>1
  <2> QED BY <1>2, <2>1
<1>5. IsFiniteSet(S)
  <2>1. IsFiniteSet(1 .. Len(s)) /\ S \in SUBSET (1 .. Len(s))
    BY <1>1, FS_Interval
  <2> QED BY <2>1, FS_Subset
<1>6. Cardinality(S) # Cardinality(T)
  <2> HIDE DEF S, T
  <2> QED BY <1>3, <1>4, <1>5, FS_Subset
<1> QED BY <1>1, <1>6 DEF CountOf

\* As many files of each form.
CountsAgree(s, t) == \A form \in Forms \cup BadForms : CountOf(s, form) = CountOf(t, form)
\* The same form at each position.
FormsAgree(s, t) == Len(s) = Len(t) /\ \A k \in 1 .. Len(s) : s[k].form = t[k].form

\* A sorted list that has as many files of each form as another has its forms, as far
\* as it goes.
LEMMA FormsFollow ==
  ASSUME NEW s, NEW t, s \in Seq(ID), t \in Seq(ID), Increasing(s), Increasing(t), CountsAgree(s, t)
  PROVE  \A k \in 1 .. Len(s) : k <= Len(t) /\ s[k].form = t[k].form
<1> DEFINE Same(k) == k <= Len(t) /\ s[k].form = t[k].form
           T == {k \in Nat : k \in 1 .. Len(s) => Same(k)}
<1>0. Len(s) \in Nat /\ Len(t) \in Nat
  OBVIOUS
<1>1. ASSUME NEW k \in Nat, \A j \in 0 .. k - 1 : j \in T PROVE k \in T
  <2> SUFFICES ASSUME k \in 1 .. Len(s) PROVE Same(k)
    <3> HIDE DEF Same
    <3> QED OBVIOUS
  <2>1. \A j \in 1 .. k - 1 : j <= Len(t) /\ s[j].form = t[j].form
    <3> SUFFICES ASSUME NEW j \in 1 .. k - 1 PROVE Same(j)
      OBVIOUS
    <3>1. j \in 0 .. k - 1 /\ j \in 1 .. Len(s)
      BY <1>0
    <3> HIDE DEF Same
    <3> QED BY <1>1, <3>1
  <2>2. s[k].form \in Forms \cup BadForms /\ s[k].form \in Int
    BY IDs
  <2>3. ~(k <= Len(t) => s[k].form < t[k].form)
    <3>1. CountOf(s, s[k].form) = CountOf(t, s[k].form)
      BY <2>2 DEF CountsAgree
    <3> QED BY <2>1, <3>1, Ahead
  <2>4. k \in 1 .. Len(t) /\ t[k].form \in Forms \cup BadForms /\ t[k].form \in Int
    <3>1. k <= Len(t)
      BY <2>3
    <3>2. k \in 1 .. Len(t)
      BY <1>0, <3>1
    <3> QED BY <3>2, IDs
  <2>5. ~(t[k].form < s[k].form)
    <3>1. CountOf(s, t[k].form) = CountOf(t, t[k].form)
      BY <2>4 DEF CountsAgree
    <3>2. \A j \in 1 .. k - 1 : j <= Len(s) /\ t[j].form = s[j].form
      BY <1>0, <2>1
    <3>3. k <= Len(s)
      BY <1>0
    <3> QED BY <2>4, <3>1, <3>2, <3>3, Ahead
  <2>6. k <= Len(t)
    BY <2>3
  <2>7. s[k].form = t[k].form
    <3> DEFINE x == s[k].form
               y == t[k].form
    <3>1. x \in Int /\ y \in Int /\ ~(x < y) /\ ~(y < x)
      BY <2>2, <2>3, <2>4, <2>5
    <3> HIDE DEF x, y
    <3>2. x = y
      BY <3>1
    <3> QED BY <3>2 DEF x, y
  <2> QED BY <2>6, <2>7
<1> HIDE DEF T, Same
<1>2. \A k \in Nat : k \in T
  BY <1>1, StrongInduction
<1> QED BY <1>0, <1>2 DEF T, Same

\* Sorted lists have as many files of each form exactly if they have the same forms.
LEMMA SortedAgree ==
  ASSUME NEW s, NEW t, s \in Seq(ID), t \in Seq(ID), Increasing(s), Increasing(t)
  PROVE  CountsAgree(s, t) <=> FormsAgree(s, t)
<1>0. Len(s) \in Nat /\ Len(t) \in Nat /\ DOMAIN s = 1 .. Len(s) /\ DOMAIN t = 1 .. Len(t)
  OBVIOUS
<1>1. ASSUME CountsAgree(s, t) PROVE FormsAgree(s, t)
  <2>1. \A k \in 1 .. Len(s) : k <= Len(t) /\ s[k].form = t[k].form
    BY <1>1, FormsFollow
  <2>2. CountsAgree(t, s)
    BY <1>1 DEF CountsAgree
  <2>3. \A k \in 1 .. Len(t) : k <= Len(s) /\ t[k].form = s[k].form
    BY <2>2, FormsFollow
  <2>4. Len(s) = Len(t)
    <3>1. Len(s) = 0 \/ Len(s) \in 1 .. Len(s)
      BY <1>0
    <3>2. Len(t) = 0 \/ Len(t) \in 1 .. Len(t)
      BY <1>0
    <3>3. (Len(s) = 0 \/ Len(s) <= Len(t)) /\ (Len(t) = 0 \/ Len(t) <= Len(s))
      BY <2>1, <2>3, <3>1, <3>2
    <3> DEFINE n == Len(s)
               m == Len(t)
    <3>4. n \in Nat /\ m \in Nat
      BY <1>0
    <3>5. (n = 0 \/ n <= m) /\ (m = 0 \/ m <= n)
      BY <3>3
    <3> HIDE DEF n, m
    <3>6. n = m
      BY <3>4, <3>5
    <3> QED BY <3>6 DEF n, m
  <2> QED BY <2>1, <2>4 DEF FormsAgree
<1>2. ASSUME FormsAgree(s, t) PROVE CountsAgree(s, t)
  <2> SUFFICES ASSUME NEW form PROVE CountOf(s, form) = CountOf(t, form)
    BY DEF CountsAgree
  <2>1. {k \in DOMAIN s : s[k].form = form} = {k \in DOMAIN t : t[k].form = form}
    BY <1>0, <1>2 DEF FormsAgree
  <2> QED BY <2>1 DEF CountOf
<1> QED BY <1>1, <1>2

----------------------------------------------------------------------------
(* Pairing the directories *)

\* The directories as they may be listed.
Listings == [1 .. NumDirs -> Seq(ID)]

\* What the sorted directories are.
LEMMA PairsAre ==
  ASSUME NEW l, l \in Listings
  PROVE  /\ DOMAIN l = 1 .. NumDirs /\ 1 \in 1 .. NumDirs /\ NumDirs \in Nat
         /\ \A d \in 1 .. NumDirs : l[d] \in Seq(ID) /\ Len(l[d]) \in Nat
         /\ DOMAIN IdPairs(l) = 1 .. Len(l[1])
         /\ \A k \in 1 .. Len(l[1]) : DOMAIN IdPairs(l)[k] = 1 .. NumDirs
         /\ \A k \in 1 .. Len(l[1]) : \A d \in 1 .. NumDirs :
              IdPairs(l)[k][d] = SortByForm(l[d])[k]
<1>1. DOMAIN l = 1 .. NumDirs /\ \A d \in 1 .. NumDirs : l[d] \in Seq(ID) /\ Len(l[d]) \in Nat
  BY DEF Listings
<1>2. 1 \in 1 .. NumDirs /\ NumDirs \in Nat
  BY DirsAssumption
<1>3. DOMAIN l[1] = 1 .. Len(l[1])
  BY <1>1, <1>2
<1>4. IdPairs(l) = [k \in 1 .. Len(l[1]) |-> [d \in 1 .. NumDirs |-> SortByForm(l[d])[k]]]
  BY <1>1, <1>3 DEF IdPairs
<1> QED BY <1>1, <1>2, <1>4

\* Directories match if their sorted lists have the same forms.
LEMMA MatchedForms ==
  ASSUME NEW l, l \in Listings
  PROVE  ~Unmatched(l) <=>
           /\ l[1] # <<>>
           /\ \A d \in 1 .. NumDirs : FormsAgree(SortByForm(l[d]), SortByForm(l[1]))
<1> DEFINE s(d) == SortByForm(l[d])
           n == Len(l[1])
<1>1. /\ DOMAIN l = 1 .. NumDirs /\ 1 \in 1 .. NumDirs /\ DOMAIN l[1] = 1 .. n
      /\ DOMAIN IdPairs(l) = 1 .. n
      /\ \A k \in 1 .. n : \A d \in 1 .. NumDirs : IdPairs(l)[k][d] = s(d)[k]
  <2>1. DOMAIN l = 1 .. NumDirs /\ 1 \in 1 .. NumDirs /\ DOMAIN l[1] = 1 .. n
    <3>1. DOMAIN l = 1 .. NumDirs /\ 1 \in 1 .. NumDirs
      BY PairsAre
    <3>2. l[1] \in Seq(ID)
      BY <3>1, PairsAre
    <3> QED BY <3>1, <3>2
  <2>2. DOMAIN IdPairs(l) = 1 .. n
    BY PairsAre
  <2>3. \A k \in 1 .. n : \A d \in 1 .. NumDirs : IdPairs(l)[k][d] = s(d)[k]
    BY PairsAre
  <2> QED BY <2>1, <2>2, <2>3
<1>2. \A d \in 1 .. NumDirs : Len(s(d)) = Len(l[d])
  BY PairsAre, SortByFormIs
<1>3. \A d \in 1 .. NumDirs :
        FormsAgree(s(d), s(1)) <=>
          Len(l[d]) = n /\ \A k \in 1 .. n : s(d)[k].form = s(1)[k].form
  BY <1>1, <1>2 DEF FormsAgree
<1> HIDE DEF s, n
<1>4. (\E pair \in {IdPairs(l)[k] : k \in DOMAIN l[1]} :
          \E d \in DOMAIN l : pair[d].form # pair[1].form)
        <=> \E k \in 1 .. n : \E d \in 1 .. NumDirs : s(d)[k].form # s(1)[k].form
  BY <1>1
<1>5. Unmatched(l) <=>
        \/ l[1] = <<>>
        \/ \E d \in 1 .. NumDirs : Len(l[d]) # n
        \/ \E k \in 1 .. n : \E d \in 1 .. NumDirs : s(d)[k].form # s(1)[k].form
  BY <1>1, <1>4 DEF Unmatched, n
<1>6. ~Unmatched(l) <=> l[1] # <<>> /\ \A d \in 1 .. NumDirs : FormsAgree(s(d), s(1))
  BY <1>3, <1>5
<1> QED BY <1>6 DEF s

\* Sorting does not change how many files there are of a form.
LEMMA SortedCount ==
  ASSUME NEW list, NEW form, list \in Seq(ID)
  PROVE  CountOf(SortByForm(list), form) = CountOf(list, form)
<1>1. PICK order : Reordered(SortByForm(list), list, order)
  BY SortByFormIs
<1> QED BY <1>1, ReorderedCount

\* Two directories have as many files of each form exactly if their sorted lists have
\* the same forms.
LEMMA SortedForms ==
  ASSUME NEW a, NEW b, a \in Seq(ID), b \in Seq(ID)
  PROVE  CountsAgree(a, b) <=> FormsAgree(SortByForm(a), SortByForm(b))
<1> DEFINE s == SortByForm(a)
           t == SortByForm(b)
<1>1. s \in Seq(ID) /\ Increasing(s) /\ t \in Seq(ID) /\ Increasing(t)
  BY SortByFormIs
<1>2. \A form : CountOf(s, form) = CountOf(a, form) /\ CountOf(t, form) = CountOf(b, form)
  BY SortedCount
<1> HIDE DEF s, t
<1>3. CountsAgree(s, t) <=> FormsAgree(s, t)
  BY <1>1, SortedAgree
<1>4. CountsAgree(s, t) <=> CountsAgree(a, b)
  BY <1>2 DEF CountsAgree
<1> QED BY <1>3, <1>4 DEF s, t

\* Directories match exactly if they have as many files of each form.
LEMMA MatchedCounts ==
  ASSUME NEW l, l \in Listings
  PROVE  ~Unmatched(l) <=> l[1] # <<>> /\ \A d \in 1 .. NumDirs : CountsAgree(l[d], l[1])
<1>1. \A d \in 1 .. NumDirs : CountsAgree(l[d], l[1]) <=> FormsAgree(SortByForm(l[d]), SortByForm(l[1]))
  BY PairsAre, SortedForms
<1> QED BY <1>1, MatchedForms

----------------------------------------------------------------------------
(* The directories that can be written *)

\* A file of one name is in a directory once.
Once(list) == \A i, j \in 1 .. Len(list) : i < j => list[i] # list[j]

\* What the theorems need of the directories.
DirsOK == dirs \in Listings /\ \A d \in 1 .. NumDirs : Once(dirs[d])

\* It holds of no files.
LEMMA NoDirs == PairsInit => DirsOK
<1> SUFFICES ASSUME PairsInit PROVE DirsOK
  OBVIOUS
<1>1. dirs \in Listings /\ \A d \in 1 .. NumDirs : Len(dirs[d]) = 0
  BY DEF PairsInit, Listings
<1> QED BY <1>1 DEF DirsOK, Once

\* A new file, put anywhere in the listing, keeps every name there once.
LEMMA InsertOnce ==
  ASSUME NEW list, NEW id, NEW k, list \in Seq(ID), id \in ID, Once(list),
         \A i \in 1 .. Len(list) : list[i] # id, k \in 1 .. Len(list) + 1
  PROVE  InsertAt(list, k, id) \in Seq(ID) /\ Once(InsertAt(list, k, id))
<1> DEFINE s == InsertAt(list, k, id)
           n == Len(list)
<1>1. /\ s \in Seq(ID) /\ Len(s) = n + 1
      /\ \A i \in 1 .. n + 1 : s[i] = IF i < k THEN list[i] ELSE IF i = k THEN id ELSE list[i - 1]
  BY InsertAtIs
<1>2. n \in Nat /\ k \in 1 .. n + 1
  OBVIOUS
<1> HIDE DEF s
<1>3. ASSUME NEW i \in 1 .. Len(s), NEW j \in 1 .. Len(s), i < j PROVE s[i] # s[j]
  <2>0. i \in 1 .. n + 1 /\ j \in 1 .. n + 1 /\ i \in Int /\ j \in Int /\ k \in Int
    BY <1>1, <1>2
  <2>1. CASE j < k
    <3>1. s[i] = list[i] /\ s[j] = list[j] /\ i \in 1 .. n /\ j \in 1 .. n
      BY <1>1, <1>2, <1>3, <2>0, <2>1
    <3> QED BY <1>3, <3>1 DEF Once
  <2>2. CASE j = k
    <3>1. s[i] = list[i] /\ s[j] = id /\ i \in 1 .. n
      BY <1>1, <1>2, <1>3, <2>0, <2>2
    <3> QED BY <3>1
  <2>3. CASE j > k /\ i < k
    <3>1. s[i] = list[i] /\ s[j] = list[j - 1] /\ i \in 1 .. n /\ j - 1 \in 1 .. n /\ i < j - 1
      BY <1>1, <1>2, <1>3, <2>0, <2>3
    <3> QED BY <3>1 DEF Once
  <2>4. CASE j > k /\ i = k
    <3>1. s[i] = id /\ s[j] = list[j - 1] /\ j - 1 \in 1 .. n
      BY <1>1, <1>2, <1>3, <2>0, <2>4
    <3> QED BY <3>1
  <2>5. CASE j > k /\ i > k
    <3>1. s[i] = list[i - 1] /\ s[j] = list[j - 1] /\ i - 1 \in 1 .. n /\ j - 1 \in 1 .. n /\ i - 1 < j - 1
      BY <1>1, <1>2, <1>3, <2>0, <2>5
    <3> QED BY <3>1 DEF Once
  <2> QED BY <2>0, <2>1, <2>2, <2>3, <2>4, <2>5
<1>4. Once(s)
  BY <1>3 DEF Once
<1> QED BY <1>1, <1>4 DEF s

\* Writing a result keeps what holds of the directories.
LEMMA WrittenOK == DirsOK /\ WriteResult => DirsOK'
<1> SUFFICES ASSUME DirsOK, WriteResult PROVE DirsOK'
  OBVIOUS
<1>1. PICK d \in DOMAIN dirs : \E id \in ID \ ToSet(dirs[d]) : \E k \in 1 .. Len(dirs[d]) + 1 :
        dirs' = [dirs EXCEPT ![d] = InsertAt(@, k, id)]
  BY DEF WriteResult
<1>2. PICK id \in ID \ ToSet(dirs[d]) : \E k \in 1 .. Len(dirs[d]) + 1 :
        dirs' = [dirs EXCEPT ![d] = InsertAt(@, k, id)]
  BY <1>1
<1>3. PICK k \in 1 .. Len(dirs[d]) + 1 : dirs' = [dirs EXCEPT ![d] = InsertAt(dirs[d], k, id)]
  BY <1>2
<1>4. d \in 1 .. NumDirs /\ dirs[d] \in Seq(ID) /\ Once(dirs[d])
  BY DEF DirsOK, Listings
<1>5. \A i \in 1 .. Len(dirs[d]) : dirs[d][i] # id
  BY <1>2, <1>4 DEF ToSet
<1> DEFINE new == InsertAt(dirs[d], k, id)
<1>6. new \in Seq(ID) /\ Once(new)
  BY <1>3, <1>4, <1>5, InsertOnce
<1> HIDE DEF new
<1>7. dirs' = [dirs EXCEPT ![d] = new]
  BY <1>3 DEF new
<1> QED BY <1>4, <1>6, <1>7 DEF DirsOK, Listings

\* It always holds.
LEMMA DirsAreOK == PairsSpec => []DirsOK
<1>1. DirsOK /\ [PairsNext]_dirs => DirsOK'
  <2>1. DirsOK /\ UNCHANGED dirs => DirsOK'
    BY DEF DirsOK
  <2> QED BY <2>1, WrittenOK DEF PairsNext
<1> QED BY <1>1, NoDirs, PTL DEF PairsSpec

\* There is no file of a form exactly if the list has none at any place.
LEMMA NoneCounted ==
  ASSUME NEW list, NEW form, list \in Seq(ID)
  PROVE  CountOf(list, form) = 0 <=> \A k \in DOMAIN list : list[k].form # form
<1> DEFINE S == {k \in DOMAIN list : list[k].form = form}
<1>1. IsFiniteSet(S)
  <2>1. IsFiniteSet(1 .. Len(list)) /\ S \in SUBSET (1 .. Len(list))
    BY FS_Interval
  <2> QED BY <2>1, FS_Subset
<1>2. Cardinality(S) = 0 <=> S = {}
  BY <1>1, FS_EmptySet
<1> QED BY <1>2 DEF CountOf

\* Every name is an ID exactly if there is none of the other forms.
LEMMA AllNamesAreIDs ==
  ASSUME NEW l, l \in Listings
  PROVE  ~WrongLength(l) <=>
           \A d \in DOMAIN l : \A form \in BadForms : CountOf(l[d], form) = 0
<1>1. \A d \in DOMAIN l : l[d] \in Seq(ID)
  BY PairsAre
<1>2. \A d \in DOMAIN l : \A form : CountOf(l[d], form) = 0 <=> \A k \in DOMAIN l[d] : l[d][k].form # form
  BY <1>1, NoneCounted
<1> QED BY <1>2 DEF WrongLength

\* Pairing succeeds exactly if every name is an ID and every directory holds the same
\* tests, as many times (GenIdWithWildcard, RawDataProcessor.__init__).
THEOREM PairsMatch == PairsSpec => []MatchedIsRight
<1>1. DirsOK => MatchedIsRight
  <2> SUFFICES ASSUME DirsOK PROVE MatchedIsRight
    OBVIOUS
  <2>1. dirs \in Listings /\ DOMAIN dirs = 1 .. NumDirs
    BY PairsAre DEF DirsOK
  <2>2. ~Unmatched(dirs) <=> dirs[1] # <<>> /\ \A d \in 1 .. NumDirs : CountsAgree(dirs[d], dirs[1])
    BY <2>1, MatchedCounts
  <2>3. ~WrongLength(dirs) <=>
          \A d \in 1 .. NumDirs : \A form \in BadForms : CountOf(dirs[d], form) = 0
    BY <2>1, AllNamesAreIDs
  <2>4. 1 \in 1 .. NumDirs
    BY <2>1, PairsAre
  <2>5. ASSUME ~WrongLength(dirs), NEW d \in 1 .. NumDirs
        PROVE  CountsAgree(dirs[d], dirs[1]) <=>
                 \A form \in Forms : CountOf(dirs[d], form) = CountOf(dirs[1], form)
    BY <2>3, <2>4, <2>5 DEF CountsAgree
  <2> QED BY <2>1, <2>2, <2>3, <2>5 DEF MatchedIsRight, Raises
<1> QED BY <1>1, DirsAreOK, PTL

\* In a list of names that differ, sorted, each one is once.
LEMMA FoundOnce ==
  ASSUME NEW list, NEW k, list \in Seq(ID), Once(list), k \in 1 .. Len(list)
  PROVE  Cardinality({j \in 1 .. Len(list) : SortByForm(list)[j] = list[k]}) = 1
<1> DEFINE n == Len(list)
           s == SortByForm(list)
<1>1. PICK order : Reordered(s, list, order)
  BY SortByFormIs
<1>2. PICK x \in 1 .. n : order[x] = k
  BY <1>1 DEF Reordered, Rearranged
<1>3. ASSUME NEW j \in 1 .. n, s[j] = list[k] PROVE j = x
  <2>1. s[j] = list[order[j]] /\ order[j] \in 1 .. n
    BY <1>1 DEF Reordered, Rearranged
  <2>2. order[j] = k
    <3> SUFFICES ASSUME order[j] # k PROVE FALSE
      OBVIOUS
    <3>1. order[j] < k \/ k < order[j]
      BY <2>1
    <3> QED BY <1>3, <2>1, <3>1 DEF Once
  <2> SUFFICES ASSUME j # x PROVE FALSE
    OBVIOUS
  <2>3. j < x \/ x < j
    OBVIOUS
  <2> QED BY <1>1, <1>2, <2>2, <2>3 DEF Reordered, Rearranged
<1>4. s[x] = list[k]
  BY <1>1, <1>2 DEF Reordered, Rearranged
<1> HIDE DEF s, n
<1>5. {j \in 1 .. n : s[j] = list[k]} = {x}
  BY <1>3, <1>4
<1>6. Cardinality({x}) = 1
  BY FS_Singleton
<1> QED BY <1>5, <1>6 DEF s, n

\* The k-th file that directory d lists is in one pair.
InOnePair(l, d, k) == Cardinality({j \in DOMAIN IdPairs(l) : IdPairs(l)[j][d] = l[d][k]}) = 1

\* Every file of a directory is.
LEMMA PairedOnce ==
  ASSUME NEW l, NEW d, NEW k, l \in Listings, ~Unmatched(l), d \in 1 .. NumDirs, Once(l[d]), k \in DOMAIN l[d]
  PROVE  InOnePair(l, d, k)
<1> USE DEF InOnePair
<1> DEFINE n == Len(l[1])
           s == SortByForm(l[d])
<1>1. DOMAIN IdPairs(l) = 1 .. n
  BY PairsAre
<1>2. \A j \in 1 .. n : IdPairs(l)[j][d] = s[j]
  BY PairsAre
<1>3. l[d] \in Seq(ID)
  BY DEF Listings
<1>4. Len(l[d]) = n
  <2>1. DOMAIN l = 1 .. NumDirs
    BY DEF Listings
  <2> QED BY <2>1 DEF Unmatched
<1>5. k \in 1 .. Len(l[d])
  BY <1>3
<1> HIDE DEF s, n
<1>6. {j \in DOMAIN IdPairs(l) : IdPairs(l)[j][d] = l[d][k]} = {j \in 1 .. Len(l[d]) : s[j] = l[d][k]}
  BY <1>1, <1>2, <1>4
<1>7. Cardinality({j \in 1 .. Len(l[d]) : s[j] = l[d][k]}) = 1
  BY <1>3, <1>5, FoundOnce DEF s
<1> QED BY <1>6, <1>7

\* What a list has of one row to sum, at its place.
WildAt(list, row) == [k \in 1 .. Len(list) |-> IF IsOf(list[k], row) THEN Replaced(list[k].wild) ELSE 0]

\* They are numbers, and WildOf is their sum.
LEMMA WildNumbers ==
  ASSUME NEW list, NEW row, list \in Seq(ID)
  PROVE  WildAt(list, row) \in [1 .. Len(list) -> Int] /\ WildOf(list, row) = Total(WildAt(list, row))
<1>1. \A k \in 1 .. Len(list) : Replaced(list[k].wild) \in Int
  BY IDs
<1>2. \A k \in 1 .. Len(list) : (IF IsOf(list[k], row) THEN Replaced(list[k].wild) ELSE 0) \in Int
  BY <1>1
<1>3. DOMAIN list = 1 .. Len(list)
  OBVIOUS
<1> QED BY <1>2, <1>3 DEF WildAt, WildOf

\* In another order, a list has as much of one row.
LEMMA ReorderedWild ==
  ASSUME NEW list, NEW s, NEW order, NEW row, list \in Seq(ID), s \in Seq(ID), Reordered(s, list, order)
  PROVE  WildOf(s, row) = WildOf(list, row)
<1> DEFINE n == Len(list)
           values == WildAt(list, row)
           there == WildAt(s, row)
<1>1. n \in Nat /\ Len(s) = n
  BY DEF Reordered, Rearranged
<1>2. values \in [1 .. n -> Int]
  BY WildNumbers
<1>3. /\ order \in [1 .. n -> 1 .. n]
      /\ \A i, j \in 1 .. n : i < j => order[i] # order[j]
      /\ \A x \in 1 .. n : \E i \in 1 .. n : order[i] = x
  BY DEF Reordered, Rearranged
<1>4. there = [k \in 1 .. n |-> values[order[k]]]
  <2>1. \A k \in 1 .. n : s[k] = list[order[k]] /\ order[k] \in 1 .. n
    BY <1>3 DEF Reordered, Rearranged
  <2>2. \A k \in 1 .. n : values[order[k]] = IF IsOf(list[order[k]], row) THEN Replaced(list[order[k]].wild) ELSE 0
    BY <2>1 DEF WildAt
  <2>3. there = [k \in 1 .. n |-> IF IsOf(s[k], row) THEN Replaced(s[k].wild) ELSE 0]
    BY <1>1 DEF WildAt
  <2> HIDE DEF values, there, n
  <2> QED BY <2>1, <2>2, <2>3
<1>5. Total(there) = Total(values)
  <2> HIDE DEF values, there, n
  <2>1. n \in Nat
    BY <1>1
  <2>2. Rearranged(there, values, order, n)
    BY <1>3, <1>4 DEF Rearranged
  <2> QED BY <1>2, <2>1, <2>2, TotalPermuted
<1> QED BY <1>5, WildNumbers

\* The rows of all pairs, and what they and the directories hold of one of them.
RowsOf(l) == [k \in DOMAIN IdPairs(l) |-> GetIdResult(IdPairs(l)[k])]
SumInRows(rows, row) ==
  Total([k \in DOMAIN rows |-> IF rows[k].ok /\ rows[k].form = row THEN rows[k].sum ELSE 0])
SumInDirs(l, row) == Total([d \in DOMAIN l |-> WildOf(l[d], row)])

\* If the files of a row stand for numbers, its sums are those of its files in all
\* directories.
LEMMA PairSums ==
  ASSUME NEW l, NEW row, l \in Listings, ~Unmatched(l), \A d \in DOMAIN l : AllNumbers(l[d], row)
  PROVE  SumInRows(RowsOf(l), row) = SumInDirs(l, row)
<1> DEFINE n == Len(l[1])
           m == NumDirs
           s(d) == SortByForm(l[d])
           at(k, d) == IF IsOf(s(d)[k], row) THEN Replaced(s(d)[k].wild) ELSE 0
           w == [k \in 1 .. n |-> [d \in 1 .. m |-> at(k, d)]]
           v == [d \in 1 .. m |-> WildAt(s(d), row)]
           byRow == [k \in 1 .. n |-> Total(w[k])]
           byColumn == [d \in 1 .. m |-> Total(v[d])]
           rows == RowsOf(l)
<1> USE DEF RowsOf
<1>0. /\ n \in Nat /\ m \in Nat /\ DOMAIN l = 1 .. m /\ 1 \in 1 .. m
      /\ DOMAIN IdPairs(l) = 1 .. n
  BY PairsAre
<1>1. ASSUME NEW d \in 1 .. m
      PROVE  /\ s(d) \in Seq(ID) /\ Len(s(d)) = n
             /\ \A k \in 1 .. n : s(d)[k].form = s(1)[k].form /\ Replaced(s(d)[k].wild) \in Int
  <2>1. s(d) \in Seq(ID) /\ s(1) \in Seq(ID) /\ Len(s(1)) = n
    BY <1>0, PairsAre, SortByFormIs
  <2>2. FormsAgree(s(d), s(1))
    BY MatchedForms
  <2> HIDE DEF s, n
  <2>3. Len(s(d)) = n /\ \A k \in 1 .. n : s(d)[k].form = s(1)[k].form
    BY <2>1, <2>2 DEF FormsAgree
  <2>4. \A k \in 1 .. Len(s(d)) : Replaced(s(d)[k].wild) \in Int
    BY <2>1, IDs
  <2> QED BY <2>1, <2>3, <2>4
<1>2. \A k \in 1 .. n : \A d \in 1 .. m : IdPairs(l)[k][d] = s(d)[k]
  BY PairsAre
<1>3. \A k \in 1 .. n : DOMAIN IdPairs(l)[k] = 1 .. m
  BY PairsAre
<1> HIDE DEF s, n
<1>4. \A k \in 1 .. n : \A d \in 1 .. m : at(k, d) \in Int
  BY <1>1
<1>5. w \in [1 .. n -> [1 .. m -> Int]]
  <2> HIDE DEF at
  <2> QED BY <1>4
<1>6. ASSUME NEW d \in 1 .. m PROVE v[d] \in [1 .. n -> Int] /\ Total(v[d]) = WildOf(l[d], row)
  <2>1. v[d] = WildAt(s(d), row)
    OBVIOUS
  <2>2. WildAt(s(d), row) \in [1 .. Len(s(d)) -> Int] /\ WildOf(s(d), row) = Total(WildAt(s(d), row))
    BY <1>1, WildNumbers
  <2>3. WildOf(s(d), row) = WildOf(l[d], row)
    <3>1. l[d] \in Seq(ID)
      BY PairsAre
    <3>2. PICK order : Reordered(s(d), l[d], order)
      BY <3>1, SortByFormIs DEF s
    <3> QED BY <1>1, <3>1, <3>2, ReorderedWild
  <2> HIDE DEF v
  <2> QED BY <1>1, <2>1, <2>2, <2>3
<1>7. v \in [1 .. m -> [1 .. n -> Int]]
  BY <1>6
<1>8. \A k \in 1 .. n : \A d \in 1 .. m : v[d][k] = w[k][d]
  <2> SUFFICES ASSUME NEW k \in 1 .. n, NEW d \in 1 .. m PROVE v[d][k] = w[k][d]
    OBVIOUS
  <2>1. k \in 1 .. Len(s(d))
    BY <1>1
  <2>2. v[d][k] = at(k, d)
    BY <2>1 DEF WildAt
  <2> HIDE DEF at, v
  <2> QED BY <2>2
<1>9. Total(byRow) = Total(byColumn)
  <2> HIDE DEF v, w, m
  <2>1. byRow = [k \in 1 .. n |-> Total(w[k])] /\ byColumn = [d \in 1 .. m |-> Total(v[d])]
    OBVIOUS
  <2>2. n \in Nat /\ m \in Nat
    BY <1>0
  <2> HIDE DEF byRow, byColumn
  <2>3. Crossed(n, m, w, v, byRow, byColumn)
    BY <1>5, <1>7, <1>8, <2>1, <2>2 DEF Crossed
  <2> QED BY <2>3, TotalOfTotals
<1>10. byColumn = [d \in DOMAIN l |-> WildOf(l[d], row)]
  <2> HIDE DEF v
  <2> QED BY <1>0, <1>6
<1>11. ASSUME NEW k \in 1 .. n
       PROVE  (IF rows[k].ok /\ rows[k].form = row THEN rows[k].sum ELSE 0) = Total(w[k])
  <2> DEFINE pair == IdPairs(l)[k]
             wilds == [d \in 1 .. m |-> Replaced(s(d)[k].wild)]
  <2>1. rows[k] = GetIdResult(pair) /\ DOMAIN pair = 1 .. m
    BY <1>0, <1>3
  <2>2. pair[1] = s(1)[k] /\ \A d \in 1 .. m : pair[d] = s(d)[k]
    BY <1>0, <1>2
  <2>3. w[k] = [d \in 1 .. m |-> at(k, d)]
    OBVIOUS
  <2>4. rows[k].ok <=> \A d \in 1 .. m : s(d)[k].wild \notin NoNumbers
    BY <2>1, <2>2 DEF GetIdResult
  <2>5. rows[k].ok => rows[k].form = Replaced(s(1)[k].form) /\ rows[k].sum = Total(wilds)
    <3>1. [d \in DOMAIN pair |-> Replaced(pair[d].wild)] = wilds
      BY <2>1, <2>2
    <3> HIDE DEF wilds, rows
    <3>2. CASE \E d \in DOMAIN pair : pair[d].wild \in NoNumbers
      <4>1. rows[k] = [ok |-> FALSE]
        BY <2>1, <3>2 DEF GetIdResult
      <4> QED BY <4>1
    <3>3. CASE ~\E d \in DOMAIN pair : pair[d].wild \in NoNumbers
      <4>1. rows[k] = [ok |-> TRUE, form |-> Replaced(pair[1].form), sum |-> Total(wilds)]
        BY <2>1, <3>1, <3>3 DEF GetIdResult
      <4> QED BY <2>2, <4>1
    <3> QED BY <3>2, <3>3
  <2>6. \A d \in 1 .. m : IsOf(s(d)[k], row) <=> IsOf(s(1)[k], row)
    BY <1>1 DEF IsOf
  <2> HIDE DEF wilds, w, pair, rows
  <2>7. CASE IsOf(s(1)[k], row)
    <3>1. ASSUME NEW d \in 1 .. m PROVE s(d)[k].wild \notin NoNumbers
      <4>1. AllNumbers(l[d], row) /\ l[d] \in Seq(ID)
        BY <1>0, PairsAre
      <4>2. PICK order : Reordered(s(d), l[d], order)
        BY <4>1, SortByFormIs DEF s
      <4>3. Len(s(d)) = n /\ Len(l[d]) = n
        BY <1>1, <4>2 DEF Reordered, Rearranged
      <4>4. s(d)[k] = l[d][order[k]] /\ order[k] \in 1 .. Len(l[d])
        BY <4>2, <4>3 DEF Reordered, Rearranged
      <4>5. order[k] \in DOMAIN l[d]
        BY <4>1, <4>4
      <4> QED BY <2>6, <2>7, <4>1, <4>4, <4>5 DEF AllNumbers
    <3>2. rows[k].ok /\ rows[k].form = row /\ rows[k].sum = Total(wilds)
      BY <2>4, <2>5, <2>7, <3>1 DEF IsOf
    <3>3. \A d \in 1 .. m : at(k, d) = Replaced(s(d)[k].wild)
      BY <2>6, <2>7
    <3> HIDE DEF at
    <3>4. w[k] = wilds
      BY <2>3, <3>3 DEF wilds
    <3> QED BY <3>2, <3>4
  <2>8. CASE ~IsOf(s(1)[k], row)
    <3>1. ~(rows[k].ok /\ rows[k].form = row)
      BY <2>5, <2>8 DEF IsOf
    <3>2. \A d \in 1 .. m : at(k, d) = 0
      BY <2>6, <2>8
    <3> HIDE DEF at
    <3>3. w[k] = [d \in 1 .. m |-> 0]
      BY <2>3, <3>2
    <3>4. Total([d \in 1 .. m |-> 0]) = 0
      BY <1>0, TotalZero
    <3> QED BY <3>1, <3>3, <3>4
  <2> QED BY <2>7, <2>8
<1>12. byRow = [k \in DOMAIN rows |-> IF rows[k].ok /\ rows[k].form = row THEN rows[k].sum ELSE 0]
  <2>1. DOMAIN rows = 1 .. n
    BY <1>0
  <2> HIDE DEF w
  <2> QED BY <1>11, <2>1
<1> HIDE DEF byRow, byColumn, rows
<1>13. SumInRows(rows, row) = Total(byRow) /\ SumInDirs(l, row) = Total(byColumn)
  BY <1>10, <1>12 DEF SumInRows, SumInDirs
<1> QED BY <1>9, <1>13 DEF rows

\* A file that stands for no number makes its pair raise.
LEMMA PairRaises ==
  ASSUME NEW l, NEW row, NEW d, NEW k, l \in Listings, ~Unmatched(l), d \in 1 .. NumDirs,
         k \in DOMAIN l[d], IsOf(l[d][k], row), l[d][k].wild \in NoNumbers
  PROVE  \E j \in DOMAIN RowsOf(l) : ~RowsOf(l)[j].ok /\ IsOf(IdPairs(l)[j][1], row)
<1> DEFINE s(e) == SortByForm(l[e])
           n == Len(l[1])
<1>1. /\ 1 \in 1 .. NumDirs /\ DOMAIN IdPairs(l) = 1 .. n /\ n \in Nat
      /\ \A j \in 1 .. n : DOMAIN IdPairs(l)[j] = 1 .. NumDirs
      /\ \A j \in 1 .. n : \A e \in 1 .. NumDirs : IdPairs(l)[j][e] = s(e)[j]
  BY PairsAre
<1>2. l[d] \in Seq(ID) /\ k \in 1 .. Len(l[d])
  BY PairsAre
<1>3. Len(l[d]) = n /\ \A j \in 1 .. n : s(d)[j].form = s(1)[j].form
  <2>1. FormsAgree(s(d), s(1)) /\ l[1] \in Seq(ID)
    BY <1>1, MatchedForms, PairsAre
  <2>2. Len(s(d)) = Len(l[d]) /\ Len(s(1)) = n
    BY <1>2, <2>1, SortByFormIs
  <2> HIDE DEF s, n
  <2> QED BY <2>1, <2>2 DEF FormsAgree
<1>4. PICK order : Reordered(s(d), l[d], order)
  BY <1>2, SortByFormIs
<1> HIDE DEF s, n
<1>5. PICK j \in 1 .. n : order[j] = k
  BY <1>2, <1>3, <1>4 DEF Reordered, Rearranged
<1>6. s(d)[j] = l[d][k]
  BY <1>3, <1>4, <1>5 DEF Reordered, Rearranged
<1>7. IdPairs(l)[j][d].wild \in NoNumbers /\ d \in DOMAIN IdPairs(l)[j]
  BY <1>1, <1>6
<1>8. j \in DOMAIN RowsOf(l) /\ RowsOf(l)[j] = GetIdResult(IdPairs(l)[j])
  BY <1>1 DEF RowsOf
<1>9. ~RowsOf(l)[j].ok
  BY <1>7, <1>8 DEF GetIdResult
<1>10. IsOf(IdPairs(l)[j][1], row)
  BY <1>1, <1>3, <1>6 DEF IsOf
<1> QED BY <1>8, <1>9, <1>10

\* Every file is in one pair, at its directory's place, and the rows of a test add up its
\* files, or one of them raises (RawDataProcessor.__init__ and GetIdResult).
THEOREM PairsHoldEach == PairsSpec => []EachInOnePair
<1>1. DirsOK => EachInOnePair
  <2> SUFFICES ASSUME DirsOK, ~Unmatched(dirs) PROVE EachInOnePair
    BY DEF EachInOnePair, Raises
  <2>1. dirs \in Listings /\ DOMAIN dirs = 1 .. NumDirs
    BY PairsAre DEF DirsOK
  <2>2. \A d \in DOMAIN dirs : \A k \in DOMAIN dirs[d] :
          Cardinality({j \in DOMAIN IdPairs(dirs) : IdPairs(dirs)[j][d] = dirs[d][k]}) = 1
    <3> SUFFICES ASSUME NEW d \in DOMAIN dirs, NEW k \in DOMAIN dirs[d] PROVE InOnePair(dirs, d, k)
      BY DEF InOnePair
    <3>1. d \in 1 .. NumDirs /\ Once(dirs[d])
      BY <2>1 DEF DirsOK
    <3> QED BY <2>1, <3>1, PairedOnce
  <2>3. ASSUME NEW row, \A d \in DOMAIN dirs : AllNumbers(dirs[d], row)
        PROVE  SumInRows(RowsOf(dirs), row) = SumInDirs(dirs, row)
    BY <2>1, <2>3, PairSums
  <2>4. ASSUME NEW row, ~\A d \in DOMAIN dirs : AllNumbers(dirs[d], row)
        PROVE  \E k \in DOMAIN RowsOf(dirs) : ~RowsOf(dirs)[k].ok /\ IsOf(IdPairs(dirs)[k][1], row)
    <3>1. PICK d \in DOMAIN dirs : \E k \in DOMAIN dirs[d] :
            IsOf(dirs[d][k], row) /\ dirs[d][k].wild \in NoNumbers
      BY <2>4 DEF AllNumbers
    <3>2. PICK k \in DOMAIN dirs[d] : IsOf(dirs[d][k], row) /\ dirs[d][k].wild \in NoNumbers
      BY <3>1
    <3> QED BY <2>1, <3>2, PairRaises
  <2> QED BY <2>2, <2>3, <2>4 DEF EachInOnePair, SumInRows, RowsOf, SumInDirs
<1> QED BY <1>1, DirsAreOK, PTL

----------------------------------------------------------------------------
(* The order in which a directory is listed *)

\* A list the other way round is in another order.
LEMMA ReverseIs ==
  ASSUME NEW list, list \in Seq(ID)
  PROVE  Reverse(list) \in Seq(ID) /\ \E order : Reordered(Reverse(list), list, order)
<1> DEFINE n == Len(list)
           order == [k \in 1 .. n |-> n - k + 1]
           s == Reverse(list)
<1>1. n \in Nat /\ s = [k \in 1 .. n |-> list[n - k + 1]]
  BY DEF Reverse
<1>2. \A k \in 1 .. n : n - k + 1 \in 1 .. n
  BY <1>1
<1> HIDE DEF s
<1>3. order \in [1 .. n -> 1 .. n] /\ s = [k \in 1 .. n |-> list[order[k]]]
  <2> HIDE DEF n
  <2> QED BY <1>1, <1>2
<1>4. \A i, j \in 1 .. n : i < j => order[i] # order[j]
  <2> HIDE DEF n
  <2> QED BY <1>1
<1>5. ASSUME NEW x \in 1 .. n PROVE \E i \in 1 .. n : order[i] = x
  <2>1. n - x + 1 \in 1 .. n /\ n - (n - x + 1) + 1 = x
    BY <1>1
  <2>2. order[n - x + 1] = n - (n - x + 1) + 1
    BY <2>1
  <2> HIDE DEF order
  <2> QED BY <2>1, <2>2
<1>6. \A k \in 1 .. n : list[order[k]] \in ID
  BY <1>2
<1>7. s \in Seq(ID)
  <2> HIDE DEF order
  <2>1. s \in [1 .. n -> ID]
    BY <1>3, <1>6
  <2> HIDE DEF n
  <2> QED BY <1>1, <2>1
<1>8. Reordered(s, list, order)
  <2> HIDE DEF order
  <2> QED BY <1>3, <1>4, <1>5 DEF Reordered, Rearranged
<1> HIDE DEF order
<1> QED BY <1>7, <1>8 DEF s

\* Files of tests that differ.
FormsDiffer(list) == \A i, j \in 1 .. Len(list) : list[i].form = list[j].form => i = j

\* They are sorted the same way, whatever order they are listed in.
LEMMA SortedAlike ==
  ASSUME NEW list, NEW s, NEW order, list \in Seq(ID), s \in Seq(ID), Reordered(s, list, order),
         FormsDiffer(list)
  PROVE  SortByForm(s) = SortByForm(list)
<1> DEFINE a == SortByForm(list)
           b == SortByForm(s)
           n == Len(list)
<1>0. n \in Nat /\ Len(s) = n
  BY DEF Reordered, Rearranged
<1>1. CountsAgree(s, list)
  BY ReorderedCount DEF CountsAgree
<1>2. FormsAgree(b, a)
  BY <1>1, SortedForms
<1>3. PICK p : Reordered(a, list, p)
  BY SortByFormIs
<1>4. PICK q : Reordered(b, s, q)
  BY SortByFormIs
<1> HIDE DEF a, b
<1>5. ASSUME NEW k \in 1 .. n PROVE b[k] = a[k]
  <2>1. a[k] = list[p[k]] /\ p[k] \in 1 .. n
    BY <1>3 DEF Reordered, Rearranged
  <2>2. b[k] = s[q[k]] /\ q[k] \in 1 .. n
    BY <1>0, <1>4 DEF Reordered, Rearranged
  <2>3. s[q[k]] = list[order[q[k]]] /\ order[q[k]] \in 1 .. n
    BY <2>2 DEF Reordered, Rearranged
  <2>4. b[k].form = a[k].form
    <3>1. Len(b) = n
      BY <1>0, <1>4 DEF Reordered, Rearranged
    <3> QED BY <1>2, <3>1 DEF FormsAgree
  <2>5. p[k] = order[q[k]]
    BY <2>1, <2>2, <2>3, <2>4 DEF FormsDiffer
  <2> QED BY <2>1, <2>2, <2>3, <2>5
<1>6. DOMAIN a = 1 .. n /\ DOMAIN b = 1 .. n /\ a = [k \in 1 .. n |-> a[k]] /\ b = [k \in 1 .. n |-> b[k]]
  BY <1>0, <1>3, <1>4 DEF Reordered, Rearranged
<1>7. a = b
  BY <1>5, <1>6
<1> QED BY <1>7 DEF a, b

\* All directories, listed the other way round.
LEMMA ReversedAlike ==
  ASSUME NEW l, NEW r, l \in Listings, r = [d \in DOMAIN l |-> Reverse(l[d])],
         \A d \in 1 .. NumDirs : FormsDiffer(l[d])
  PROVE  (Unmatched(l) <=> Unmatched(r)) /\ (~Unmatched(l) => IdPairs(l) = IdPairs(r))
<1>0. DOMAIN l = 1 .. NumDirs /\ 1 \in 1 .. NumDirs
  BY PairsAre
<1>1. ASSUME NEW d \in 1 .. NumDirs
      PROVE  /\ r[d] \in Seq(ID) /\ Len(r[d]) = Len(l[d]) /\ l[d] \in Seq(ID)
             /\ SortByForm(r[d]) = SortByForm(l[d])
  <2>1. l[d] \in Seq(ID) /\ FormsDiffer(l[d]) /\ r[d] = Reverse(l[d])
    BY <1>0, PairsAre
  <2>2. r[d] \in Seq(ID) /\ \E order : Reordered(r[d], l[d], order)
    BY <2>1, ReverseIs
  <2>3. PICK order : Reordered(r[d], l[d], order)
    BY <2>2
  <2>4. SortByForm(r[d]) = SortByForm(l[d])
    BY <2>1, <2>2, <2>3, SortedAlike
  <2>5. Len(r[d]) = Len(l[d])
    BY <2>1, <2>3 DEF Reordered, Rearranged
  <2> QED BY <2>1, <2>2, <2>4, <2>5
<1>2. r \in Listings
  <2>1. DOMAIN r = 1 .. NumDirs /\ r = [d \in 1 .. NumDirs |-> r[d]]
    BY <1>0
  <2> QED BY <1>1, <2>1 DEF Listings
<1>3. l[1] = <<>> <=> r[1] = <<>>
  <2>1. Len(r[1]) = Len(l[1]) /\ r[1] \in Seq(ID) /\ l[1] \in Seq(ID)
    BY <1>0, <1>1
  <2> QED BY <2>1
<1>4. Unmatched(l) <=> Unmatched(r)
  <2>1. ~Unmatched(l) <=> l[1] # <<>> /\ \A d \in 1 .. NumDirs : FormsAgree(SortByForm(l[d]), SortByForm(l[1]))
    BY MatchedForms
  <2>2. ~Unmatched(r) <=> r[1] # <<>> /\ \A d \in 1 .. NumDirs : FormsAgree(SortByForm(r[d]), SortByForm(r[1]))
    BY <1>2, MatchedForms
  <2> QED BY <1>0, <1>1, <1>3, <2>1, <2>2
<1>5. IdPairs(l) = IdPairs(r)
  <2>1. DOMAIN r = 1 .. NumDirs /\ DOMAIN l[1] = 1 .. Len(l[1]) /\ DOMAIN r[1] = 1 .. Len(l[1])
    BY <1>0, <1>1
  <2>2. IdPairs(l) = [k \in 1 .. Len(l[1]) |-> [d \in 1 .. NumDirs |-> SortByForm(l[d])[k]]]
    BY <1>0, <2>1 DEF IdPairs
  <2>3. IdPairs(r) = [k \in 1 .. Len(l[1]) |-> [d \in 1 .. NumDirs |-> SortByForm(r[d])[k]]]
    BY <2>1 DEF IdPairs
  <2>4. \A d \in 1 .. NumDirs : SortByForm(l[d]) = SortByForm(r[d])
    BY <1>1
  <2> DEFINE f(k) == [d \in 1 .. NumDirs |-> SortByForm(l[d])[k]]
             g(k) == [d \in 1 .. NumDirs |-> SortByForm(r[d])[k]]
  <2>5. \A k : f(k) = g(k)
    BY <2>4
  <2>6. IdPairs(l) = [k \in 1 .. Len(l[1]) |-> f(k)] /\ IdPairs(r) = [k \in 1 .. Len(l[1]) |-> g(k)]
    BY <2>2, <2>3
  <2> HIDE DEF f, g
  <2> QED BY <2>5, <2>6
<1> QED BY <1>4, <1>5

\* A name that is not an ID is noticed in either order.
LEMMA WrongEitherWay ==
  ASSUME NEW l, NEW r, l \in Listings, r = [d \in DOMAIN l |-> Reverse(l[d])]
  PROVE  WrongLength(l) <=> WrongLength(r)
<1>1. ASSUME NEW d \in DOMAIN l
      PROVE  (\E k \in DOMAIN l[d] : l[d][k].form \in BadForms)
               <=> \E k \in DOMAIN Reverse(l[d]) : Reverse(l[d])[k].form \in BadForms
  <2>1. l[d] \in Seq(ID)
    BY PairsAre
  <2>2. PICK order : Reordered(Reverse(l[d]), l[d], order)
    BY <2>1, ReverseIs
  <2>3. /\ DOMAIN Reverse(l[d]) = 1 .. Len(l[d]) /\ DOMAIN l[d] = 1 .. Len(l[d])
        /\ \A k \in 1 .. Len(l[d]) : Reverse(l[d])[k] = l[d][order[k]] /\ order[k] \in 1 .. Len(l[d])
        /\ \A x \in 1 .. Len(l[d]) : \E i \in 1 .. Len(l[d]) : order[i] = x
    <3> DEFINE s == Reverse(l[d])
               n == Len(l[d])
    <3>1. /\ s = [k \in 1 .. n |-> l[d][order[k]]] /\ order \in [1 .. n -> 1 .. n]
          /\ \A x \in 1 .. n : \E i \in 1 .. n : order[i] = x
      BY <2>2 DEF Reordered, Rearranged
    <3>2. DOMAIN l[d] = 1 .. n
      BY <2>1
    <3> HIDE DEF s, n
    <3>3. /\ DOMAIN s = 1 .. n /\ \A k \in 1 .. n : s[k] = l[d][order[k]] /\ order[k] \in 1 .. n
      BY <3>1
    <3> QED BY <3>1, <3>2, <3>3 DEF s, n
  <2>4. ASSUME NEW k \in DOMAIN l[d], l[d][k].form \in BadForms
        PROVE  \E i \in DOMAIN Reverse(l[d]) : Reverse(l[d])[i].form \in BadForms
    <3>1. PICK i \in 1 .. Len(l[d]) : order[i] = k
      BY <2>3
    <3>2. Reverse(l[d])[i] = l[d][k] /\ i \in DOMAIN Reverse(l[d])
      BY <2>3, <3>1
    <3> QED BY <2>4, <3>2
  <2>5. ASSUME NEW k \in DOMAIN Reverse(l[d]), Reverse(l[d])[k].form \in BadForms
        PROVE  \E i \in DOMAIN l[d] : l[d][i].form \in BadForms
    <3>1. Reverse(l[d])[k] = l[d][order[k]] /\ order[k] \in DOMAIN l[d]
      BY <2>3
    <3> QED BY <2>5, <3>1
  <2> QED BY <2>4, <2>5
<1> QED BY <1>1 DEF WrongLength

\* While no directory has two files of one test, the order in which directories are listed
\* makes no difference (os.listdir, sorted by RawDataProcessor.__init__).
THEOREM ListingOrderIsIrrelevant == PairsSpec => []OrderIsIrrelevant
<1>1. DirsOK => OrderIsIrrelevant
  <2> DEFINE differ == \A d \in DOMAIN dirs : IsInjective([k \in DOMAIN dirs[d] |-> dirs[d][k].form])
             reversed == [d \in DOMAIN dirs |-> Reverse(dirs[d])]
  <2> SUFFICES ASSUME DirsOK, differ
               PROVE  /\ Raises(dirs) <=> Raises(reversed)
                      /\ ~Raises(dirs) => IdPairs(dirs) = IdPairs(reversed)
    BY DEF OrderIsIrrelevant
  <2>1. dirs \in Listings /\ DOMAIN dirs = 1 .. NumDirs
    BY PairsAre DEF DirsOK
  <2>2. \A d \in 1 .. NumDirs : FormsDiffer(dirs[d])
    <3> SUFFICES ASSUME NEW d \in 1 .. NumDirs PROVE FormsDiffer(dirs[d])
      OBVIOUS
    <3>1. DOMAIN dirs[d] = 1 .. Len(dirs[d])
      BY <2>1 DEF Listings
    <3> DEFINE forms == [k \in DOMAIN dirs[d] |-> dirs[d][k].form]
    <3>2. IsInjective(forms)
      BY <2>1
    <3>3. \A i, j \in DOMAIN dirs[d] : forms[i] = forms[j] => i = j
      BY <3>2 DEF IsInjective
    <3> QED BY <3>1, <3>3 DEF FormsDiffer
  <2>3. reversed = [d \in DOMAIN dirs |-> Reverse(dirs[d])]
    OBVIOUS
  <2> HIDE DEF reversed, differ
  <2>4. (Unmatched(dirs) <=> Unmatched(reversed)) /\ (~Unmatched(dirs) => IdPairs(dirs) = IdPairs(reversed))
    BY <2>1, <2>2, <2>3, ReversedAlike
  <2>5. WrongLength(dirs) <=> WrongLength(reversed)
    BY <2>1, <2>3, WrongEitherWay
  <2> QED BY <2>4, <2>5 DEF Raises
<1> QED BY <1>1, DirsAreOK, PTL

----------------------------------------------------------------------------
(* The raw files that can be written *)

\* The lines of a raw file.
HeaderLines == [kind : {"header"}, op : Ops]
RecordLines == [kind : {"record"}, op : Ops, ts : Timestamps, lat : Nat]
Lines == HeaderLines \cup RecordLines \cup {Preamble}

\* A record follows a line of its operation; nothing but the first line is of no table.
FileOK(lines) ==
  /\ lines \in Seq(Lines)
  /\ \A k \in 1 .. Len(lines) :
       /\ lines[k].kind = "preamble" => k = 1
       /\ lines[k].kind = "record" =>
            k > 1 /\ lines[k - 1].kind # "preamble" /\ lines[k - 1].op = lines[k].op

\* It is so in every file.
FilesOK ==
  /\ files \in [1 .. NumFiles -> Seq(Lines)]
  /\ \A f \in 1 .. NumFiles : FileOK(files[f])

\* What a line is, by its kind.
LEMMA LineIs ==
  ASSUME NEW line, line \in Lines
  PROVE  /\ line.kind \in {"header", "record", "preamble"}
         /\ line.kind # "preamble" => line.op \in Ops
         /\ line.kind = "record" => line.ts \in Timestamps /\ line.ts \in Int /\ line.lat \in Nat
<1>1. CASE line \in HeaderLines
  BY <1>1 DEF HeaderLines
<1>2. CASE line \in RecordLines
  <2>1. line.kind = "record" /\ line.op \in Ops /\ line.ts \in Timestamps /\ line.lat \in Nat
    BY <1>2 DEF RecordLines
  <2>2. Timestamps \subseteq Int
    BY TimeAssumption
  <2> QED BY <2>1, <2>2
<1>3. CASE line = Preamble
  BY <1>3 DEF Preamble
<1> QED BY <1>1, <1>2, <1>3 DEF Lines

\* What is written is a line.
LEMMA LinesWritten ==
  /\ Preamble \in Lines /\ Preamble.kind = "preamble"
  /\ \A op \in Ops : Header(op) \in Lines /\ Header(op).kind = "header" /\ Header(op).op = op
  /\ \A op \in Ops : \A ts \in Timestamps :
       Record(op, ts) \in Lines /\ Record(op, ts).kind = "record" /\ Record(op, ts).op = op
<1>1. Preamble \in Lines /\ Preamble.kind = "preamble"
  BY DEF Lines, Preamble
<1>2. \A op \in Ops : Header(op) \in Lines /\ Header(op).kind = "header" /\ Header(op).op = op
  BY DEF Lines, HeaderLines, Header
<1>3. ASSUME NEW op \in Ops, NEW ts \in Timestamps
      PROVE  Record(op, ts) \in Lines /\ Record(op, ts).kind = "record" /\ Record(op, ts).op = op
  <2>1. Latency[op][ts] \in Nat
    BY LatencyAssumption
  <2> QED BY <2>1 DEF Record, Lines, RecordLines
<1> QED BY <1>1, <1>2, <1>3

\* A line that may come next.
MayFollow(lines, line) ==
  /\ line \in Lines
  /\ line.kind = "preamble" => Len(lines) = 0
  /\ line.kind = "record" =>
       Len(lines) > 0 /\ lines[Len(lines)].kind # "preamble" /\ lines[Len(lines)].op = line.op

\* It leaves a file as it has to be.
LEMMA AppendOK ==
  ASSUME NEW lines, NEW line, FileOK(lines), MayFollow(lines, line)
  PROVE  FileOK(Append(lines, line))
<1> DEFINE n == Len(lines)
           more == Append(lines, line)
<1>1. /\ n \in Nat /\ more \in Seq(Lines) /\ Len(more) = n + 1 /\ more[n + 1] = line
      /\ \A k \in 1 .. n : more[k] = lines[k]
  BY DEF FileOK, MayFollow
<1> HIDE DEF more
<1>2. ASSUME NEW k \in 1 .. n + 1
      PROVE  /\ more[k].kind = "preamble" => k = 1
             /\ more[k].kind = "record" =>
                  k > 1 /\ more[k - 1].kind # "preamble" /\ more[k - 1].op = more[k].op
  <2>1. CASE k \in 1 .. n
    <3>1. k > 1 => k - 1 \in 1 .. n
      BY <1>1, <2>1
    <3> QED BY <1>1, <2>1, <3>1 DEF FileOK
  <2>2. CASE k = n + 1
    <3>1. more[k] = line /\ k - 1 = n /\ (n > 0 => n \in 1 .. n)
      BY <1>1, <2>2
    <3>2. line.kind = "preamble" => k = 1
      BY <2>2 DEF MayFollow
    <3>3. line.kind = "record" => n > 0 /\ lines[n].kind # "preamble" /\ lines[n].op = line.op
      BY DEF MayFollow
    <3> HIDE DEF n
    <3> QED BY <1>1, <2>2, <3>1, <3>2, <3>3
  <2> QED BY <1>1, <2>1, <2>2
<1> HIDE DEF n
<1> QED BY <1>1, <1>2 DEF FileOK, more

\* There is a header before whatever belongs to a table, of the same operation.
LEMMA HeaderBefore ==
  ASSUME NEW lines, FileOK(lines)
  PROVE  \A k \in 1 .. Len(lines) : lines[k].kind # "preamble" =>
           \E h \in 1 .. k : lines[h].kind = "header" /\ lines[h].op = lines[k].op
<1> DEFINE n == Len(lines)
           Has(k) == \E h \in 1 .. k : lines[h].kind = "header" /\ lines[h].op = lines[k].op
           T == {k \in Nat : k \in 1 .. n /\ lines[k].kind # "preamble" => Has(k)}
<1>1. n \in Nat /\ \A k \in 1 .. n : lines[k] \in Lines
  BY DEF FileOK
<1>2. ASSUME NEW k \in Nat, \A j \in 0 .. k - 1 : j \in T PROVE k \in T
  <2> SUFFICES ASSUME k \in 1 .. n, lines[k].kind # "preamble" PROVE Has(k)
    <3> HIDE DEF Has
    <3> QED OBVIOUS
  <2>1. CASE lines[k].kind = "header"
    BY <2>1
  <2>2. CASE lines[k].kind = "record"
    <3>1. k > 1 /\ lines[k - 1].kind # "preamble" /\ lines[k - 1].op = lines[k].op
      BY <2>2 DEF FileOK
    <3>2. k - 1 \in 0 .. k - 1 /\ k - 1 \in 1 .. n
      BY <1>1, <3>1
    <3>3. Has(k - 1)
      <4> HIDE DEF Has
      <4> QED BY <1>2, <3>1, <3>2
    <3> QED BY <3>1, <3>2, <3>3
  <2> QED BY <1>1, <2>1, <2>2, LineIs
<1> HIDE DEF T
<1>3. \A k \in Nat : k \in T
  BY <1>2, StrongInduction
<1> QED BY <1>1, <1>3 DEF T

\* In the beginning the files are empty.
LEMMA NoFilesYet == Init => FilesOK
<1> SUFFICES ASSUME Init PROVE FilesOK
  OBVIOUS
<1>1. files \in [1 .. NumFiles -> Seq(Lines)] /\ \A f \in 1 .. NumFiles : Len(files[f]) = 0
  BY DEF Init
<1> QED BY <1>1 DEF FilesOK, FileOK

\* Writing a line that may follow keeps them as they have to be.
LEMMA WriteOK ==
  ASSUME FilesOK, NEW f \in 1 .. NumFiles, NEW line, MayFollow(files[f], line), Write(f, line)
  PROVE  FilesOK'
<1> DEFINE more == Append(files[f], line)
<1>1. files' = [files EXCEPT ![f] = more]
  BY DEF Write
<1>2. FileOK(more)
  BY AppendOK DEF FilesOK
<1> HIDE DEF more
<1>3. more \in Seq(Lines)
  BY <1>2 DEF FileOK
<1> QED BY <1>1, <1>2, <1>3 DEF FilesOK

\* Every step writes such a line.
LEMMA NextOK == FilesOK /\ [Next]_vars => FilesOK'
<1> SUFFICES ASSUME FilesOK, [Next]_vars PROVE FilesOK'
  OBVIOUS
<1>0. DOMAIN files = 1 .. NumFiles
  BY DEF FilesOK
<1>1. CASE WritePreamble
  <2>1. PICK f \in DOMAIN files : files[f] = <<>> /\ Write(f, Preamble)
    BY <1>1 DEF WritePreamble
  <2>2. MayFollow(files[f], Preamble)
    BY <2>1, LinesWritten DEF MayFollow
  <2> QED BY <1>0, <2>1, <2>2, WriteOK
<1>2. CASE WriteHeader
  <2>1. PICK f \in DOMAIN files, op \in Ops : Write(f, Header(op))
    BY <1>2 DEF WriteHeader
  <2>2. MayFollow(files[f], Header(op))
    BY LinesWritten DEF MayFollow
  <2> QED BY <1>0, <2>1, <2>2, WriteOK
<1>3. CASE WriteRecord
  <2>1. PICK f \in DOMAIN files : \E op \in CurrentOp(files[f]), ts \in Timestamps : Write(f, Record(op, ts))
    BY <1>3 DEF WriteRecord
  <2>2. PICK op \in CurrentOp(files[f]), ts \in Timestamps : Write(f, Record(op, ts))
    BY <2>1
  <2> DEFINE lines == files[f]
             n == Len(lines)
  <2>3. FileOK(lines) /\ lines \in Seq(Lines) /\ n \in Nat /\ DOMAIN lines = 1 .. n
    BY <1>0 DEF FilesOK
  <2>4. PICK h \in 1 .. n : lines[h].kind = "header"
    BY <2>2, <2>3 DEF CurrentOp
  <2>5. op = lines[n].op /\ n \in 1 .. n
    BY <2>2, <2>3, <2>4 DEF CurrentOp, Last
  <2>6. lines[n].kind # "preamble"
    <3> SUFFICES ASSUME lines[n].kind = "preamble" PROVE FALSE
      OBVIOUS
    <3>1. n = 1
      BY <2>3, <2>5 DEF FileOK
    <3> QED BY <2>3, <2>4, <3>1
  <2>7. op \in Ops
    BY <2>3, <2>5, <2>6, LineIs
  <2>8. MayFollow(files[f], Record(op, ts))
    BY <2>3, <2>5, <2>6, <2>7, LinesWritten DEF MayFollow
  <2> QED BY <1>0, <2>2, <2>8, WriteOK
<1>4. CASE UNCHANGED vars
  BY <1>4 DEF vars, FilesOK
<1> QED BY <1>1, <1>2, <1>3, <1>4 DEF Next

\* It always holds.
LEMMA FilesAreOK == Spec => []FilesOK
BY NoFilesYet, NextOK, PTL DEF Spec

----------------------------------------------------------------------------
(* The records of an operation *)

\* S has, at each place, the records of an operation up to there.
Selects(S, lines, op) ==
  /\ S \in [0 .. Len(lines) -> Seq(Lines)]
  /\ S[0] = <<>>
  /\ \A k \in 1 .. Len(lines) :
       S[k] = IF IsRecord(lines[k]) /\ lines[k].op = op THEN Append(S[k - 1], lines[k]) ELSE S[k - 1]

\* RecordsOf is the last of these.
LEMMA RecordsAre ==
  ASSUME NEW lines, NEW op, lines \in Seq(Lines)
  PROVE  \E S : Selects(S, lines, op) /\ RecordsOf(lines, op) = S[Len(lines)]
<1> DEFINE n == Len(lines)
           More(s, k) == IF IsRecord(lines[k]) /\ lines[k].op = op THEN Append(s, lines[k]) ELSE s
           Right(g) == g = [k \in 0 .. n |->
                              IF k = 0 THEN <<>>
                              ELSE IF IsRecord(lines[k]) /\ lines[k].op = op THEN Append(g[k - 1], lines[k])
                              ELSE g[k - 1]]
           T == CHOOSE g : Right(g)
           none == <<>>
<1>0. n \in Nat /\ \A k \in 1 .. n : lines[k] \in Lines
  OBVIOUS
<1>1. none \in Seq(Lines)
  OBVIOUS
<1>2. \A s \in Seq(Lines) : \A k \in 1 .. n : More(s, k) \in Seq(Lines)
  BY <1>0
<1>3. RecordsOf(lines, op) = T[n]
  BY DEF RecordsOf
<1> HIDE DEF none
<1>4. PICK S \in [0 .. n -> Seq(Lines)] : S[0] = none /\ \A k \in 1 .. n : S[k] = More(S[k - 1], k)
  <2> DEFINE step == [t \in Seq(Lines) \X (1 .. n) |-> More(t[1], t[2])]
  <2> HIDE DEF More, n
  <2>1. \A s \in Seq(Lines), k \in 1 .. n : step[<<s, k>>] = More(s, k) /\ step[<<s, k>>] \in Seq(Lines)
    BY <1>2
  <2> HIDE DEF step
  <2>2. IsIteration(Seq(Lines), n, none, step)
    BY <1>0, <1>1, <2>1 DEF IsIteration
  <2>3. PICK S \in [0 .. n -> Seq(Lines)] : S[0] = none /\ \A k \in 1 .. n : S[k] = step[<<S[k - 1], k>>]
    BY <2>2, Iteration
  <2>4. ASSUME NEW k \in 1 .. n PROVE S[k] = More(S[k - 1], k)
    <3>1. k - 1 \in 0 .. n
      BY <1>0
    <3> QED BY <2>1, <2>3, <3>1
  <2> QED BY <2>3, <2>4
<1>5. Right(S)
  <2>1. \A k \in 0 .. n : k # 0 => k \in 1 .. n
    BY <1>0
  <2>2. \A k \in 0 .. n : S[k] = IF k = 0 THEN none ELSE More(S[k - 1], k)
    <3> HIDE DEF More, n
    <3> QED BY <1>4, <2>1
  <2>3. S = [k \in 0 .. n |-> IF k = 0 THEN none ELSE More(S[k - 1], k)]
    <3> HIDE DEF More, n
    <3> QED BY <1>4, <2>2
  <2> QED BY <2>3 DEF none
<1>6. Right(T)
  BY <1>5
<1>7. T = [k \in 0 .. n |-> IF k = 0 THEN none ELSE More(T[k - 1], k)]
  <2> HIDE DEF T, n
  <2> QED BY <1>6 DEF none
<1> HIDE DEF T, Right, More
<1>8. T[n] = S[n]
  <2> DEFINE A == {k \in Nat : k \in 0 .. n => T[k] = S[k]}
  <2>1. 0 \in A
    BY <1>0, <1>4, <1>7
  <2>2. ASSUME NEW k \in Nat, k \in A PROVE k + 1 \in A
    <3> SUFFICES ASSUME k + 1 \in 0 .. n PROVE T[k + 1] = S[k + 1]
      OBVIOUS
    <3>1. k \in 0 .. n /\ k + 1 \in 1 .. n /\ (k + 1) - 1 = k /\ k + 1 # 0
      BY <1>0
    <3> HIDE DEF n
    <3>2. T[k + 1] = More(T[k], k + 1)
      BY <1>7, <3>1
    <3>3. S[k + 1] = More(S[k], k + 1)
      BY <1>4, <3>1
    <3> QED BY <2>2, <3>1, <3>2, <3>3
  <2> HIDE DEF A
  <2>3. \A k \in Nat : k \in A
    BY <2>1, <2>2, Induction
  <2> QED BY <1>0, <2>3 DEF A
<1>9. Selects(S, lines, op)
  BY <1>4 DEF Selects, More, none
<1> QED BY <1>3, <1>8, <1>9

\* The records of every operation, up to each place.
AllSelected(R, lines) ==
  \A op \in Ops : Selects(R[op], lines, op) /\ RecordsOf(lines, op) = R[op][Len(lines)]

\* There are such.
LEMMA RecordsByOp ==
  ASSUME NEW lines, lines \in Seq(Lines) PROVE \E R : AllSelected(R, lines)
<1> DEFINE Is(S, op) == Selects(S, lines, op) /\ RecordsOf(lines, op) = S[Len(lines)]
           R == [op \in Ops |-> CHOOSE S : Is(S, op)]
<1>1. \A op \in Ops : \E S : Is(S, op)
  BY RecordsAre
<1>2. \A op \in Ops : Is(R[op], op)
  <2> HIDE DEF Is
  <2> QED BY <1>1
<1> HIDE DEF R
<1> QED BY <1>2 DEF AllSelected

\* No table of an operation begins in the first n lines.
NoHeader(lines, op, n) == \A h \in 1 .. n : lines[h].kind = "header" => lines[h].op # op

\* There is no record of it among them.
NoRecord(R, op, n) == R[op][n] = <<>>

\* Without a header before there is no record.
LEMMA NoRecordYet ==
  ASSUME NEW lines, NEW R, NEW op, NEW n, FileOK(lines), AllSelected(R, lines), op \in Ops,
         n \in 0 .. Len(lines), NoHeader(lines, op, n)
  PROVE  NoRecord(R, op, n)
<1> USE DEF NoHeader, NoRecord
<1> DEFINE S == R[op]
           none == <<>>
           A == {k \in Nat : k \in 0 .. n => S[k] = none}
<1>0. Len(lines) \in Nat /\ n \in Nat /\ n <= Len(lines)
  BY DEF FileOK
<1>1. S[0] = none /\ \A k \in 1 .. Len(lines) :
        ~(IsRecord(lines[k]) /\ lines[k].op = op) => S[k] = S[k - 1]
  BY DEF AllSelected, Selects
<1> HIDE DEF S, none
<1>2. ASSUME NEW k \in Nat, k \in A PROVE k + 1 \in A
  <2> SUFFICES ASSUME k + 1 \in 0 .. n PROVE S[k + 1] = none
    OBVIOUS
  <2>1. k \in 0 .. n /\ k + 1 \in 1 .. n /\ (k + 1) - 1 = k /\ k + 1 \in 1 .. Len(lines)
    BY <1>0
  <2>2. ~(IsRecord(lines[k + 1]) /\ lines[k + 1].op = op)
    <3> SUFFICES ASSUME lines[k + 1].kind = "record", lines[k + 1].op = op PROVE FALSE
      BY DEF IsRecord
    <3>1. PICK h \in 1 .. k + 1 : lines[h].kind = "header" /\ lines[h].op = lines[k + 1].op
      BY <2>1, HeaderBefore
    <3>2. h \in 1 .. n
      BY <1>0, <2>1
    <3> QED BY <3>1, <3>2
  <2> QED BY <1>1, <1>2, <2>1, <2>2
<1>3. 0 \in A
  BY <1>1
<1> HIDE DEF A
<1>4. \A k \in Nat : k \in A
  BY <1>2, <1>3, Induction
<1> QED BY <1>0, <1>4 DEF A, S, none

----------------------------------------------------------------------------
(* Parsing a file *)

\* The tables a file may have, and what the parser has after some lines.
Tables == UNION {[D -> Seq(Lines)] : D \in SUBSET Ops}
Parsed == {Error} \cup [ok : {TRUE}, dict : Tables, label : Ops \cup {NoLabel}, table : Seq(Lines)]

\* Saving a table gives tables or an error.
LEMMA SaveType ==
  ASSUME NEW dict, NEW label, NEW table, dict \in Tables, label \in Ops \cup {NoLabel}, table \in Seq(Lines)
  PROVE  LET saved == SaveOneParsedTable(dict, label, table) IN
         /\ saved.ok \in BOOLEAN
         /\ saved.ok => saved.val \in Tables
         /\ ~saved.ok => saved = Error
<1> DEFINE saved == SaveOneParsedTable(dict, label, table)
<1>0. /\ Error.ok = FALSE
      /\ \A t : Done(t).ok = TRUE /\ Done(t).val = t
  BY DEF Error, Done
<1> SUFFICES saved = Error \/ \E t \in Tables : saved = Done(t)
  <2> HIDE DEF saved
  <2>1. ASSUME saved = Error \/ \E t \in Tables : saved = Done(t)
        PROVE  saved.ok \in BOOLEAN /\ (saved.ok => saved.val \in Tables) /\ (~saved.ok => saved = Error)
    BY <1>0, <2>1
  <2> QED BY <2>1 DEF saved
<1>1. CASE label = NoLabel
  BY <1>1 DEF SaveOneParsedTable
<1>2. CASE label # NoLabel /\ label \in DOMAIN dict
  BY <1>2 DEF SaveOneParsedTable
<1>3. CASE label # NoLabel /\ label \notin DOMAIN dict
  <2> DEFINE D == DOMAIN dict \cup {label}
             t == [l \in D |-> IF l = label THEN table ELSE dict[l]]
  <2>1. D \in SUBSET Ops /\ \A l \in DOMAIN dict : dict[l] \in Seq(Lines)
    BY <1>3 DEF Tables
  <2>2. t \in [D -> Seq(Lines)]
    BY <2>1
  <2>3. t \in Tables
    <3> HIDE DEF t, D
    <3> QED BY <2>1, <2>2 DEF Tables
  <2>4. saved = Done(t)
    BY <1>3 DEF SaveOneParsedTable
  <2> QED BY <2>3, <2>4
<1> QED BY <1>1, <1>2, <1>3

\* A step of the parser, case by case.
LEMMA ParseLineIs ==
  ASSUME NEW p, NEW line, p \in Parsed, line \in Lines
  PROVE  LET saved == SaveOneParsedTable(p.dict, p.label, p.table)
             fails == ~isFailAllowed /\ ContainsFail(line) IN
         /\ p.ok \in BOOLEAN
         /\ ~p.ok => ParseLine(p, line) = Error
         /\ p.ok => /\ p.dict \in Tables /\ p.label \in Ops \cup {NoLabel} /\ p.table \in Seq(Lines)
                    /\ fails => ParseLine(p, line) = Error
         /\ p.ok /\ ~fails =>
              /\ line.kind = "header" =>
                   ParseLine(p, line) = IF saved.ok THEN Parsing(saved.val, line.op, <<>>) ELSE Error
              /\ line.kind = "record" => ParseLine(p, line) = Parsing(p.dict, p.label, Append(p.table, line))
              /\ line.kind = "preamble" => ParseLine(p, line) = p
<1> DEFINE saved == SaveOneParsedTable(p.dict, p.label, p.table)
           fails == ~isFailAllowed /\ ContainsFail(line)
<1>1. CASE p = Error
  BY <1>1 DEF ParseLine, Error
<1>2. CASE p \in [ok : {TRUE}, dict : Tables, label : Ops \cup {NoLabel}, table : Seq(Lines)]
  <2>1. p.ok = TRUE /\ p.dict \in Tables /\ p.label \in Ops \cup {NoLabel} /\ p.table \in Seq(Lines)
    BY <1>2
  <2>2. saved.ok \in BOOLEAN
    BY <2>1, SaveType
  <2> HIDE DEF saved
  <2>3. ParseLine(p, line) = IF (line.kind = "header" /\ ~saved.ok) \/ fails THEN Error
          ELSE CASE line.kind = "header" -> Parsing(saved.val, line.op, <<>>)
                 [] line.kind = "record" -> Parsing(p.dict, p.label, Append(p.table, line))
                 [] line.kind = "preamble" -> p
    BY <2>1 DEF ParseLine, saved
  <2> HIDE DEF fails
  <2>4. fails => ParseLine(p, line) = Error
    BY <2>3
  <2>5. ~fails /\ line.kind = "header" =>
          ParseLine(p, line) = IF saved.ok THEN Parsing(saved.val, line.op, <<>>) ELSE Error
    BY <2>3
  <2>6. ~fails /\ line.kind = "record" => ParseLine(p, line) = Parsing(p.dict, p.label, Append(p.table, line))
    BY <2>3
  <2>7. ~fails /\ line.kind = "preamble" => ParseLine(p, line) = p
    BY <2>3
  <2> QED BY <2>1, <2>4, <2>5, <2>6, <2>7 DEF saved, fails
<1> QED BY <1>1, <1>2 DEF Parsed

\* Its result is of this kind again.
LEMMA ParseLineType ==
  ASSUME NEW p, NEW line, p \in Parsed, line \in Lines PROVE ParseLine(p, line) \in Parsed
<1> DEFINE saved == SaveOneParsedTable(p.dict, p.label, p.table)
           fails == ~isFailAllowed /\ ContainsFail(line)
           q == ParseLine(p, line)
<1>0. Error \in Parsed
  BY DEF Parsed
<1>1. \A d \in Tables : \A l \in Ops \cup {NoLabel} : \A t \in Seq(Lines) : Parsing(d, l, t) \in Parsed
  BY DEF Parsing, Parsed
<1>2. <<>> \in Seq(Lines)
  OBVIOUS
<1>3. CASE ~p.ok \/ fails
  BY <1>0, <1>3, ParseLineIs
<1>4. CASE p.ok /\ ~fails /\ line.kind = "header"
  <2>1. q = IF saved.ok THEN Parsing(saved.val, line.op, <<>>) ELSE Error
    BY <1>4, ParseLineIs
  <2>2. saved.ok => saved.val \in Tables
    BY <1>4, ParseLineIs, SaveType
  <2>3. line.op \in Ops \cup {NoLabel}
    BY <1>4, LineIs
  <2> HIDE DEF saved, q
  <2>4. q \in Parsed
    BY <1>0, <1>1, <1>2, <2>1, <2>2, <2>3
  <2> QED BY <2>4 DEF q
<1>5. CASE p.ok /\ ~fails /\ line.kind = "record"
  <2>1. q = Parsing(p.dict, p.label, Append(p.table, line))
    BY <1>5, ParseLineIs
  <2>2. p.dict \in Tables /\ p.label \in Ops \cup {NoLabel} /\ p.table \in Seq(Lines)
    BY <1>5, ParseLineIs
  <2>3. Append(p.table, line) \in Seq(Lines)
    BY <2>2
  <2> HIDE DEF q
  <2>4. q \in Parsed
    BY <1>1, <2>1, <2>2, <2>3
  <2> QED BY <2>4 DEF q
<1>6. CASE p.ok /\ ~fails /\ line.kind = "preamble"
  BY <1>6, ParseLineIs
<1> QED BY <1>3, <1>4, <1>5, <1>6, LineIs

\* The parser's states, line by line.
Parses(g, lines) ==
  /\ g \in [0 .. Len(lines) -> Parsed]
  /\ g[0] = Parsing(NoTables, NoLabel, <<>>)
  /\ \A k \in 1 .. Len(lines) : g[k] = ParseLine(g[k - 1], lines[k])

\* ParseLines is the last of them.
LEMMA ParseRuns ==
  ASSUME NEW lines, lines \in Seq(Lines)
  PROVE  \E g : Parses(g, lines) /\ ParseLines(lines) = g[Len(lines)]
<1> DEFINE n == Len(lines)
           start == Parsing(NoTables, NoLabel, <<>>)
           Right(g) == g = [k \in 0 .. n |-> IF k = 0 THEN start ELSE ParseLine(g[k - 1], lines[k])]
           T == CHOOSE g : Right(g)
<1>0. n \in Nat /\ \A k \in 1 .. n : lines[k] \in Lines
  OBVIOUS
<1>1. start \in Parsed
  <2>1. NoTables \in Tables
    <3>1. NoTables \in [{} -> Seq(Lines)]
      BY DEF NoTables
    <3> QED BY <3>1 DEF Tables
  <2>2. <<>> \in Seq(Lines)
    OBVIOUS
  <2> QED BY <2>1, <2>2 DEF Parsing, Parsed
<1>2. ParseLines(lines) = T[n]
  BY DEF ParseLines
<1> HIDE DEF start, n
<1>3. PICK S \in [0 .. n -> Parsed] : S[0] = start /\ \A k \in 1 .. n : S[k] = ParseLine(S[k - 1], lines[k])
  <2> DEFINE step == [t \in Parsed \X (1 .. n) |-> ParseLine(t[1], lines[t[2]])]
  <2>1. \A p \in Parsed, k \in 1 .. n : step[<<p, k>>] = ParseLine(p, lines[k]) /\ step[<<p, k>>] \in Parsed
    BY <1>0, ParseLineType
  <2> HIDE DEF step
  <2>2. IsIteration(Parsed, n, start, step)
    BY <1>0, <1>1, <2>1 DEF IsIteration
  <2>3. PICK S \in [0 .. n -> Parsed] : S[0] = start /\ \A k \in 1 .. n : S[k] = step[<<S[k - 1], k>>]
    BY <2>2, Iteration
  <2>4. ASSUME NEW k \in 1 .. n PROVE S[k] = ParseLine(S[k - 1], lines[k])
    <3>1. k - 1 \in 0 .. n
      BY <1>0
    <3> QED BY <2>1, <2>3, <3>1
  <2> QED BY <2>3, <2>4
<1>4. Right(S)
  <2>1. \A k \in 0 .. n : k # 0 => k \in 1 .. n
    BY <1>0
  <2>2. \A k \in 0 .. n : S[k] = IF k = 0 THEN start ELSE ParseLine(S[k - 1], lines[k])
    BY <1>3, <2>1
  <2> QED BY <1>3, <2>2
<1>5. Right(T)
  BY <1>4
<1> HIDE DEF T
<1>6. T[n] = S[n]
  <2> DEFINE A == {k \in Nat : k \in 0 .. n => T[k] = S[k]}
  <2>1. 0 \in A
    BY <1>0, <1>3, <1>5
  <2>2. ASSUME NEW k \in Nat, k \in A PROVE k + 1 \in A
    <3> SUFFICES ASSUME k + 1 \in 0 .. n PROVE T[k + 1] = S[k + 1]
      OBVIOUS
    <3>1. k \in 0 .. n /\ k + 1 \in 1 .. n /\ (k + 1) - 1 = k /\ k + 1 # 0
      BY <1>0
    <3>2. T[k + 1] = ParseLine(T[k], lines[k + 1])
      BY <1>5, <3>1
    <3>3. S[k + 1] = ParseLine(S[k], lines[k + 1])
      BY <1>3, <3>1
    <3> QED BY <2>2, <3>1, <3>2, <3>3
  <2> HIDE DEF A
  <2>3. \A k \in Nat : k \in A
    BY <2>1, <2>2, Induction
  <2> QED BY <1>0, <2>3 DEF A
<1>7. Parses(S, lines)
  BY <1>3 DEF Parses, start, n
<1> QED BY <1>2, <1>6, <1>7 DEF n

----------------------------------------------------------------------------
(* What the parser has after each line *)

\* The headers of a file's first k lines, their operations, and what is wrong there.
HeadersTo(lines, k) == {h \in 1 .. k : lines[h].kind = "header"}
OpsTo(lines, k) == {lines[h].op : h \in HeadersTo(lines, k)}
RepeatsTo(lines, k) == \E i, j \in HeadersTo(lines, k) : i # j /\ lines[i].op = lines[j].op
FailsTo(lines, k) == ~isFailAllowed /\ \E j \in 1 .. k : ContainsFail(lines[j])

\* What the tables would be, if the last one were saved now.
SavedIs(saved, lines, R, k) ==
  /\ saved.ok <=> ~RepeatsTo(lines, k)
  /\ saved.ok => saved.val = [op \in OpsTo(lines, k) |-> R[op][k]]

\* The label is that of the table whose lines come now; R are the records by operation.
StateOK(p, lines, R, k) ==
  /\ ~p.ok => RepeatsTo(lines, k) \/ FailsTo(lines, k)
  /\ p.ok =>
       /\ ~FailsTo(lines, k)
       /\ p.label = NoLabel => OpsTo(lines, k) = {}
       /\ p.label # NoLabel => k > 0 /\ lines[k].kind # "preamble" /\ lines[k].op = p.label
       /\ SavedIs(SaveOneParsedTable(p.dict, p.label, p.table), lines, R, k)

\* The records up to the next line.
RecordsGrow(R, lines, k) ==
  \A op \in Ops : R[op][k + 1] = IF IsRecord(lines[k + 1]) /\ lines[k + 1].op = op
                                    THEN Append(R[op][k], lines[k + 1]) ELSE R[op][k]

\* One line more: the headers, operations and records.
LEMMA OneMore ==
  ASSUME NEW lines, NEW R, NEW k, FileOK(lines), AllSelected(R, lines), k \in Nat, k + 1 \in 1 .. Len(lines)
  PROVE  /\ HeadersTo(lines, k + 1) =
              HeadersTo(lines, k) \cup (IF lines[k + 1].kind = "header" THEN {k + 1} ELSE {})
         /\ k + 1 \notin HeadersTo(lines, k)
         /\ OpsTo(lines, k + 1) = OpsTo(lines, k) \cup (IF lines[k + 1].kind = "header" THEN {lines[k + 1].op} ELSE {})
         /\ RecordsGrow(R, lines, k)
         /\ FailsTo(lines, k + 1) <=> FailsTo(lines, k) \/ (~isFailAllowed /\ ContainsFail(lines[k + 1]))
<1>1. \A h : h \in 1 .. k + 1 <=> h \in 1 .. k \/ h = k + 1
  OBVIOUS
<1>2. k + 1 \notin 1 .. k
  OBVIOUS
<1>3. HeadersTo(lines, k + 1) = HeadersTo(lines, k) \cup (IF lines[k + 1].kind = "header" THEN {k + 1} ELSE {})
  BY <1>1 DEF HeadersTo
<1>4. k + 1 \notin HeadersTo(lines, k)
  BY <1>2 DEF HeadersTo
<1>5. OpsTo(lines, k + 1) = OpsTo(lines, k) \cup (IF lines[k + 1].kind = "header" THEN {lines[k + 1].op} ELSE {})
  BY <1>3 DEF OpsTo
<1>6. RecordsGrow(R, lines, k)
  <2>1. (k + 1) - 1 = k
    OBVIOUS
  <2> QED BY <2>1 DEF AllSelected, Selects, RecordsGrow
<1>7. FailsTo(lines, k + 1) <=> FailsTo(lines, k) \/ (~isFailAllowed /\ ContainsFail(lines[k + 1]))
  BY <1>1 DEF FailsTo
<1> QED BY <1>3, <1>4, <1>5, <1>6, <1>7

\* A header that is not repeated is saved before.
LEMMA HeaderStep ==
  ASSUME NEW lines, NEW R, NEW k, NEW p, FileOK(lines), AllSelected(R, lines), k \in Nat, k + 1 \in 1 .. Len(lines),
         p \in Parsed, StateOK(p, lines, R, k), p.ok, lines[k + 1].kind = "header",
         ~FailsTo(lines, k + 1)
  PROVE  StateOK(ParseLine(p, lines[k + 1]), lines, R, k + 1)
<1> DEFINE line == lines[k + 1]
           op == line.op
           saved == SaveOneParsedTable(p.dict, p.label, p.table)
           q == ParseLine(p, line)
           more == SaveOneParsedTable(saved.val, op, <<>>)
           none == <<>>
<1>0. line \in Lines /\ op \in Ops /\ op # NoLabel
  <2>1. line \in Lines
    BY DEF FileOK
  <2> QED BY <2>1, LineIs, OpsAssumption
<1>1. ~(~isFailAllowed /\ ContainsFail(line))
  BY OneMore
<1>2. q = IF saved.ok THEN Parsing(saved.val, op, <<>>) ELSE Error
  BY <1>0, <1>1, ParseLineIs
<1>3. SavedIs(saved, lines, R, k)
  BY DEF StateOK
<1>4. HeadersTo(lines, k + 1) = HeadersTo(lines, k) \cup {k + 1} /\ k + 1 \notin HeadersTo(lines, k)
  BY OneMore
<1>5. OpsTo(lines, k + 1) = OpsTo(lines, k) \cup {op}
  BY OneMore
<1>6. CASE ~saved.ok
  <2>1. RepeatsTo(lines, k)
    BY <1>3, <1>6 DEF SavedIs
  <2>2. RepeatsTo(lines, k + 1)
    BY <1>4, <2>1 DEF RepeatsTo
  <2>3. ~q.ok
    BY <1>2, <1>6 DEF Error
  <2> QED BY <2>2, <2>3 DEF StateOK
<1>7. CASE saved.ok
  <2>1. ~RepeatsTo(lines, k) /\ saved.val = [o \in OpsTo(lines, k) |-> R[o][k]]
    BY <1>3, <1>7 DEF SavedIs
  <2>2. q.ok /\ q.dict = saved.val /\ q.label = op /\ q.table = none
    BY <1>2, <1>7 DEF Parsing
  <2>3. RepeatsTo(lines, k + 1) <=> op \in OpsTo(lines, k)
    <3>1. \A h \in HeadersTo(lines, k) : h # k + 1
      BY <1>4
    <3>2. op \in OpsTo(lines, k) <=> \E h \in HeadersTo(lines, k) : lines[h].op = op
      BY DEF OpsTo
    <3> QED BY <1>4, <2>1, <3>1, <3>2 DEF RepeatsTo
  <2>4. more = IF op \in OpsTo(lines, k) THEN Error
               ELSE Done([l \in OpsTo(lines, k) \cup {op} |-> IF l = op THEN none ELSE saved.val[l]])
    <3> HIDE DEF op, saved
    <3>1. DOMAIN saved.val = OpsTo(lines, k)
      BY <2>1
    <3> QED BY <1>0, <3>1 DEF SaveOneParsedTable
  <2>5. SavedIs(more, lines, R, k + 1)
    <3>1. CASE op \in OpsTo(lines, k)
      BY <2>3, <2>4, <3>1 DEF SavedIs, Error
    <3>2. CASE op \notin OpsTo(lines, k)
      <4>1. NoHeader(lines, op, k)
        BY <3>2 DEF OpsTo, HeadersTo, NoHeader
      <4>2. R[op][k] = none
        <5>1. k \in 0 .. Len(lines)
          OBVIOUS
        <5>2. op \in Ops
          BY <1>0
        <5> HIDE DEF op
        <5>3. NoRecord(R, op, k)
          <6> HIDE DEF line, saved, q, more
          <6> QED BY <4>1, <5>1, <5>2, NoRecordYet
        <5> QED BY <5>3 DEF NoRecord
      <4>3. \A l \in Ops : R[l][k + 1] = R[l][k]
        <5>1. ~IsRecord(lines[k + 1])
          BY DEF IsRecord
        <5>2. RecordsGrow(R, lines, k)
          BY OneMore
        <5> QED BY <5>1, <5>2 DEF RecordsGrow
      <4>4. OpsTo(lines, k) \subseteq Ops
        <5>1. \A h \in 1 .. k : lines[h] \in Lines
          BY DEF FileOK
        <5> QED BY <5>1, LineIs DEF OpsTo, HeadersTo
      <4>5. \A l \in OpsTo(lines, k) \cup {op} : (IF l = op THEN none ELSE saved.val[l]) = R[l][k + 1]
        <5> HIDE DEF none, saved, op
        <5> QED BY <1>0, <2>1, <4>2, <4>3, <4>4
      <4>6. more.ok /\ more.val = [l \in OpsTo(lines, k) \cup {op} |-> IF l = op THEN none ELSE saved.val[l]]
        <5> HIDE DEF more
        <5> QED BY <2>4, <3>2 DEF Done
      <4>7. more.val = [l \in OpsTo(lines, k + 1) |-> R[l][k + 1]]
        <5> HIDE DEF none, saved, op, more
        <5> QED BY <1>5, <4>5, <4>6
      <4> HIDE DEF more, op
      <4> QED BY <2>3, <3>2, <4>6, <4>7 DEF SavedIs
    <3> QED BY <3>1, <3>2
  <2>6. SaveOneParsedTable(q.dict, q.label, q.table) = more
    BY <2>2
  <2>7. /\ k + 1 > 0 /\ lines[k + 1].kind # "preamble" /\ lines[k + 1].op = op
        /\ op # NoLabel
    BY <1>0
  <2> HIDE DEF q, more, op
  <2>8. StateOK(q, lines, R, k + 1)
    BY <2>2, <2>5, <2>6, <2>7 DEF StateOK
  <2> QED BY <2>8 DEF q
<1> QED BY <1>6, <1>7

\* A record is added to the table of its operation.
LEMMA RecordStep ==
  ASSUME NEW lines, NEW R, NEW k, NEW p, FileOK(lines), AllSelected(R, lines), k \in Nat, k + 1 \in 1 .. Len(lines),
         p \in Parsed, StateOK(p, lines, R, k), p.ok, lines[k + 1].kind = "record",
         ~FailsTo(lines, k + 1)
  PROVE  StateOK(ParseLine(p, lines[k + 1]), lines, R, k + 1)
<1> DEFINE line == lines[k + 1]
           op == line.op
           saved == SaveOneParsedTable(p.dict, p.label, p.table)
           table == Append(p.table, line)
           q == ParseLine(p, line)
           more == SaveOneParsedTable(p.dict, p.label, table)
<1>0. line \in Lines /\ op \in Ops /\ op # NoLabel /\ line.kind # "preamble"
  <2>1. line \in Lines
    BY DEF FileOK
  <2> QED BY <2>1, LineIs, OpsAssumption
<1>1. ~(~isFailAllowed /\ ContainsFail(line))
  BY OneMore
<1>2. q = Parsing(p.dict, p.label, table)
  BY <1>0, <1>1, ParseLineIs
<1>3. SavedIs(saved, lines, R, k)
  BY DEF StateOK
<1>4. HeadersTo(lines, k + 1) = HeadersTo(lines, k) /\ OpsTo(lines, k + 1) = OpsTo(lines, k)
  BY ZenonT(30), OneMore
<1>5. p.label = op
  <2>1. (k + 1) - 1 = k /\ k > 0 /\ lines[k].kind # "preamble" /\ lines[k].op = op
    BY DEF FileOK
  <2>2. PICK h \in 1 .. k : lines[h].kind = "header"
    <3>1. k \in 1 .. Len(lines)
      BY <2>1
    <3> QED BY <2>1, <3>1, HeaderBefore
  <2>3. OpsTo(lines, k) # {}
    BY <2>2 DEF OpsTo, HeadersTo
  <2> QED BY <2>1, <2>3 DEF StateOK
<1>6. p.label # NoLabel
  BY <1>0, <1>5
<1>7. RepeatsTo(lines, k + 1) <=> RepeatsTo(lines, k)
  BY <1>4 DEF RepeatsTo
<1>8. SavedIs(more, lines, R, k + 1)
  <2>1. CASE op \in DOMAIN p.dict
    <3>1. saved = Error /\ more = Error
      BY <1>5, <1>6, <2>1 DEF SaveOneParsedTable
    <3> HIDE DEF saved, more
    <3> QED BY <1>3, <1>7, <3>1 DEF SavedIs, Error
  <2>2. CASE op \notin DOMAIN p.dict
    <3> DEFINE D == DOMAIN p.dict \cup {op}
    <3>1. /\ saved = Done([l \in D |-> IF l = op THEN p.table ELSE p.dict[l]])
          /\ more = Done([l \in D |-> IF l = op THEN table ELSE p.dict[l]])
      BY <1>5, <1>6, <2>2 DEF SaveOneParsedTable
    <3> HIDE DEF saved, more, table, op
    <3>2. /\ saved.ok /\ saved.val = [l \in D |-> IF l = op THEN p.table ELSE p.dict[l]]
          /\ more.ok /\ more.val = [l \in D |-> IF l = op THEN table ELSE p.dict[l]]
      BY <3>1 DEF Done
    <3>3. /\ ~RepeatsTo(lines, k)
          /\ saved.val = [l \in OpsTo(lines, k) |-> R[l][k]]
      BY <1>3, <3>2 DEF SavedIs
    <3>4. D = OpsTo(lines, k)
      BY <3>2, <3>3
    <3>5. D \subseteq Ops
      BY <1>0, ParseLineIs DEF Tables
    <3>6. \A l \in D : R[l][k + 1] = IF l = op THEN Append(R[l][k], line) ELSE R[l][k]
      <4>1. RecordsGrow(R, lines, k)
        BY OneMore
      <4> HIDE DEF D
      <4> QED BY <3>5, <4>1 DEF RecordsGrow, IsRecord, op
    <3>7. \A l \in D : R[l][k] = IF l = op THEN p.table ELSE p.dict[l]
      <4> HIDE DEF D
      <4> QED BY <3>2, <3>3, <3>4
    <3>8. \A l \in D : (IF l = op THEN table ELSE p.dict[l]) = R[l][k + 1]
      <4> HIDE DEF D
      <4> QED BY <3>6, <3>7 DEF table
    <3>9. more.val = [l \in OpsTo(lines, k + 1) |-> R[l][k + 1]]
      <4> HIDE DEF D
      <4> QED BY <1>4, <3>2, <3>4, <3>8
    <3> QED BY <1>7, <3>2, <3>3, <3>9 DEF SavedIs
  <2> QED BY <2>1, <2>2
<1>9. q.ok /\ q.label = op /\ SaveOneParsedTable(q.dict, q.label, q.table) = more
  BY <1>2, <1>5 DEF Parsing
<1> HIDE DEF q, more
<1>10. StateOK(q, lines, R, k + 1)
  BY <1>0, <1>8, <1>9 DEF StateOK
<1> QED BY <1>10 DEF q

\* A file begins with a line of no table, or none of its lines is one.
LEMMA PreambleStep ==
  ASSUME NEW lines, NEW R, NEW k, NEW p, FileOK(lines), AllSelected(R, lines), k \in Nat, k + 1 \in 1 .. Len(lines),
         p \in Parsed, StateOK(p, lines, R, k), p.ok, lines[k + 1].kind = "preamble",
         ~FailsTo(lines, k + 1)
  PROVE  StateOK(ParseLine(p, lines[k + 1]), lines, R, k + 1)
<1> DEFINE line == lines[k + 1]
           saved == SaveOneParsedTable(p.dict, p.label, p.table)
<1>0. line \in Lines
  BY DEF FileOK
<1>1. ~(~isFailAllowed /\ ContainsFail(line))
  BY OneMore
<1>2. ParseLine(p, line) = p
  BY <1>0, <1>1, ParseLineIs
<1>3. k = 0
  BY DEF FileOK
<1>4. p.label = NoLabel
  BY <1>3 DEF StateOK
<1>5. HeadersTo(lines, k + 1) = HeadersTo(lines, k) /\ OpsTo(lines, k + 1) = OpsTo(lines, k)
  BY ZenonT(30), OneMore
<1>6. OpsTo(lines, k) = {}
  BY <1>4 DEF StateOK
<1>7. RepeatsTo(lines, k + 1) <=> RepeatsTo(lines, k)
  BY <1>5 DEF RepeatsTo
<1>8. SavedIs(saved, lines, R, k)
  BY DEF StateOK
<1> HIDE DEF saved
<1>9. SavedIs(saved, lines, R, k + 1)
  BY <1>5, <1>6, <1>7, <1>8 DEF SavedIs
<1>10. StateOK(p, lines, R, k + 1)
  BY <1>4, <1>5, <1>6, <1>9 DEF StateOK, saved
<1> QED BY <1>2, <1>10

\* After every line the parser has what it should.
LEMMA ParseKeeps ==
  ASSUME NEW lines, NEW R, NEW g, FileOK(lines), AllSelected(R, lines), Parses(g, lines)
  PROVE  StateOK(g[Len(lines)], lines, R, Len(lines))
<1> DEFINE n == Len(lines)
           A == {k \in Nat : k \in 0 .. n => StateOK(g[k], lines, R, k)}
<1>0. n \in Nat
  BY DEF FileOK
<1>1. 0 \in A
  <2>1. g[0] = Parsing(NoTables, NoLabel, <<>>)
    BY DEF Parses
  <2>2. HeadersTo(lines, 0) = {} /\ OpsTo(lines, 0) = {} /\ ~RepeatsTo(lines, 0) /\ ~FailsTo(lines, 0)
    BY DEF HeadersTo, OpsTo, RepeatsTo, FailsTo
  <2>3. g[0].ok /\ g[0].label = NoLabel /\ g[0].dict = NoTables
    BY <2>1 DEF Parsing
  <2> DEFINE saved == SaveOneParsedTable(g[0].dict, g[0].label, g[0].table)
  <2>4. saved = Done(NoTables)
    BY <2>3 DEF SaveOneParsedTable
  <2>5. Done(NoTables).ok /\ Done(NoTables).val = NoTables
    BY DEF Done
  <2>6. NoTables = [op \in OpsTo(lines, 0) |-> R[op][0]]
    BY <2>2 DEF NoTables
  <2>7. SavedIs(saved, lines, R, 0)
    <3> HIDE DEF saved
    <3> QED BY <2>2, <2>4, <2>5, <2>6 DEF SavedIs
  <2>8. StateOK(g[0], lines, R, 0)
    BY <2>2, <2>3, <2>7 DEF StateOK
  <2> QED BY <2>8
<1>2. ASSUME NEW k \in Nat, k \in A PROVE k + 1 \in A
  <2> SUFFICES ASSUME k + 1 \in 0 .. n PROVE StateOK(g[k + 1], lines, R, k + 1)
    OBVIOUS
  <2>1. k \in 0 .. n /\ k + 1 \in 1 .. n /\ (k + 1) - 1 = k
    BY <1>0
  <2>2. StateOK(g[k], lines, R, k)
    BY <1>2, <2>1
  <2> DEFINE line == lines[k + 1]
             p == g[k]
  <2>3. g[k + 1] = ParseLine(p, line) /\ p \in Parsed /\ line \in Lines
    BY <2>1 DEF Parses, FileOK
  <2>4. CASE FailsTo(lines, k + 1)
    <3>1. ParseLine(p, line) = Error
      <4>1. CASE ~p.ok
        BY <2>3, <4>1, ParseLineIs
      <4>2. CASE p.ok
        <5>1. ~FailsTo(lines, k)
          BY <2>2, <4>2 DEF StateOK
        <5>2. ~isFailAllowed /\ ContainsFail(line)
          BY <2>1, <2>4, <5>1, OneMore
        <5> QED BY <2>3, <4>2, <5>2, ParseLineIs
      <4> QED BY <4>1, <4>2
    <3>2. ~Error.ok
      BY DEF Error
    <3> QED BY <2>3, <2>4, <3>1, <3>2 DEF StateOK
  <2>5. CASE ~FailsTo(lines, k + 1) /\ ~p.ok
    <3>1. ParseLine(p, line) = Error
      BY <2>3, <2>5, ParseLineIs
    <3>2. ~Error.ok
      BY DEF Error
    <3>3. RepeatsTo(lines, k)
      <4>1. ~FailsTo(lines, k)
        BY <2>1, <2>5, OneMore
      <4> QED BY <2>2, <2>5, <4>1 DEF StateOK
    <3>4. RepeatsTo(lines, k + 1)
      <4>1. HeadersTo(lines, k) \subseteq HeadersTo(lines, k + 1)
        BY DEF HeadersTo
      <4> QED BY <3>3, <4>1 DEF RepeatsTo
    <3> QED BY <2>3, <3>1, <3>2, <3>4 DEF StateOK
  <2>6. CASE ~FailsTo(lines, k + 1) /\ p.ok
    <3> HIDE DEF n, A
    <3>1. k + 1 \in 1 .. Len(lines)
      BY <2>1 DEF n
    <3>2. line.kind \in {"header", "record", "preamble"}
      BY <2>3, LineIs
    <3>3. CASE line.kind = "header"
      BY <2>2, <2>3, <2>6, <3>1, <3>3, HeaderStep
    <3>4. CASE line.kind = "record"
      BY <2>2, <2>3, <2>6, <3>1, <3>4, RecordStep
    <3>5. CASE line.kind = "preamble"
      BY <2>2, <2>3, <2>6, <3>1, <3>5, PreambleStep
    <3> QED BY <3>2, <3>3, <3>4, <3>5
  <2> QED BY <2>4, <2>5, <2>6
<1> HIDE DEF A
<1>3. \A k \in Nat : k \in A
  BY <1>1, <1>2, Induction
<1> QED BY <1>0, <1>3 DEF A

\* A file that can be parsed is one without a repeated table or a failure that is not
\* allowed, and its tables are its records by operation.
FileWrong(lines) ==
  \/ RepeatedTable(lines)
  \/ ~isFailAllowed /\ \E k \in DOMAIN lines : ContainsFail(lines[k])
OpsOf(lines) == {lines[k].op : k \in HeadersOf(lines)}
TablesOf(lines) == [op \in OpsOf(lines) |-> RecordsOf(lines, op)]

\* ParseYcsbCsv does so.
LEMMA FileParsed ==
  ASSUME NEW lines, FileOK(lines)
  PROVE  ParseYcsbCsv(lines) = IF FileWrong(lines) THEN Error ELSE Done(TablesOf(lines))
<1> DEFINE n == Len(lines)
           result == ParseYcsbCsv(lines)
<1>0. lines \in Seq(Lines) /\ n \in Nat /\ DOMAIN lines = 1 .. n
  BY DEF FileOK
<1>1. PICK R : AllSelected(R, lines)
  BY <1>0, RecordsByOp
<1>2. PICK g : Parses(g, lines) /\ ParseLines(lines) = g[n]
  BY <1>0, ParseRuns
<1> DEFINE p == g[n]
           saved == SaveOneParsedTable(p.dict, p.label, p.table)
<1>3. StateOK(p, lines, R, n)
  BY <1>1, <1>2, ParseKeeps
<1>4. p \in Parsed
  BY <1>0, <1>2 DEF Parses
<1>5. HeadersTo(lines, n) = HeadersOf(lines)
  BY <1>0 DEF HeadersTo, HeadersOf
<1>6. FileWrong(lines) <=> RepeatsTo(lines, n) \/ FailsTo(lines, n)
  BY <1>0, <1>5 DEF FileWrong, RepeatedTable, RepeatsTo, FailsTo
<1>7. result = IF p.ok THEN saved ELSE Error
  BY <1>2 DEF ParseYcsbCsv
<1>8. CASE ~p.ok
  BY <1>3, <1>6, <1>7, <1>8 DEF StateOK
<1>9. CASE p.ok
  <2>1. ~FailsTo(lines, n) /\ SavedIs(saved, lines, R, n)
    BY <1>3, <1>9 DEF StateOK
  <2>2. p.dict \in Tables /\ p.label \in Ops \cup {NoLabel} /\ p.table \in Seq(Lines)
    <3> HIDE DEF p
    <3>1. p # Error
      BY <1>9 DEF Error
    <3> QED BY <1>4, <3>1 DEF Parsed
  <2>3. saved = Error \/ saved = Done(saved.val)
    BY <2>2 DEF SaveOneParsedTable, Error, Done
  <2>4. Error.ok = FALSE /\ \A t : Done(t).ok = TRUE
    BY DEF Error, Done
  <2> HIDE DEF saved, p, result
  <2>5. CASE RepeatsTo(lines, n)
    <3>1. saved = Error
      BY <2>1, <2>3, <2>4, <2>5 DEF SavedIs
    <3>2. result = Error
      BY <1>7, <3>1
    <3> QED BY <1>6, <2>5, <3>2 DEF result
  <2>6. CASE ~RepeatsTo(lines, n)
    <3>1. saved.ok /\ saved.val = [op \in OpsTo(lines, n) |-> R[op][n]]
      BY <2>1, <2>6 DEF SavedIs
    <3>2. OpsTo(lines, n) = OpsOf(lines)
      BY <1>5 DEF OpsTo, OpsOf
    <3>3. OpsOf(lines) \subseteq Ops
      <4>1. \A k \in 1 .. n : lines[k] \in Lines
        BY <1>0
      <4> QED BY <1>0, <4>1, LineIs DEF OpsOf, HeadersOf
    <3>4. \A op \in OpsOf(lines) : R[op][n] = RecordsOf(lines, op)
      BY <1>1, <3>3 DEF AllSelected
    <3>5. saved.val = TablesOf(lines)
      BY <3>1, <3>2, <3>4 DEF TablesOf
    <3>6. result = Done(TablesOf(lines))
      <4>1. saved # Error
        BY <2>4, <3>1
      <4> QED BY <1>7, <1>9, <2>3, <3>5, <4>1
    <3> QED BY <1>6, <2>1, <2>6, <3>6 DEF result
  <2> QED BY <2>5, <2>6
<1> QED BY <1>8, <1>9

\* A file's tables are its records by operation, each in the order it was written; a label
\* that comes twice and a failure that is not allowed are errors (ParseYcsbCsv).
THEOREM TablesParsed == Spec => []TablesAsWritten
<1>1. FilesOK => TablesAsWritten
  <2> SUFFICES ASSUME FilesOK, NEW f \in DOMAIN files
               PROVE  ParseYcsbCsv(files[f]) = IF FileWrong(files[f]) THEN Error ELSE Done(TablesOf(files[f]))
    BY DEF TablesAsWritten, FileWrong, TablesOf, OpsOf
  <2>1. FileOK(files[f])
    BY DEF FilesOK
  <2> QED BY <2>1, FileParsed
<1> QED BY <1>1, FilesAreOK, PTL

----------------------------------------------------------------------------
(* Lines by their places: a pair of the file and the line in it *)

Places == UNION {{<<f, k>> : k \in 1 .. Len(files[f])} : f \in 1 .. NumFiles}
LineAt(w) == files[w[1]][w[2]]
IsPlace(f, k) == f \in 1 .. NumFiles /\ k \in 1 .. Len(files[f])

\* What a place is.
LEMMA PlaceIs ==
  /\ \A w \in Places : IsPlace(w[1], w[2])
  /\ \A v, w \in Places : v[1] = w[1] /\ v[2] = w[2] => v = w
  /\ \A f, k : IsPlace(f, k) => <<f, k>> \in Places
<1>1. ASSUME NEW w \in Places PROVE IsPlace(w[1], w[2]) /\ w = <<w[1], w[2]>>
  <2>1. PICK f \in 1 .. NumFiles : w \in {<<f, k>> : k \in 1 .. Len(files[f])}
    BY DEF Places
  <2>2. PICK k \in 1 .. Len(files[f]) : w = <<f, k>>
    BY <2>1
  <2> QED BY <2>2 DEF IsPlace
<1>2. ASSUME NEW v \in Places, NEW w \in Places, v[1] = w[1], v[2] = w[2] PROVE v = w
  <2>1. v = <<v[1], v[2]>> /\ w = <<w[1], w[2]>>
    BY <1>1
  <2> QED BY <1>2, <2>1
<1>3. ASSUME NEW f, NEW k, IsPlace(f, k) PROVE <<f, k>> \in Places
  <2>1. f \in 1 .. NumFiles /\ k \in 1 .. Len(files[f])
    BY <1>3 DEF IsPlace
  <2> QED BY <2>1 DEF Places
<1> QED BY <1>1, <1>2, <1>3

\* There are finitely many.
LEMMA PlacesFinite == ASSUME FilesOK PROVE IsFiniteSet(Places)
<1> DEFINE line(f) == {<<f, k>> : k \in 1 .. Len(files[f])}
           all == {line(f) : f \in 1 .. NumFiles}
<1>1. ASSUME NEW f \in 1 .. NumFiles PROVE IsFiniteSet(line(f))
  <2>1. Len(files[f]) \in Nat
    BY DEF FilesOK
  <2>2. IsFiniteSet(1 .. Len(files[f]))
    BY <2>1, FS_Interval
  <2> DEFINE at == [k \in 1 .. Len(files[f]) |-> <<f, k>>]
  <2>3. Onto(at, 1 .. Len(files[f]), line(f))
    BY DEF Onto
  <2> HIDE DEF at, line
  <2> QED BY <2>2, <2>3, FiniteImage
<1>2. IsFiniteSet(1 .. NumFiles)
  <2>1. NumFiles \in Nat
    BY FilesAssumption
  <2> QED BY <2>1, FS_Interval
<1> HIDE DEF line
<1>3. IsFiniteSet(all)
  <2> DEFINE at == [f \in 1 .. NumFiles |-> line(f)]
  <2>1. Onto(at, 1 .. NumFiles, all)
    BY DEF Onto
  <2> HIDE DEF at, all
  <2> QED BY <1>2, <2>1, FiniteImage
<1>4. IsFiniteSet(UNION all)
  BY <1>1, <1>3, FS_UNION
<1> QED BY <1>4 DEF Places, line

\* The lines of a list are at the places of a set, each once.
ListsBy(at, s, W) ==
  /\ at \in [1 .. Len(s) -> W]
  /\ \A i, j \in 1 .. Len(s) : at[i] = at[j] => i = j
  /\ \A w \in W : \E i \in 1 .. Len(s) : at[i] = w
  /\ \A i \in 1 .. Len(s) : s[i] = LineAt(at[i])
Lists(s, W) == s \in Seq(Lines) /\ \E at : ListsBy(at, s, W)

\* No lines.
LEMMA ListsNone == Lists(<<>>, {})
<1> DEFINE none == <<>>
           at == [i \in 1 .. 0 |-> i]
<1>1. none \in Seq(Lines) /\ Len(none) = 0
  OBVIOUS
<1> HIDE DEF none
<1>2. ListsBy(at, none, {})
  BY <1>1 DEF ListsBy
<1>3. Lists(none, {})
  BY <1>1, <1>2 DEF Lists
<1> QED BY <1>3 DEF none

\* Two lists of different places.
LEMMA ListsConcat ==
  ASSUME NEW s, NEW t, NEW V, NEW W, Lists(s, V), Lists(t, W), V \cap W = {}
  PROVE  Lists(s \o t, V \cup W)
<1> DEFINE n == Len(s)
           m == Len(t)
           st == s \o t
<1>0. PICK a : ListsBy(a, s, V)
  BY DEF Lists
<1>1. PICK b : ListsBy(b, t, W)
  BY DEF Lists
<1> DEFINE at == [i \in 1 .. n + m |-> IF i <= n THEN a[i] ELSE b[i - n]]
<1>2. s \in Seq(Lines) /\ t \in Seq(Lines) /\ n \in Nat /\ m \in Nat
  BY DEF Lists
<1>3. /\ st \in Seq(Lines) /\ Len(st) = n + m
      /\ \A i \in 1 .. n + m : st[i] = IF i <= n THEN s[i] ELSE t[i - n]
  BY <1>2, ConcatProperties
<1>4. /\ \A i \in 1 .. n : a[i] \in V /\ s[i] = LineAt(a[i])
      /\ \A i \in 1 .. m : b[i] \in W /\ t[i] = LineAt(b[i])
  BY <1>0, <1>1 DEF ListsBy
<1> HIDE DEF st, n, m
<1>5. \A i \in 1 .. n + m : \/ i \in 1 .. n /\ i <= n
                            \/ i - n \in 1 .. m /\ ~(i <= n)
  BY <1>2
<1>6. \A i \in 1 .. n + m : at[i] \in V \cup W /\ st[i] = LineAt(at[i])
  BY <1>3, <1>4, <1>5
<1>7. ASSUME NEW i \in 1 .. n + m, NEW j \in 1 .. n + m, at[i] = at[j] PROVE i = j
  <2>1. CASE i <= n /\ j <= n
    <3>1. i \in 1 .. n /\ j \in 1 .. n /\ a[i] = a[j]
      BY <1>2, <1>7, <2>1
    <3> QED BY <1>0, <3>1 DEF ListsBy, n
  <2>2. CASE ~(i <= n) /\ ~(j <= n)
    <3>1. i - n \in 1 .. m /\ j - n \in 1 .. m /\ b[i - n] = b[j - n]
      BY <1>2, <1>7, <2>2
    <3>2. i - n = j - n
      BY <1>1, <3>1 DEF ListsBy, m
    <3> QED BY <1>2, <3>2
  <2>3. CASE i <= n /\ ~(j <= n)
    <3>1. i \in 1 .. n /\ j - n \in 1 .. m /\ a[i] = b[j - n]
      BY <1>2, <1>7, <2>3
    <3> QED BY <1>4, <3>1
  <2>4. CASE ~(i <= n) /\ j <= n
    <3>1. j \in 1 .. n /\ i - n \in 1 .. m /\ a[j] = b[i - n]
      BY <1>2, <1>7, <2>4
    <3> QED BY <1>4, <3>1
  <2> QED BY <2>1, <2>2, <2>3, <2>4
<1>8. ASSUME NEW w \in V \cup W PROVE \E i \in 1 .. n + m : at[i] = w
  <2>1. CASE w \in V
    <3>1. PICK i \in 1 .. n : a[i] = w
      BY <1>0, <2>1 DEF ListsBy, n
    <3>2. i \in 1 .. n + m /\ i <= n
      BY <1>2
    <3> QED BY <3>1, <3>2
  <2>2. CASE w \in W
    <3>1. PICK i \in 1 .. m : b[i] = w
      BY <1>1, <2>2 DEF ListsBy, m
    <3>2. n + i \in 1 .. n + m /\ ~(n + i <= n) /\ (n + i) - n = i
      BY <1>2
    <3>3. at[n + i] = b[i]
      BY <3>2
    <3> QED BY <3>1, <3>2, <3>3
  <2> QED BY <2>1, <2>2
<1>9. at \in [1 .. n + m -> V \cup W]
  BY <1>6
<1>10. ListsBy(at, st, V \cup W)
  <2> HIDE DEF at
  <2> QED BY <1>3, <1>6, <1>7, <1>8, <1>9 DEF ListsBy
<1> HIDE DEF at
<1> QED BY <1>3, <1>10 DEF Lists, st

\* One more line, at another place.
LEMMA ListsAppend ==
  ASSUME NEW s, NEW V, NEW w, Lists(s, V), w \notin V, LineAt(w) \in Lines
  PROVE  Lists(Append(s, LineAt(w)), V \cup {w})
<1> DEFINE n == Len(s)
           line == LineAt(w)
           t == Append(s, line)
<1>0. PICK a : ListsBy(a, s, V)
  BY DEF Lists
<1> DEFINE at == [i \in 1 .. n + 1 |-> IF i <= n THEN a[i] ELSE w]
<1>1. s \in Seq(Lines) /\ n \in Nat /\ line \in Lines
  BY DEF Lists
<1> HIDE DEF line
<1>2. t \in Seq(Lines) /\ Len(t) = n + 1 /\ t[n + 1] = line /\ \A i \in 1 .. n : t[i] = s[i]
  BY <1>1
<1> HIDE DEF t
<1>3. \A i \in 1 .. n : a[i] \in V /\ s[i] = LineAt(a[i])
  BY <1>0 DEF ListsBy
<1> HIDE DEF n
<1>4. \A i \in 1 .. n + 1 : \/ i \in 1 .. n /\ i <= n
                            \/ i = n + 1 /\ ~(i <= n)
  BY <1>1
<1>5. \A i \in 1 .. n + 1 : at[i] \in V \cup {w} /\ t[i] = LineAt(at[i])
  BY <1>2, <1>3, <1>4 DEF line
<1>6. ASSUME NEW i \in 1 .. n + 1, NEW j \in 1 .. n + 1, at[i] = at[j] PROVE i = j
  <2>1. CASE i <= n /\ j <= n
    <3>1. i \in 1 .. n /\ j \in 1 .. n /\ a[i] = a[j]
      BY <1>1, <1>6, <2>1
    <3> QED BY <1>0, <3>1 DEF ListsBy, n
  <2>2. CASE ~(i <= n) /\ ~(j <= n)
    BY <1>1, <2>2
  <2>3. CASE i <= n /\ ~(j <= n)
    BY <1>1, <1>3, <1>6, <2>3
  <2>4. CASE ~(i <= n) /\ j <= n
    BY <1>1, <1>3, <1>6, <2>4
  <2> QED BY <2>1, <2>2, <2>3, <2>4
<1>7. ASSUME NEW v \in V \cup {w} PROVE \E i \in 1 .. n + 1 : at[i] = v
  <2>1. CASE v \in V
    <3>1. PICK i \in 1 .. n : a[i] = v
      BY <1>0, <2>1 DEF ListsBy, n
    <3>2. i \in 1 .. n + 1 /\ i <= n
      BY <1>1
    <3> QED BY <3>1, <3>2
  <2>2. CASE v = w
    <3>1. n + 1 \in 1 .. n + 1 /\ ~(n + 1 <= n)
      BY <1>1
    <3>2. at[n + 1] = w
      BY <3>1
    <3> QED BY <2>2, <3>1, <3>2
  <2> QED BY <2>1, <2>2
<1>8. at \in [1 .. n + 1 -> V \cup {w}]
  BY <1>5
<1>9. ListsBy(at, t, V \cup {w})
  <2> HIDE DEF at
  <2> QED BY <1>2, <1>5, <1>6, <1>7, <1>8 DEF ListsBy
<1> HIDE DEF at
<1> QED BY <1>2, <1>9 DEF Lists, t, line

----------------------------------------------------------------------------
(* Where the records of the merged tables stand *)

\* The places of the records of all files, those of an operation, in a file's first
\* k lines and in the first m files, and the operations with a table there.
RecordPlaces == {w \in Places : IsRecord(LineAt(w))}
OpPlaces(f, op, k) == {w \in RecordPlaces : w[1] = f /\ w[2] <= k /\ LineAt(w).op = op}
MergedPlaces(m, op) == {w \in RecordPlaces : w[1] <= m /\ LineAt(w).op = op}
OpsUpTo(m) == UNION {OpsOf(files[f]) : f \in 1 .. m}

\* What stands at a place is a line.
LEMMA LineThere ==
  ASSUME FilesOK
  PROVE  \A w \in Places : /\ w[1] \in 1 .. NumFiles /\ w[2] \in Nat /\ w[2] \in 1 .. Len(files[w[1]])
                           /\ LineAt(w) \in Lines
<1> SUFFICES ASSUME NEW w \in Places
             PROVE  /\ w[1] \in 1 .. NumFiles /\ w[2] \in Nat /\ w[2] \in 1 .. Len(files[w[1]])
                    /\ LineAt(w) \in Lines
  OBVIOUS
<1> DEFINE f == w[1]
           k == w[2]
<1>1. f \in 1 .. NumFiles /\ k \in 1 .. Len(files[f])
  BY PlaceIs DEF IsPlace
<1> HIDE DEF f, k
<1>2. files[f] \in Seq(Lines)
  BY <1>1 DEF FilesOK
<1>3. files[f][k] \in Lines /\ k \in Nat
  BY <1>1, <1>2
<1> QED BY <1>1, <1>3 DEF f, k, LineAt

\* The records of an operation in a file.
LEMMA OpListed ==
  ASSUME FilesOK, NEW f, NEW op, f \in 1 .. NumFiles
  PROVE  Lists(RecordsOf(files[f], op), OpPlaces(f, op, Len(files[f])))
<1> DEFINE lines == files[f]
           n == Len(lines)
<1>0. lines \in Seq(Lines) /\ n \in Nat /\ \A k \in 1 .. n : lines[k] \in Lines
  BY DEF FilesOK
<1>1. PICK S : Selects(S, lines, op) /\ RecordsOf(lines, op) = S[n]
  BY <1>0, RecordsAre
<1> DEFINE A == {k \in Nat : k \in 0 .. n => Lists(S[k], OpPlaces(f, op, k))}
<1>2. 0 \in A
  <2>1. S[0] = <<>>
    BY <1>1 DEF Selects
  <2>2. OpPlaces(f, op, 0) = {}
    BY LineThere DEF OpPlaces, RecordPlaces
  <2> QED BY <2>1, <2>2, ListsNone
<1>3. ASSUME NEW k \in Nat, k \in A PROVE k + 1 \in A
  <2> SUFFICES ASSUME k + 1 \in 0 .. n PROVE Lists(S[k + 1], OpPlaces(f, op, k + 1))
    OBVIOUS
  <2>1. k \in 0 .. n /\ k + 1 \in 1 .. n /\ (k + 1) - 1 = k
    BY <1>0
  <2> DEFINE w == <<f, k + 1>>
             line == lines[k + 1]
             is == IsRecord(line) /\ line.op = op
  <2>2. w \in Places /\ w[1] = f /\ w[2] = k + 1 /\ LineAt(w) = line /\ line \in Lines
    <3>1. IsPlace(f, k + 1)
      BY <2>1 DEF IsPlace
    <3>2. w \in Places
      BY <3>1, PlaceIs
    <3> QED BY <1>0, <2>1, <3>2 DEF LineAt
  <2>3. S[k + 1] = IF is THEN Append(S[k], line) ELSE S[k]
    BY <1>1, <2>1 DEF Selects
  <2>4. Lists(S[k], OpPlaces(f, op, k))
    BY <1>3, <2>1
  <2>5. \A v \in Places : v[1] = f /\ v[2] <= k + 1 <=> (v[1] = f /\ v[2] <= k) \/ v = w
    <3> SUFFICES ASSUME NEW v \in Places, v[1] = f PROVE v[2] <= k + 1 <=> v[2] <= k \/ v = w
      BY <2>2
    <3>1. v[2] \in Nat
      BY LineThere
    <3>2. v[2] = k + 1 <=> v = w
      <4> HIDE DEF w
      <4> QED BY <2>2, PlaceIs
    <3> HIDE DEF w
    <3> QED BY <3>1, <3>2
  <2>6. w \notin OpPlaces(f, op, k)
    <3>1. ~(w[2] <= k)
      BY <2>2
    <3> QED BY <3>1 DEF OpPlaces
  <2> HIDE DEF w, line
  <2>7. CASE is
    <3>1. OpPlaces(f, op, k + 1) = OpPlaces(f, op, k) \cup {w}
      <4>1. \A v : v \in OpPlaces(f, op, k + 1) <=> v \in OpPlaces(f, op, k) \/ v = w
        BY <2>2, <2>5, <2>7 DEF OpPlaces, RecordPlaces
      <4> QED BY <4>1
    <3>2. Lists(Append(S[k], LineAt(w)), OpPlaces(f, op, k) \cup {w})
      BY <2>2, <2>4, <2>6, ListsAppend
    <3> QED BY <2>2, <2>3, <2>7, <3>1, <3>2
  <2>8. CASE ~is
    <3>1. OpPlaces(f, op, k + 1) = OpPlaces(f, op, k)
      <4>1. \A v : v \in OpPlaces(f, op, k + 1) <=> v \in OpPlaces(f, op, k)
        BY <2>2, <2>5, <2>8 DEF OpPlaces, RecordPlaces
      <4> QED BY <4>1
    <3> QED BY <2>3, <2>4, <2>8, <3>1
  <2> QED BY <2>7, <2>8
<1> HIDE DEF A
<1>4. \A k \in Nat : k \in A
  BY <1>2, <1>3, Induction
<1>5. n \in 0 .. n
  BY <1>0
<1>6. Lists(S[n], OpPlaces(f, op, n))
  BY <1>0, <1>4, <1>5 DEF A
<1> QED BY <1>1, <1>6

\* A record's operation has a table in its file.
LEMMA RecordInTable ==
  ASSUME FilesOK
  PROVE  \A w \in RecordPlaces : LineAt(w).op \in OpsOf(files[w[1]]) /\ w[1] \in 1 .. NumFiles
<1> SUFFICES ASSUME NEW w \in RecordPlaces PROVE LineAt(w).op \in OpsOf(files[w[1]]) /\ w[1] \in 1 .. NumFiles
  OBVIOUS
<1> DEFINE f == w[1]
           k == w[2]
           lines == files[f]
<1>1. f \in 1 .. NumFiles /\ k \in 1 .. Len(lines) /\ LineAt(w) = lines[k] /\ lines[k].kind = "record"
  BY LineThere DEF RecordPlaces, LineAt, IsRecord
<1> HIDE DEF f, k
<1>2. FileOK(lines)
  BY <1>1 DEF FilesOK
<1>3. PICK h \in 1 .. k : lines[h].kind = "header" /\ lines[h].op = lines[k].op
  BY <1>1, <1>2, HeaderBefore
<1>4. h \in DOMAIN lines
  BY <1>1, <1>2 DEF FileOK
<1> QED BY <1>1, <1>3, <1>4 DEF OpsOf, HeadersOf, f

\* The operations are those of the model.
LEMMA OpsAre ==
  ASSUME FilesOK, NEW f, f \in 1 .. NumFiles PROVE OpsOf(files[f]) \subseteq Ops
<1>1. files[f] \in Seq(Lines)
  BY DEF FilesOK
<1>2. \A k \in DOMAIN files[f] : files[f][k] \in Lines
  BY <1>1
<1> QED BY <1>2, LineIs DEF OpsOf, HeadersOf

----------------------------------------------------------------------------
(* Merging the tables of the files *)

\* Merged tables are tables; a label has its table of the first, then that of the second.
LEMMA MergeIs ==
  ASSUME NEW a, NEW b, a \in Tables, b \in Tables
  PROVE  LET both == MergeTableDict(a, b) IN
         /\ both \in Tables /\ DOMAIN both = DOMAIN a \cup DOMAIN b
         /\ \A l \in DOMAIN both :
              both[l] = (IF l \in DOMAIN a THEN a[l] ELSE <<>>) \o (IF l \in DOMAIN b THEN b[l] ELSE <<>>)
<1> DEFINE both == MergeTableDict(a, b)
           D == DOMAIN a \cup DOMAIN b
           none == <<>>
           left(l) == IF l \in DOMAIN a THEN a[l] ELSE none
           right(l) == IF l \in DOMAIN b THEN b[l] ELSE none
<1>1. DOMAIN a \subseteq Ops /\ DOMAIN b \subseteq Ops
  BY DEF Tables
<1>2. /\ none \in Seq(Lines) /\ \A l \in DOMAIN a : a[l] \in Seq(Lines)
      /\ \A l \in DOMAIN b : b[l] \in Seq(Lines)
  BY DEF Tables
<1> HIDE DEF none
<1>3. \A l : left(l) \in Seq(Lines) /\ right(l) \in Seq(Lines)
  BY <1>2
<1>4. both = [l \in D |-> left(l) \o right(l)]
  BY DEF MergeTableDict, none
<1> HIDE DEF both, left, right
<1>5. \A l \in D : left(l) \o right(l) \in Seq(Lines)
  BY <1>3
<1>6. both \in [D -> Seq(Lines)] /\ DOMAIN both = D /\ \A l \in D : both[l] = left(l) \o right(l)
  BY <1>4, <1>5
<1>7. both \in Tables
  BY <1>1, <1>6 DEF Tables
<1> QED BY <1>6, <1>7 DEF both, left, right, none

\* The tables of each file, and those merged up to each file.
ParsedFiles(dicts) == /\ Len(dicts) \in Nat
                      /\ \A f \in 1 .. Len(dicts) : dicts[f].val \in Tables
Merges(g, dicts) ==
  /\ g \in [0 .. Len(dicts) -> Tables]
  /\ g[0] = NoTables
  /\ \A f \in 1 .. Len(dicts) : g[f] = MergeTableDict(g[f - 1], dicts[f].val)

\* MergeAll is the last of these.
LEMMA MergeRuns ==
  ASSUME NEW dicts, ParsedFiles(dicts)
  PROVE  \E g : Merges(g, dicts) /\ MergeAll(dicts) = g[Len(dicts)]
<1> DEFINE n == Len(dicts)
           Right(g) == g = [f \in 0 .. n |-> IF f = 0 THEN NoTables ELSE MergeTableDict(g[f - 1], dicts[f].val)]
           T == CHOOSE g : Right(g)
<1>0. n \in Nat /\ \A f \in 1 .. n : dicts[f].val \in Tables
  BY DEF ParsedFiles
<1>1. NoTables \in Tables
  <2>1. NoTables \in [{} -> Seq(Lines)]
    BY DEF NoTables
  <2> QED BY <2>1 DEF Tables
<1>2. MergeAll(dicts) = T[n]
  BY DEF MergeAll
<1> HIDE DEF n
<1>3. PICK S \in [0 .. n -> Tables] : S[0] = NoTables /\ \A f \in 1 .. n : S[f] = MergeTableDict(S[f - 1], dicts[f].val)
  <2> DEFINE step == [t \in Tables \X (1 .. n) |-> MergeTableDict(t[1], dicts[t[2]].val)]
  <2>1. ASSUME NEW p \in Tables, NEW f \in 1 .. n
        PROVE  step[<<p, f>>] = MergeTableDict(p, dicts[f].val) /\ step[<<p, f>>] \in Tables
    <3>1. MergeTableDict(p, dicts[f].val) \in Tables
      BY <1>0, MergeIs
    <3> QED BY <3>1
  <2> HIDE DEF step
  <2>2. IsIteration(Tables, n, NoTables, step)
    BY <1>0, <1>1, <2>1 DEF IsIteration
  <2>3. PICK S \in [0 .. n -> Tables] : S[0] = NoTables /\ \A f \in 1 .. n : S[f] = step[<<S[f - 1], f>>]
    BY <2>2, Iteration
  <2>4. ASSUME NEW f \in 1 .. n PROVE S[f] = MergeTableDict(S[f - 1], dicts[f].val)
    <3>1. f - 1 \in 0 .. n
      BY <1>0
    <3> QED BY <2>1, <2>3, <3>1
  <2> QED BY <2>3, <2>4
<1>4. Right(S)
  <2>1. \A f \in 0 .. n : f # 0 => f \in 1 .. n
    BY <1>0
  <2>2. \A f \in 0 .. n : S[f] = IF f = 0 THEN NoTables ELSE MergeTableDict(S[f - 1], dicts[f].val)
    BY <1>3, <2>1
  <2> QED BY <1>3, <2>2
<1>5. Right(T)
  BY <1>4
<1> HIDE DEF T
<1>6. T[n] = S[n]
  <2> DEFINE A == {f \in Nat : f \in 0 .. n => T[f] = S[f]}
  <2>1. 0 \in A
    BY <1>0, <1>3, <1>5
  <2>2. ASSUME NEW f \in Nat, f \in A PROVE f + 1 \in A
    <3> SUFFICES ASSUME f + 1 \in 0 .. n PROVE T[f + 1] = S[f + 1]
      OBVIOUS
    <3>1. f \in 0 .. n /\ f + 1 \in 1 .. n /\ (f + 1) - 1 = f /\ f + 1 # 0
      BY <1>0
    <3>2. T[f + 1] = MergeTableDict(T[f], dicts[f + 1].val)
      BY <1>5, <3>1
    <3>3. S[f + 1] = MergeTableDict(S[f], dicts[f + 1].val)
      BY <1>3, <3>1
    <3> QED BY <2>2, <3>1, <3>2, <3>3
  <2> HIDE DEF A
  <2>3. \A f \in Nat : f \in A
    BY <2>1, <2>2, Induction
  <2> QED BY <1>0, <2>3 DEF A
<1>7. Merges(S, dicts)
  BY <1>3 DEF Merges, n
<1> QED BY <1>2, <1>6, <1>7 DEF n

\* The tables of the first m files list the records there, by operation.
MergedTo(dict, m) ==
  /\ dict \in Tables /\ DOMAIN dict = OpsUpTo(m)
  /\ \A op \in OpsUpTo(m) : Lists(dict[op], MergedPlaces(m, op))

\* A list or nothing, as MergeTableDict takes it.
LEMMA ListedOrNone ==
  ASSUME NEW dict, NEW op, NEW W, op \in DOMAIN dict => Lists(dict[op], W), op \notin DOMAIN dict => W = {}
  PROVE  Lists(IF op \in DOMAIN dict THEN dict[op] ELSE <<>>, W)
<1>1. CASE op \in DOMAIN dict
  BY <1>1
<1>2. CASE op \notin DOMAIN dict
  BY <1>2, ListsNone
<1> QED BY <1>1, <1>2

\* One file more.
LEMMA MergeStep ==
  ASSUME FilesOK, NEW dict, NEW m, m \in Nat, m + 1 \in 1 .. NumFiles, MergedTo(dict, m)
  PROVE  MergedTo(MergeTableDict(dict, TablesOf(files[m + 1])), m + 1)
<1> DEFINE lines == files[m + 1]
           more == TablesOf(lines)
           both == MergeTableDict(dict, more)
<1>1. lines \in Seq(Lines) /\ OpsOf(lines) \subseteq Ops
  BY OpsAre DEF FilesOK
<1>2. DOMAIN more = OpsOf(lines) /\ \A op \in OpsOf(lines) : more[op] = RecordsOf(lines, op)
  BY DEF TablesOf
<1>3. \A op \in OpsOf(lines) : Lists(more[op], OpPlaces(m + 1, op, Len(lines)))
  BY <1>2, OpListed
<1>4. more \in Tables
  <2>1. \A op \in OpsOf(lines) : RecordsOf(lines, op) \in Seq(Lines)
    BY OpListed DEF Lists
  <2>2. more \in [OpsOf(lines) -> Seq(Lines)]
    BY <2>1 DEF TablesOf
  <2> HIDE DEF more
  <2> QED BY <1>1, <2>2 DEF Tables
<1>5. /\ both \in Tables /\ DOMAIN both = DOMAIN dict \cup DOMAIN more
      /\ \A l \in DOMAIN both :
           both[l] = (IF l \in DOMAIN dict THEN dict[l] ELSE <<>>) \o (IF l \in DOMAIN more THEN more[l] ELSE <<>>)
  <2> HIDE DEF more
  <2>1. dict \in Tables
    BY DEF MergedTo
  <2> QED BY <1>4, <2>1, MergeIs
<1>6. OpsUpTo(m + 1) = OpsUpTo(m) \cup OpsOf(lines)
  <2>1. 1 .. m + 1 = (1 .. m) \cup {m + 1}
    OBVIOUS
  <2> QED BY <2>1 DEF OpsUpTo
<1>7. DOMAIN both = OpsUpTo(m + 1)
  BY <1>2, <1>5, <1>6 DEF MergedTo
<1> HIDE DEF both, more
<1>8. ASSUME NEW op \in OpsUpTo(m + 1) PROVE Lists(both[op], MergedPlaces(m + 1, op))
  <2> DEFINE V == MergedPlaces(m, op)
             W == OpPlaces(m + 1, op, Len(lines))
             left == IF op \in DOMAIN dict THEN dict[op] ELSE <<>>
             right == IF op \in DOMAIN more THEN more[op] ELSE <<>>
  <2>1. Lists(left, V)
    <3>1. op \notin DOMAIN dict => V = {}
      <4> SUFFICES ASSUME op \notin OpsUpTo(m), NEW w \in V PROVE FALSE
        BY DEF MergedTo
      <4>1. LineAt(w).op = op /\ w[1] <= m /\ w \in RecordPlaces
        BY DEF MergedPlaces
      <4>2. op \in OpsOf(files[w[1]]) /\ w[1] \in 1 .. m
        BY <4>1, RecordInTable
      <4> QED BY <4>2 DEF OpsUpTo
    <3>2. op \in DOMAIN dict => Lists(dict[op], V)
      BY DEF MergedTo
    <3> HIDE DEF V
    <3> QED BY <3>1, <3>2, ListedOrNone
  <2>2. Lists(right, W)
    <3>1. op \notin DOMAIN more => W = {}
      <4> SUFFICES ASSUME op \notin OpsOf(lines), NEW w \in W PROVE FALSE
        BY <1>2
      <4> QED BY RecordInTable DEF OpPlaces
    <3>2. op \in DOMAIN more => Lists(more[op], W)
      BY <1>2, <1>3
    <3> HIDE DEF W
    <3> QED BY <3>1, <3>2, ListedOrNone
  <2>3. V \cap W = {}
    BY RecordInTable DEF MergedPlaces, OpPlaces
  <2>4. V \cup W = MergedPlaces(m + 1, op)
    <3>1. \A w \in RecordPlaces : w[1] <= m + 1 <=> w[1] <= m \/ w[1] = m + 1
      BY RecordInTable
    <3>2. \A w \in RecordPlaces : w[1] = m + 1 => w[2] <= Len(lines)
      BY <1>1, LineThere DEF RecordPlaces
    <3> QED BY <3>1, <3>2 DEF MergedPlaces, OpPlaces
  <2>5. both[op] = left \o right
    BY <1>5, <1>7
  <2> HIDE DEF V, W, left, right
  <2>6. Lists(left \o right, V \cup W)
    BY <2>1, <2>2, <2>3, ListsConcat
  <2> QED BY <2>4, <2>5, <2>6
<1>9. MergedTo(both, m + 1)
  BY <1>5, <1>7, <1>8 DEF MergedTo
<1> QED BY <1>9 DEF both, more

\* What the files' tables are, if none is wrong.
TablesAre(dicts) ==
  Len(dicts) = NumFiles /\ \A f \in 1 .. NumFiles : dicts[f].val = TablesOf(files[f])

\* The merged tables list the records of all files.
LEMMA AllMerged ==
  ASSUME FilesOK, NEW dicts, TablesAre(dicts) PROVE MergedTo(MergeAll(dicts), NumFiles)
<1> USE DEF TablesAre
<1>0. NumFiles \in Nat
  BY FilesAssumption
<1>1. ASSUME NEW f \in 1 .. NumFiles PROVE TablesOf(files[f]) \in Tables
  <2>1. OpsOf(files[f]) \subseteq Ops
    BY OpsAre
  <2>2. \A op \in OpsOf(files[f]) : RecordsOf(files[f], op) \in Seq(Lines)
    BY OpListed DEF Lists
  <2>3. TablesOf(files[f]) \in [OpsOf(files[f]) -> Seq(Lines)]
    BY <2>2 DEF TablesOf
  <2> QED BY <2>1, <2>3 DEF Tables
<1>2. ParsedFiles(dicts)
  BY <1>0, <1>1 DEF ParsedFiles
<1>3. PICK g : Merges(g, dicts) /\ MergeAll(dicts) = g[NumFiles]
  BY <1>2, MergeRuns
<1> DEFINE A == {m \in Nat : m \in 0 .. NumFiles => MergedTo(g[m], m)}
<1>4. 0 \in A
  <2>1. g[0] = NoTables
    BY <1>3 DEF Merges
  <2>2. OpsUpTo(0) = {}
    BY DEF OpsUpTo
  <2>3. NoTables \in [{} -> Seq(Lines)]
    BY DEF NoTables
  <2>4. NoTables \in Tables
    BY <2>3 DEF Tables
  <2>5. MergedTo(NoTables, 0)
    BY <2>2, <2>3, <2>4 DEF MergedTo
  <2> QED BY <2>1, <2>5
<1>5. ASSUME NEW m \in Nat, m \in A PROVE m + 1 \in A
  <2> SUFFICES ASSUME m + 1 \in 0 .. NumFiles PROVE MergedTo(g[m + 1], m + 1)
    OBVIOUS
  <2>1. m \in 0 .. NumFiles /\ m + 1 \in 1 .. NumFiles /\ (m + 1) - 1 = m
    BY <1>0
  <2>2. MergedTo(g[m], m)
    BY <1>5, <2>1
  <2>3. g[m + 1] = MergeTableDict(g[m], TablesOf(files[m + 1]))
    BY <1>3, <2>1 DEF Merges
  <2> QED BY <2>1, <2>2, <2>3, MergeStep
<1> HIDE DEF A
<1>6. \A m \in Nat : m \in A
  BY <1>4, <1>5, Induction
<1> QED BY <1>0, <1>3, <1>6 DEF A

----------------------------------------------------------------------------
(* All records in one table, sorted *)

\* There are finitely many operations with a table.
LEMMA OpsFinite == ASSUME FilesOK PROVE IsFiniteSet(OpsUpTo(NumFiles))
<1> DEFINE H == {w \in Places : LineAt(w).kind = "header"}
           at == [w \in H |-> LineAt(w).op]
           D == OpsUpTo(NumFiles)
<1>1. IsFiniteSet(H)
  BY PlacesFinite, FS_Subset
<1>2. at \in [H -> D]
  <2> SUFFICES ASSUME NEW w \in H PROVE LineAt(w).op \in D
    OBVIOUS
  <2> DEFINE f == w[1]
             k == w[2]
  <2>1. f \in 1 .. NumFiles /\ k \in 1 .. Len(files[f]) /\ LineAt(w) = files[f][k]
    BY LineThere DEF LineAt
  <2>2. DOMAIN files[f] = 1 .. Len(files[f])
    BY <2>1 DEF FilesOK
  <2>3. LineAt(w).op \in OpsOf(files[f])
    <3> HIDE DEF f, k
    <3> QED BY <2>1, <2>2 DEF OpsOf, HeadersOf
  <2> HIDE DEF f
  <2> QED BY <2>1, <2>3 DEF OpsUpTo
<1>3. ASSUME NEW op \in D PROVE \E w \in H : at[w] = op
  <2>1. PICK f \in 1 .. NumFiles : op \in OpsOf(files[f])
    BY DEF OpsUpTo
  <2>2. PICK k \in DOMAIN files[f] : files[f][k].kind = "header" /\ files[f][k].op = op
    BY <2>1 DEF OpsOf, HeadersOf
  <2>3. k \in 1 .. Len(files[f])
    BY DEF FilesOK
  <2>4. <<f, k>> \in Places /\ LineAt(<<f, k>>) = files[f][k]
    BY <2>3, PlaceIs DEF IsPlace, LineAt
  <2>5. <<f, k>> \in H /\ at[<<f, k>>] = op
    BY <2>2, <2>4
  <2> QED BY <2>5
<1>4. Onto(at, H, D)
  <2> HIDE DEF at, H, D
  <2> QED BY <1>2, <1>3 DEF Onto
<1> HIDE DEF at, H
<1> QED BY <1>1, <1>4, FiniteImage

\* The records of some operations, put together.
LEMMA FlattenListed ==
  ASSUME FilesOK, NEW dict, NEW labels, NEW n, MergedTo(dict, NumFiles), n \in Nat,
         OneToOne(labels, 1 .. n, OpsUpTo(NumFiles))
  PROVE  Lists(FlattenSeq([k \in DOMAIN labels |-> dict[labels[k]]]), RecordPlaces)
<1> USE DEF OneToOne, Onto
<1> DEFINE D == OpsUpTo(NumFiles)
           parts == [k \in DOMAIN labels |-> dict[labels[k]]]
           UpTo(i) == {w \in RecordPlaces : \E j \in 1 .. i : labels[j] = LineAt(w).op}
<1>0. NumFiles \in Nat /\ DOMAIN labels = 1 .. n
  BY FilesAssumption
<1>1. \A k \in 1 .. n : labels[k] \in D /\ parts[k] = dict[labels[k]]
  BY <1>0
<1>2. \A k \in 1 .. n : Lists(parts[k], MergedPlaces(NumFiles, labels[k]))
  BY <1>1 DEF MergedTo
<1>3. parts \in [1 .. n -> Seq(Lines)]
  BY <1>0, <1>2 DEF Lists
<1>4. parts \in Seq(Seq(Lines)) /\ Len(parts) = n
  <2> HIDE DEF parts
  <2> QED BY <1>3
<1> HIDE DEF parts
<1>5. PICK F : Flattens(F, parts, Lines) /\ FlattenSeq(parts) = F[n]
  BY <1>4, FlattenRuns
<1> DEFINE A == {i \in Nat : i \in 0 .. n => Lists(F[i], UpTo(i))}
<1>6. 0 \in A
  <2>1. F[0] = <<>> /\ UpTo(0) = {}
    BY <1>5 DEF Flattens
  <2> QED BY <2>1, ListsNone
<1>7. ASSUME NEW i \in Nat, i \in A PROVE i + 1 \in A
  <2> SUFFICES ASSUME i + 1 \in 0 .. n PROVE Lists(F[i + 1], UpTo(i + 1))
    OBVIOUS
  <2>1. i \in 0 .. n /\ i + 1 \in 1 .. n /\ (i + 1) - 1 = i
    OBVIOUS
  <2> DEFINE V == UpTo(i)
             W == MergedPlaces(NumFiles, labels[i + 1])
             a == F[i]
             b == parts[i + 1]
  <2>2. F[i + 1] = a \o b
    BY <1>4, <1>5, <2>1 DEF Flattens
  <2>3. Lists(a, V)
    BY <1>7, <2>1
  <2>4. Lists(b, W)
    BY <1>2, <2>1
  <2>5. V \cap W = {}
    <3> SUFFICES ASSUME NEW w \in V, w \in W PROVE FALSE
      OBVIOUS
    <3>1. PICK j \in 1 .. i : labels[j] = LineAt(w).op
      OBVIOUS
    <3>2. labels[i + 1] = LineAt(w).op
      BY DEF MergedPlaces
    <3>3. j \in 1 .. n /\ j # i + 1
      BY <2>1
    <3> QED BY <2>1, <3>1, <3>2, <3>3
  <2>6. V \cup W = UpTo(i + 1)
    <3>1. \A w \in RecordPlaces : w[1] <= NumFiles
      BY <1>0, RecordInTable
    <3>2. 1 .. i + 1 = (1 .. i) \cup {i + 1}
      OBVIOUS
    <3> QED BY <3>1, <3>2 DEF MergedPlaces
  <2> HIDE DEF V, W, a, b, UpTo
  <2>7. Lists(a \o b, V \cup W)
    BY <2>3, <2>4, <2>5, ListsConcat
  <2> QED BY <2>2, <2>6, <2>7
<1> HIDE DEF A
<1>8. \A i \in Nat : i \in A
  BY <1>6, <1>7, Induction
<1>9. n \in 0 .. n
  OBVIOUS
<1>10. Lists(F[n], UpTo(n))
  BY <1>8, <1>9 DEF A
<1>11. UpTo(n) = RecordPlaces
  <2> SUFFICES ASSUME NEW w \in RecordPlaces PROVE \E j \in 1 .. n : labels[j] = LineAt(w).op
    OBVIOUS
  <2>1. LineAt(w).op \in D
    BY RecordInTable DEF OpsUpTo
  <2> QED BY <2>1
<1> HIDE DEF UpTo
<1> QED BY <1>5, <1>10, <1>11 DEF parts

\* The times of a table's records do not decrease.
InTime(s) == \A i, j \in 1 .. Len(s) : i < j => s[i].ts <= s[j].ts

\* t has the items of s in another order.
SortedFrom(t, s, order) ==
  /\ Len(t) = Len(s) /\ IsSorting(order, Len(s), [k \in 1 .. Len(s) |-> s[k].ts])
  /\ \A k \in 1 .. Len(s) : t[k] = s[order[k]]

\* Sorting puts the items in another order, that of their times.
LEMMA SortIs ==
  ASSUME NEW X, NEW s, s \in Seq(X), \A k \in 1 .. Len(s) : s[k].ts \in Int
  PROVE  /\ SortByTimestamp(s) \in Seq(X) /\ InTime(SortByTimestamp(s))
         /\ \E order : SortedFrom(SortByTimestamp(s), s, order)
<1> DEFINE n == Len(s)
           key == [k \in 1 .. n |-> s[k].ts]
           order == SortedPlaces(key)
           t == SortByTimestamp(s)
<1>1. n \in Nat /\ DOMAIN s = 1 .. n /\ \A k \in 1 .. n : s[k] \in X
  OBVIOUS
<1>2. key \in [1 .. n -> Int]
  OBVIOUS
<1>3. t = [k \in 1 .. n |-> s[order[k]]]
  BY <1>1 DEF SortByTimestamp
<1>4. IsSorting(order, n, key)
  <2> HIDE DEF key, n
  <2> QED BY <1>1, <1>2, SortedPlacesAre
<1>5. order \in [1 .. n -> 1 .. n]
  BY <1>4 DEF IsSorting
<1> HIDE DEF order, t, n
<1>6. t \in [1 .. n -> X] /\ \A k \in 1 .. n : t[k] = s[order[k]]
  BY <1>1, <1>3, <1>5
<1>7. t \in Seq(X) /\ Len(t) = n
  BY <1>1, <1>6
<1>8. ASSUME NEW i \in 1 .. n, NEW j \in 1 .. n, i < j PROVE t[i].ts <= t[j].ts
  <2>1. key[order[i]] <= key[order[j]]
    <3> HIDE DEF key
    <3> QED BY <1>4, <1>8 DEF IsSorting
  <2>2. order[i] \in 1 .. n /\ order[j] \in 1 .. n
    BY <1>5
  <2> QED BY <1>6, <2>1, <2>2
<1>9. InTime(t)
  BY <1>7, <1>8 DEF InTime
<1>10. SortedFrom(t, s, order)
  BY <1>4, <1>6, <1>7 DEF SortedFrom, n
<1> QED BY <1>7, <1>9, <1>10 DEF t

\* What was listed is listed still.
LEMMA SortListed ==
  ASSUME NEW s, NEW t, NEW order, NEW W, Lists(s, W), t \in Seq(Lines), SortedFrom(t, s, order)
  PROVE  Lists(t, W)
<1> DEFINE n == Len(s)
<1>1. PICK a : ListsBy(a, s, W)
  BY DEF Lists
<1>2. n \in Nat /\ Len(t) = n /\ \A k \in 1 .. n : t[k] = s[order[k]]
  BY DEF Lists, SortedFrom
<1>3. /\ order \in [1 .. n -> 1 .. n]
      /\ \A i, j \in 1 .. n : i < j => order[i] # order[j]
      /\ \A x \in 1 .. n : \E i \in 1 .. n : order[i] = x
  BY DEF SortedFrom, IsSorting
<1>4. /\ a \in [1 .. n -> W]
      /\ \A i, j \in 1 .. n : a[i] = a[j] => i = j
      /\ \A w \in W : \E i \in 1 .. n : a[i] = w
      /\ \A i \in 1 .. n : s[i] = LineAt(a[i])
  BY <1>1 DEF ListsBy
<1> HIDE DEF n
<1> DEFINE at == [i \in 1 .. n |-> a[order[i]]]
<1>5. at \in [1 .. n -> W]
  BY <1>3, <1>4
<1>6. ASSUME NEW i \in 1 .. n, NEW j \in 1 .. n, at[i] = at[j] PROVE i = j
  <2>1. order[i] = order[j]
    <3>1. order[i] \in 1 .. n /\ order[j] \in 1 .. n /\ a[order[i]] = a[order[j]]
      BY <1>3, <1>6
    <3> QED BY <1>4, <3>1
  <2>2. ~(i < j) /\ ~(j < i)
    BY <1>3, <2>1
  <2> QED BY <1>2, <2>2
<1>7. ASSUME NEW w \in W PROVE \E i \in 1 .. n : at[i] = w
  <2>1. PICK x \in 1 .. n : a[x] = w
    BY <1>4
  <2>2. PICK i \in 1 .. n : order[i] = x
    BY <1>3
  <2> QED BY <2>1, <2>2
<1>8. \A i \in 1 .. n : t[i] = LineAt(at[i])
  BY <1>2, <1>3, <1>4
<1> HIDE DEF at
<1>9. ListsBy(at, t, W)
  BY <1>2, <1>5, <1>6, <1>7, <1>8 DEF ListsBy
<1> QED BY <1>9 DEF Lists

\* The table of all records, in the order of their times.
IsTable(df) == Lists(df, RecordPlaces) /\ InTime(df)

\* A listed line is one of the place's.
LEMMA ListedLines ==
  ASSUME FilesOK, NEW s, Lists(s, RecordPlaces)
  PROVE  \A k \in 1 .. Len(s) : /\ s[k] \in Lines /\ IsRecord(s[k]) /\ s[k].ts \in Int /\ s[k].lat \in Nat
                                /\ \E w \in RecordPlaces : LineAt(w) = s[k]
<1>1. PICK a : ListsBy(a, s, RecordPlaces)
  BY DEF Lists
<1> SUFFICES ASSUME NEW k \in 1 .. Len(s)
             PROVE  /\ s[k] \in Lines /\ IsRecord(s[k]) /\ s[k].ts \in Int /\ s[k].lat \in Nat
                    /\ \E w \in RecordPlaces : LineAt(w) = s[k]
  OBVIOUS
<1>2. a[k] \in RecordPlaces /\ s[k] = LineAt(a[k])
  BY <1>1 DEF ListsBy
<1>3. s[k] \in Lines /\ IsRecord(s[k])
  BY <1>2, LineThere DEF RecordPlaces
<1>4. s[k].ts \in Int /\ s[k].lat \in Nat
  BY <1>3, LineIs DEF IsRecord
<1> QED BY <1>2, <1>3, <1>4

\* Combining the tables makes such a table of them, unless there is none.
LEMMA CombineIs ==
  ASSUME FilesOK, NEW dict, MergedTo(dict, NumFiles)
  PROVE  /\ OpsUpTo(NumFiles) = {} => CombineTableInDict(dict) = Error
         /\ OpsUpTo(NumFiles) # {} => \E df : CombineTableInDict(dict) = Done(df) /\ IsTable(df)
<1> DEFINE D == OpsUpTo(NumFiles)
           labels == SetToSeq(D)
           n == Cardinality(D)
           flat == FlattenSeq([k \in DOMAIN labels |-> dict[labels[k]]])
           df == SortByTimestamp(flat)
<1>1. DOMAIN dict = D
  BY DEF MergedTo
<1>2. D = {} => CombineTableInDict(dict) = Error
  BY <1>1 DEF CombineTableInDict
<1>3. D # {} => CombineTableInDict(dict) = Done(df)
  BY <1>1 DEF CombineTableInDict
<1>4. n \in Nat /\ OneToOne(labels, 1 .. n, D)
  BY OpsFinite, SetToSeqIs
<1>5. Lists(flat, RecordPlaces)
  <2> HIDE DEF labels, n
  <2> QED BY <1>4, FlattenListed
<1> HIDE DEF flat
<1>6. flat \in Seq(Lines) /\ \A k \in 1 .. Len(flat) : flat[k].ts \in Int
  BY <1>5, ListedLines DEF Lists
<1>7. df \in Seq(Lines) /\ InTime(df) /\ \E order : SortedFrom(df, flat, order)
  BY <1>6, SortIs
<1> HIDE DEF df
<1>8. Lists(df, RecordPlaces)
  BY <1>5, <1>7, SortListed
<1>9. IsTable(df)
  BY <1>7, <1>8 DEF IsTable
<1> QED BY <1>2, <1>3, <1>9

----------------------------------------------------------------------------
(* The files of all clients *)

AnyWrong == \E f \in 1 .. NumFiles : FileWrong(files[f])

\* There is a table of all records unless a file is wrong or none has a table.
LEMMA PreProcedIs ==
  ASSUME FilesOK
  PROVE  /\ AnyWrong \/ OpsUpTo(NumFiles) = {} => GetPreProcedYcsbData = Error
         /\ ~AnyWrong /\ OpsUpTo(NumFiles) # {} => \E df : GetPreProcedYcsbData = Done(df) /\ IsTable(df)
<1> DEFINE dicts == [f \in DOMAIN files |-> ParseYcsbCsv(files[f])]
           some == \E f \in DOMAIN files : ~dicts[f].ok
<1>0. DOMAIN files = 1 .. NumFiles /\ NumFiles \in Nat
  BY FilesAssumption DEF FilesOK
<1>1. ASSUME NEW f \in 1 .. NumFiles
      PROVE  dicts[f] = IF FileWrong(files[f]) THEN Error ELSE Done(TablesOf(files[f]))
  <2>1. FileOK(files[f])
    BY DEF FilesOK
  <2> QED BY <1>0, <2>1, FileParsed
<1>2. Len(dicts) = NumFiles
  BY <1>0
<1>3. GetPreProcedYcsbData = IF some THEN Error ELSE CombineTableInDict(MergeAll(dicts))
  BY DEF GetPreProcedYcsbData
<1> HIDE DEF dicts
<1>4. Error.ok = FALSE /\ \A t : Done(t).ok = TRUE /\ Done(t).val = t
  BY DEF Error, Done
<1>5. some <=> AnyWrong
  BY <1>0, <1>1, <1>4 DEF AnyWrong
<1> HIDE DEF some
<1>6. CASE AnyWrong
  BY <1>3, <1>5, <1>6
<1>7. CASE ~AnyWrong
  <2>1. TablesAre(dicts)
    BY <1>1, <1>2, <1>4, <1>7 DEF TablesAre, AnyWrong
  <2>2. MergedTo(MergeAll(dicts), NumFiles)
    BY <2>1, AllMerged
  <2> DEFINE result == CombineTableInDict(MergeAll(dicts))
  <2>3. /\ OpsUpTo(NumFiles) = {} => result = Error
        /\ OpsUpTo(NumFiles) # {} => \E df : result = Done(df) /\ IsTable(df)
    BY <2>2, CombineIs
  <2>4. GetPreProcedYcsbData = result
    BY <1>3, <1>5, <1>7
  <2> HIDE DEF result
  <2> QED BY <1>7, <2>3, <2>4
<1> QED BY <1>6, <1>7

----------------------------------------------------------------------------
(* The span that is measured *)

\* t is what s has in the span from lo to hi, and follows the first a items.
Within(item, lo, hi) == lo <= item.ts /\ item.ts <= hi
Trimmed(t, s, a, lo, hi) ==
  /\ a \in Nat /\ Len(t) \in Nat /\ a + Len(t) <= Len(s)
  /\ \A k \in 1 .. Len(t) : t[k] = s[a + k]
  /\ \A k \in 1 .. Len(s) : Within(s[k], lo, hi) <=> a < k /\ k <= a + Len(t)

\* TrimOffByTimeRange leaves just that of a sorted table.
LEMMA TrimIs ==
  ASSUME NEW X, NEW s, NEW lo, NEW hi, s \in Seq(X), \A k \in 1 .. Len(s) : s[k].ts \in Int, InTime(s),
         lo \in Int, hi \in Int
  PROVE  /\ TrimOffByTimeRange(s, <<lo, hi>>) \in Seq(X)
         /\ \E a : Trimmed(TrimOffByTimeRange(s, <<lo, hi>>), s, a, lo, hi)
<1> DEFINE n == Len(s)
           P == {k \in 1 .. n : \A j \in 1 .. k : s[j].ts < lo}
           Q == {k \in 1 .. n : \A j \in k .. n : s[j].ts > hi}
           a == Cardinality(P)
           b == Cardinality(Q)
           t == TrimOffByTimeRange(s, <<lo, hi>>)
<1>0. n \in Nat /\ DOMAIN s = 1 .. n /\ \A k \in 1 .. n : s[k] \in X /\ s[k].ts \in Int
  OBVIOUS
<1>1. t = SubSeq(s, a + 1, n - b)
  BY <1>0 DEF TrimOffByTimeRange
<1>2. \A i, j \in 1 .. n : i <= j => s[i].ts <= s[j].ts
  <2> SUFFICES ASSUME NEW i \in 1 .. n, NEW j \in 1 .. n, i <= j PROVE s[i].ts <= s[j].ts
    OBVIOUS
  <2>1. CASE i = j
    BY <1>0, <2>1
  <2>2. CASE i < j
    BY <2>2 DEF InTime
  <2> QED BY <1>0, <2>1, <2>2
<1> HIDE DEF t, n
<1>3. \A k \in 1 .. n : k \in P <=> s[k].ts < lo
  <2> SUFFICES ASSUME NEW k \in 1 .. n PROVE k \in P <=> s[k].ts < lo
    OBVIOUS
  <2>1. k \in 1 .. k
    BY <1>0
  <2>2. ASSUME s[k].ts < lo, NEW j \in 1 .. k PROVE s[j].ts < lo
    <3>1. j \in 1 .. n /\ j <= k
      BY <1>0
    <3> QED BY <1>0, <1>2, <2>2, <3>1
  <2> QED BY <2>1, <2>2
<1>4. \A k \in 1 .. n : k \in Q <=> s[k].ts > hi
  <2> SUFFICES ASSUME NEW k \in 1 .. n PROVE k \in Q <=> s[k].ts > hi
    OBVIOUS
  <2>1. k \in k .. n
    BY <1>0
  <2>2. ASSUME s[k].ts > hi, NEW j \in k .. n PROVE s[j].ts > hi
    <3>1. j \in 1 .. n /\ k <= j
      BY <1>0
    <3> QED BY <1>0, <1>2, <2>2, <3>1
  <2> QED BY <2>1, <2>2
<1>5. a \in 0 .. n /\ \A k \in 1 .. n : k \in P <=> k <= a
  <2>1. \A k \in P : \A j \in 1 .. k : j \in P
    <3> SUFFICES ASSUME NEW k \in P, NEW j \in 1 .. k PROVE j \in P
      OBVIOUS
    <3>1. j \in 1 .. n /\ \A i \in 1 .. j : i \in 1 .. k
      BY <1>0
    <3> QED BY <3>1
  <2>2. P \subseteq 1 .. n
    OBVIOUS
  <2> HIDE DEF P
  <2> QED BY <1>0, <2>1, <2>2, FirstPlaces
<1>6. b \in 0 .. n /\ \A k \in 1 .. n : k \in Q <=> k > n - b
  <2>1. \A k \in Q : \A j \in k .. n : j \in Q
    <3> SUFFICES ASSUME NEW k \in Q, NEW j \in k .. n PROVE j \in Q
      OBVIOUS
    <3>1. j \in 1 .. n /\ \A i \in j .. n : i \in k .. n
      BY <1>0
    <3> QED BY <3>1
  <2>2. Q \subseteq 1 .. n
    OBVIOUS
  <2> HIDE DEF Q
  <2> QED BY <1>0, <2>1, <2>2, LastPlaces
<1> HIDE DEF a, b, P, Q
<1>7. \A k \in 1 .. n : Within(s[k], lo, hi) <=> a < k /\ k <= n - b
  BY <1>0, <1>3, <1>4, <1>5, <1>6 DEF Within
<1>8. t \in Seq(X)
  <2>1. \A k \in a + 1 .. n - b : s[k] \in X
    BY <1>0, <1>5, <1>6
  <2>2. a + 1 \in Int /\ n - b \in Int
    BY <1>0, <1>5, <1>6
  <2> DEFINE i == a + 1
             j == n - b
  <2> HIDE DEF i, j
  <2> QED BY <1>1, <2>1, <2>2 DEF i, j
<1>9. ASSUME a <= n - b PROVE Trimmed(t, s, a, lo, hi)
  <2>1. Len(t) = n - b - a
    BY <1>0, <1>1, <1>5, <1>6, <1>9
  <2>2. \A k \in 1 .. n - b - a : t[k] = s[a + k]
    <3> SUFFICES ASSUME NEW k \in 1 .. n - b - a PROVE t[k] = s[a + k]
      OBVIOUS
    <3>1. t[k] = s[a + 1 + k - 1] /\ a + 1 + k - 1 = a + k
      BY <1>0, <1>1, <1>5, <1>6, <1>9
    <3> QED BY <3>1
  <2>3. a + Len(t) = n - b /\ Len(t) \in Nat
    BY <1>0, <1>5, <1>6, <1>9, <2>1
  <2>4. a \in Nat /\ n - b <= n
    BY <1>0, <1>5, <1>6
  <2> QED BY <1>7, <2>1, <2>2, <2>3, <2>4 DEF Trimmed, n
<1>10. ASSUME ~(a <= n - b) PROVE Trimmed(t, s, a, lo, hi)
  <2>1. Len(t) = 0
    BY <1>0, <1>1, <1>5, <1>6, <1>10
  <2>2. \A k \in 1 .. n : ~Within(s[k], lo, hi)
    BY <1>0, <1>5, <1>6, <1>7, <1>10
  <2>3. a \in Nat /\ a + 0 <= n /\ \A k \in 1 .. n : ~(a < k /\ k <= a + 0)
    BY <1>0, <1>5
  <2> QED BY <2>1, <2>2, <2>3 DEF Trimmed, n
<1> QED BY <1>8, <1>9, <1>10 DEF t

\* Where the items of some kind stand: in a sequence, within the span, and among places.
OfKind(s, G) == {k \in 1 .. Len(s) : s[k] \in G}
OfKindWithin(s, lo, hi, G) == {k \in 1 .. Len(s) : Within(s[k], lo, hi) /\ s[k] \in G}
PlacesOfKind(W, G) == {w \in W : LineAt(w) \in G}

\* As many items of any kind are left as there are in the span.
LEMMA TrimCount ==
  ASSUME NEW t, NEW s, NEW a, NEW lo, NEW hi, NEW G, Trimmed(t, s, a, lo, hi), Len(s) \in Nat
  PROVE  Cardinality(OfKind(t, G)) = Cardinality(OfKindWithin(s, lo, hi, G))
<1> DEFINE m == Len(t)
           n == Len(s)
           P == {k \in 1 .. m : t[k] \in G}
           Q == {k \in 1 .. n : Within(s[k], lo, hi) /\ s[k] \in G}
           S == 1 .. m
           T == a + 1 .. a + m
           f == [k \in S |-> a + k]
<1>1. /\ a \in Nat /\ m \in Nat /\ n \in Nat /\ a + m <= n
      /\ \A k \in 1 .. m : t[k] = s[a + k]
      /\ \A k \in 1 .. n : Within(s[k], lo, hi) <=> a < k /\ k <= a + m
  BY DEF Trimmed
<1> HIDE DEF m, n
<1>2. IsFiniteSet(S)
  BY <1>1, FS_Interval
<1>3. OneToOne(f, S, T)
  <2>1. f \in [S -> T] /\ \A x, y \in S : f[x] = f[y] => x = y
    BY <1>1
  <2>2. ASSUME NEW y \in T PROVE \E x \in S : f[x] = y
    <3>1. y - a \in S /\ a + (y - a) = y
      BY <1>1
    <3> QED BY <3>1
  <2> HIDE DEF f, S, T
  <2> QED BY <2>1, <2>2 DEF OneToOne, Onto
<1>4. P \subseteq S /\ Q \subseteq T
  BY <1>1
<1>5. \A x \in S : x \in P <=> f[x] \in Q
  <2> SUFFICES ASSUME NEW x \in S PROVE x \in P <=> f[x] \in Q
    OBVIOUS
  <2>1. f[x] = a + x /\ a + x \in 1 .. n /\ a < a + x /\ a + x <= a + m /\ t[x] = s[a + x]
    BY <1>1
  <2> HIDE DEF f
  <2> QED BY <1>1, <2>1
<1> HIDE DEF S, T, f, P, Q
<1>6. Cardinality(P) = Cardinality(Q)
  BY <1>2, <1>3, <1>4, <1>5, CountedAlike
<1> QED BY <1>6 DEF P, Q, m, n, OfKind, OfKindWithin

\* There are as many lines of any kind in a list as at the places it is of.
LEMMA ListsCount ==
  ASSUME NEW s, NEW W, NEW G, Lists(s, W)
  PROVE  Cardinality(OfKind(s, G)) = Cardinality(PlacesOfKind(W, G))
<1> DEFINE n == Len(s)
           P == {k \in 1 .. n : s[k] \in G}
           Q == {w \in W : LineAt(w) \in G}
           S == 1 .. n
<1>1. PICK f : ListsBy(f, s, W)
  BY DEF Lists
<1>2. n \in Nat
  BY DEF Lists
<1>3. OneToOne(f, S, W)
  BY <1>1 DEF ListsBy, OneToOne, Onto
<1>4. \A x \in S : s[x] = LineAt(f[x]) /\ f[x] \in W
  BY <1>1 DEF ListsBy
<1> HIDE DEF n
<1>5. P \subseteq S /\ Q \subseteq W
  OBVIOUS
<1>6. \A x \in S : x \in P <=> f[x] \in Q
  BY <1>4
<1>7. IsFiniteSet(S)
  BY <1>2, FS_Interval
<1> HIDE DEF S, P, Q
<1>8. Cardinality(P) = Cardinality(Q)
  BY <1>3, <1>5, <1>6, <1>7, CountedAlike
<1> QED BY <1>8 DEF P, Q, n, OfKind, PlacesOfKind

\* Sorting keeps the number of the items of any kind.
LEMMA SortCount ==
  ASSUME NEW s, NEW t, NEW order, NEW G, Len(s) \in Nat, SortedFrom(t, s, order)
  PROVE  Cardinality(OfKind(t, G)) = Cardinality(OfKind(s, G))
<1> DEFINE n == Len(s)
           P == {k \in 1 .. n : t[k] \in G}
           Q == {k \in 1 .. n : s[k] \in G}
           S == 1 .. n
<1>1. Len(t) = n /\ \A k \in 1 .. n : t[k] = s[order[k]]
  BY DEF SortedFrom
<1>2. /\ order \in [S -> S]
      /\ \A i, j \in S : i < j => order[i] # order[j]
      /\ \A x \in S : \E i \in S : order[i] = x
  BY DEF SortedFrom, IsSorting
<1>3. \A i, j \in S : order[i] = order[j] => i = j
  <2> SUFFICES ASSUME NEW i \in S, NEW j \in S, order[i] = order[j] PROVE i = j
    OBVIOUS
  <2>1. ~(i < j) /\ ~(j < i)
    BY <1>2
  <2> QED BY <2>1
<1> HIDE DEF n
<1>4. OneToOne(order, S, S)
  BY <1>2, <1>3 DEF OneToOne, Onto
<1>5. P \subseteq S /\ Q \subseteq S
  OBVIOUS
<1>6. \A x \in S : x \in P <=> order[x] \in Q
  BY <1>1, <1>2
<1>7. IsFiniteSet(S)
  BY FS_Interval DEF n
<1> HIDE DEF S, P, Q
<1>8. Cardinality(P) = Cardinality(Q)
  BY <1>4, <1>5, <1>6, <1>7, CountedAlike
<1> QED BY <1>1, <1>8 DEF P, Q, n, OfKind

----------------------------------------------------------------------------
(* The percentile *)

\* The numbers less than a limit.
BelowIn(values, limit) == {k \in 1 .. Len(values) : values[k] < limit}

\* The least value that Percentile percent do not exceed, or where rounding may lift it
\* the next.
IsPercentile(v, values) ==
  LET m == Len(values)
      least == Cardinality(BelowIn(values, v))
      most == Cardinality(BelowIn(values, v + 1)) IN
  /\ v \in Nat
  /\ most > least
  /\ Whole * most >= Percentile * m
  /\ \/ Whole * (least - 1) < Percentile * (m - 1)
     \/ Whole * (least - 1) = Percentile * (m - 1) /\ m \in RoundedUp

\* A part of something is reached by a rank that the one before does not reach.
LEMMA RankExists ==
  ASSUME NEW n, NEW p, NEW whole, n \in Nat, p \in Nat, whole \in Nat \ {0}, p <= whole * n
  PROVE  \E r \in 0 .. n : whole * r >= p /\ whole * (r - 1) < p
<1> DEFINE T == {r \in Nat : whole * r >= p}
<1>1. T \subseteq Nat /\ n \in T
  OBVIOUS
<1>2. PICK r \in T : \A y \in T : r <= y
  BY <1>1, LeastNatural
<1>3. r \in 0 .. n /\ whole * r >= p
  BY <1>1, <1>2
<1>4. CASE r = 0
  <2>1. whole * (0 - 1) < 0
    OBVIOUS
  <2> QED BY <1>3, <1>4, <2>1
<1>5. CASE r # 0
  <2>1. r - 1 \in Nat /\ r - 1 \notin T
    BY <1>2, <1>3, <1>5
  <2>2. whole * (r - 1) \in Int
    BY <2>1
  <2> QED BY <1>3, <2>1, <2>2
<1> QED BY <1>4, <1>5

\* The place the quantile is taken from.
LEMMA QuantilePlace ==
  ASSUME NEW m, m \in Nat \ {0}
  PROVE  LET q == HigherRank(m) + 1 IN
         /\ q \in 1 .. m
         /\ Whole * q >= Percentile * m
         /\ \/ Whole * (q - 2) < Percentile * (m - 1)
            \/ (Whole * (q - 2) = Percentile * (m - 1) /\ m \in RoundedUp)
<1> DEFINE n == m - 1
           p == Percentile * n
           IsExact(r) == Whole * r >= p /\ Whole * (r - 1) < p
           exact == CHOOSE r \in 0 .. n : IsExact(r)
<1>1. /\ Whole \in Nat \ {0} /\ Percentile \in 1 .. Whole - 1 /\ RoundedUp \subseteq Nat \ {1}
      /\ n \in Nat /\ p \in Nat
  BY LatencyAssumption
<1>2. Percentile * m = p + Percentile
  BY <1>1
<1>3. p <= Whole * n /\ (n # 0 => p < Whole * n)
  <2>1. Whole * n - p = (Whole - Percentile) * n
    BY <1>1
  <2>2. Whole - Percentile \in Nat \ {0}
    BY <1>1
  <2>3. (Whole - Percentile) * n \in Nat /\ (n # 0 => (Whole - Percentile) * n >= n)
    <3> DEFINE c == Whole - Percentile
    <3>1. c \in Nat \ {0}
      BY <2>2
    <3> HIDE DEF c
    <3>2. 1 \in Nat /\ 1 <= c /\ n * 1 <= n * c
      <4>1. 1 \in Nat /\ 1 <= c /\ c \in Nat /\ n \in Nat
        BY <1>1, <3>1
      <4> HIDE DEF n
      <4> QED BY <4>1, Product
    <3>3. c * n \in Nat /\ c * n >= n
      BY <1>1, <3>1, <3>2
    <3> QED BY <3>3 DEF c
  <2> DEFINE wn == Whole * n
             gap == (Whole - Percentile) * n
  <2>4. wn \in Int /\ gap \in Nat /\ wn - p = gap /\ (n # 0 => gap >= n)
    BY <1>1, <2>1, <2>3
  <2> HIDE DEF wn, gap, p, n
  <2>5. p <= wn /\ (n # 0 => p < wn)
    BY <1>1, <2>4
  <2> QED BY <2>5 DEF wn
<1>4. exact \in 0 .. n /\ IsExact(exact)
  <2> SUFFICES \E r \in 0 .. n : IsExact(r)
    OBVIOUS
  <2> HIDE DEF n, p
  <2>1. PICK r \in 0 .. n : Whole * r >= p /\ Whole * (r - 1) < p
    BY <1>1, <1>3, RankExists
  <2> QED BY <2>1
<1>5. HigherRank(m) = IF Whole * exact = p /\ m \in RoundedUp THEN exact + 1 ELSE exact
  BY DEF HigherRank
<1> HIDE DEF exact, p
<1>6. CASE Whole * exact = p /\ m \in RoundedUp
  <2>1. n # 0
    BY <1>1, <1>6
  <2>2. exact # n
    <3> HIDE DEF n
    <3> QED BY <1>1, <1>3, <1>6, <2>1
  <2>3. exact + 2 \in 1 .. m
    BY <1>4, <2>2
  <2>4. Whole * (exact + 2) = Whole * exact + 2 * Whole
    BY <1>1, <1>4
  <2>5. HigherRank(m) + 1 = exact + 2 /\ exact + 2 - 2 = exact
    BY <1>4, <1>5, <1>6
  <2>6. Whole * (exact + 2) >= Percentile * m
    <3> DEFINE z == Whole * (exact + 2)
               u == Percentile * m
    <3>1. z = p + 2 * Whole /\ u = p + Percentile
      BY <1>2, <1>6, <2>4
    <3>2. Whole \in Nat /\ Percentile \in Nat /\ Percentile <= Whole /\ p \in Nat
      BY <1>1
    <3> HIDE DEF z, u
    <3>3. z >= u
      BY <3>1, <3>2
    <3> QED BY <3>3 DEF z, u
  <2> DEFINE q == HigherRank(m) + 1
  <2>7. q = exact + 2 /\ q - 2 = exact
    BY <1>4, <2>5
  <2> HIDE DEF q
  <2>8. Whole * (q - 2) = p
    BY <1>6, <2>7
  <2>9. q \in 1 .. m /\ Whole * q >= Percentile * m
    BY <2>3, <2>6, <2>7
  <2> QED BY <1>6, <2>8, <2>9 DEF p, q
<1>7. CASE ~(Whole * exact = p /\ m \in RoundedUp)
  <2>1. HigherRank(m) + 1 = exact + 1 /\ exact + 1 \in 1 .. m /\ exact + 1 - 2 = exact - 1
    BY <1>4, <1>5, <1>7
  <2>2. Whole * (exact + 1) = Whole * exact + Whole
    BY <1>1, <1>4
  <2>3. Whole * (exact + 1) >= Percentile * m
    <3> HIDE DEF n
    <3> QED BY <1>1, <1>2, <1>4, <2>2
  <2> QED BY <1>4, <2>1, <2>3 DEF p
<1> QED BY <1>6, <1>7

\* The quantile is such a value.
LEMMA QuantileIs ==
  ASSUME NEW m, NEW values, m \in Nat \ {0}, values \in [1 .. m -> Nat]
  PROVE  IsPercentile(Quantile(values), values)
<1> DEFINE order == SortedPlaces(values)
           q == HigherRank(m) + 1
           v == values[order[q]]
           S == 1 .. m
           Low == BelowIn(values, v)
           High == BelowIn(values, v + 1)
           L == {k \in S : values[order[k]] < v}
           H == {k \in S : values[order[k]] < v + 1}
<1>1. Len(values) = m /\ values \in [1 .. m -> Int]
  OBVIOUS
<1>2. Quantile(values) = v
  BY <1>1 DEF Quantile
<1>3. /\ q \in 1 .. m /\ Whole * q >= Percentile * m
      /\ \/ Whole * (q - 2) < Percentile * (m - 1)
         \/ (Whole * (q - 2) = Percentile * (m - 1) /\ m \in RoundedUp)
  BY QuantilePlace
<1>4. IsSorting(order, m, values)
  BY <1>1, SortedPlacesAre
<1> HIDE DEF order, q
<1>5. /\ order \in [S -> S]
      /\ \A i, j \in S : i < j => order[i] # order[j] /\ values[order[i]] <= values[order[j]]
      /\ \A x \in S : \E i \in S : order[i] = x
  BY <1>4 DEF IsSorting
<1>6. \A i, j \in S : order[i] = order[j] => i = j
  <2> SUFFICES ASSUME NEW i \in S, NEW j \in S, order[i] = order[j] PROVE i = j
    OBVIOUS
  <2>1. ~(i < j) /\ ~(j < i)
    BY <1>5
  <2> QED BY <2>1
<1>7. OneToOne(order, S, S)
  BY <1>5, <1>6 DEF OneToOne, Onto
<1>8. v \in Nat
  BY <1>3, <1>5
<1>9. \A k \in S : values[order[k]] \in Nat /\ values[k] \in Nat /\ order[k] \in S
  BY <1>5
<1> HIDE DEF v
<1>10. IsFiniteSet(S)
  BY FS_Interval
<1>11. Cardinality(Low) = Cardinality(L)
  <2>1. L \subseteq S /\ Low \subseteq S
    BY <1>1 DEF BelowIn
  <2>2. \A k \in S : k \in L <=> order[k] \in Low
    BY <1>1, <1>9 DEF BelowIn
  <2> HIDE DEF S, L, Low
  <2> QED BY <1>7, <1>10, <2>1, <2>2, CountedAlike
<1>12. Cardinality(High) = Cardinality(H)
  <2>1. H \subseteq S /\ High \subseteq S
    BY <1>1 DEF BelowIn
  <2>2. \A k \in S : k \in H <=> order[k] \in High
    BY <1>1, <1>9 DEF BelowIn
  <2> HIDE DEF S, H, High
  <2> QED BY <1>7, <1>10, <2>1, <2>2, CountedAlike
<1>13. Cardinality(L) \in Nat /\ Cardinality(L) <= q - 1
  <2>1. L \subseteq 1 .. q - 1
    <3> SUFFICES ASSUME NEW k \in L, ~(k < q) PROVE FALSE
      BY <1>3
    <3>1. k \in S /\ q \in S /\ (q < k \/ q = k)
      BY <1>3
    <3>2. values[order[q]] <= values[order[k]]
      <4> HIDE DEF S, L
      <4>1. CASE q = k
        BY <1>9, <3>1, <4>1
      <4>2. CASE q < k
        BY <1>5, <3>1, <4>2
      <4> QED BY <3>1, <4>1, <4>2
    <3>3. v <= values[order[k]]
      BY <3>2 DEF v
    <3> QED BY <1>8, <1>9, <3>1, <3>3
  <2> DEFINE p == q - 1
             T == 1 .. p
  <2>2. p \in Nat
    BY <1>3
  <2> HIDE DEF p
  <2>3. IsFiniteSet(T) /\ Cardinality(T) = p
    <3>1. IsFiniteSet(1 .. p) /\ Cardinality(1 .. p) = IF 1 > p THEN 0 ELSE p - 1 + 1
      <4>1. 1 \in Int /\ p \in Int
        BY <2>2
      <4> QED BY <4>1, FS_Interval
    <3>2. (IF 1 > p THEN 0 ELSE p - 1 + 1) = p
      BY <2>2
    <3> QED BY <3>1, <3>2
  <2>4. L \in SUBSET T
    BY <2>1 DEF p
  <2> HIDE DEF L, T
  <2>5. IsFiniteSet(L) /\ Cardinality(L) <= p
    BY <2>3, <2>4, FS_Subset
  <2> QED BY <2>5, FS_CardinalityType DEF p
<1>14. Cardinality(H) \in Nat /\ Cardinality(H) >= q
  <2>1. 1 .. q \subseteq H
    <3> SUFFICES ASSUME NEW k \in 1 .. q PROVE k \in H
      OBVIOUS
    <3>1. k \in S /\ q \in S /\ (k < q \/ q = k)
      BY <1>3
    <3>2. values[order[k]] <= values[order[q]]
      <4> HIDE DEF S, H
      <4>1. CASE q = k
        BY <1>9, <3>1, <4>1
      <4>2. CASE k < q
        BY <1>5, <3>1, <4>2
      <4> QED BY <3>1, <4>1, <4>2
    <3>3. values[order[k]] <= v
      BY <3>2 DEF v
    <3> QED BY <1>8, <1>9, <3>1, <3>3
  <2>2. Cardinality(1 .. q) = q
    BY <1>3, FS_Interval
  <2>3. IsFiniteSet(H)
    BY <1>10, FS_Subset
  <2> HIDE DEF H
  <2>4. Cardinality(1 .. q) <= Cardinality(H)
    BY <2>1, <2>3, FS_Subset
  <2> QED BY <2>2, <2>3, <2>4, FS_CardinalityType
<1> DEFINE least == Cardinality(Low)
           most == Cardinality(High)
<1>15. least \in Nat /\ most \in Nat /\ least <= q - 1 /\ most >= q
  BY <1>11, <1>12, <1>13, <1>14
<1> HIDE DEF least, most
<1>16. most > least
  BY <1>3, <1>15
<1>17. Whole * most >= Percentile * m
  <2> DEFINE r == Percentile * m
  <2>1. r \in Int /\ Whole \in Nat
    BY LatencyAssumption
  <2>2. Whole * q >= r
    BY <1>3
  <2> HIDE DEF r
  <2>3. Whole * q <= Whole * most
    <3>1. q \in Nat /\ most \in Nat /\ q <= most
      BY <1>3, <1>15
    <3> QED BY <2>1, <3>1, Product
  <2>4. Whole * q \in Int /\ Whole * most \in Int
    BY <1>3, <1>15, <2>1
  <2> QED BY <2>1, <2>2, <2>3, <2>4 DEF r
<1>18. \/ Whole * (least - 1) < Percentile * (m - 1)
       \/ Whole * (least - 1) = Percentile * (m - 1) /\ m \in RoundedUp
  <2> DEFINE r == Percentile * (m - 1)
             low == Whole * (least - 1)
             high == Whole * (q - 2)
  <2>1. r \in Int /\ Whole \in Nat
    BY LatencyAssumption
  <2>2. high < r \/ (high = r /\ m \in RoundedUp)
    BY <1>3
  <2>3. low <= high
    <3> DEFINE x == least
               y == q - 1
    <3>1. x \in Nat /\ y \in Nat /\ x <= y
      BY <1>3, <1>15
    <3>2. low = Whole * x - Whole /\ high = Whole * y - Whole
      BY <1>3, <1>15, <2>1
    <3> HIDE DEF x, y, low, high
    <3>3. Whole * x <= Whole * y /\ Whole * x \in Int /\ Whole * y \in Int
      BY <2>1, <3>1, Product
    <3> QED BY <2>1, <3>2, <3>3
  <2>4. low \in Int /\ high \in Int
    BY <1>3, <1>15, <2>1
  <2> HIDE DEF r, low, high
  <2>5. low < r \/ (low = r /\ m \in RoundedUp)
    BY <2>1, <2>2, <2>3, <2>4
  <2> QED BY <2>5 DEF low, r
<1> QED BY <1>1, <1>2, <1>8, <1>16, <1>17, <1>18 DEF IsPercentile, least, most

----------------------------------------------------------------------------
(* The row *)

\* What was written, by its places.
LEMMA WrittenIs ==
  ASSUME FilesOK
  PROVE  /\ Written(IsRecord) = RecordPlaces
         /\ Written(Measured) = {w \in Places : Measured(LineAt(w))}
         /\ Written(ContainsFail) = {w \in Places : ContainsFail(LineAt(w))}
<1>0. DOMAIN files = 1 .. NumFiles /\ \A f \in 1 .. NumFiles : DOMAIN files[f] = 1 .. Len(files[f])
  BY DEF FilesOK
<1>1. \A f, k : <<f, k>> \in Places <=> f \in DOMAIN files /\ k \in DOMAIN files[f]
  BY <1>0 DEF Places
<1>2. \A w \in Places : \E f \in DOMAIN files : \E k \in DOMAIN files[f] : w = <<f, k>>
  BY <1>0 DEF Places
<1>3. \A f, k : LineAt(<<f, k>>) = files[f][k]
  BY DEF LineAt
<1>4. Written(IsRecord) = RecordPlaces
  <2>1. \A w : w \in Written(IsRecord) <=>
          \E f \in DOMAIN files : \E k \in DOMAIN files[f] : IsRecord(files[f][k]) /\ w = <<f, k>>
    BY DEF Written
  <2>2. \A w : w \in RecordPlaces <=>
          \E f \in DOMAIN files : \E k \in DOMAIN files[f] : IsRecord(files[f][k]) /\ w = <<f, k>>
    BY <1>1, <1>2, <1>3 DEF RecordPlaces
  <2> QED BY <2>1, <2>2
<1>5. Written(Measured) = {w \in Places : Measured(LineAt(w))}
  <2>1. \A w : w \in Written(Measured) <=>
          \E f \in DOMAIN files : \E k \in DOMAIN files[f] : Measured(files[f][k]) /\ w = <<f, k>>
    BY DEF Written
  <2>2. \A w : w \in {v \in Places : Measured(LineAt(v))} <=>
          \E f \in DOMAIN files : \E k \in DOMAIN files[f] : Measured(files[f][k]) /\ w = <<f, k>>
    BY <1>1, <1>2, <1>3
  <2> QED BY <2>1, <2>2
<1>6. Written(ContainsFail) = {w \in Places : ContainsFail(LineAt(w))}
  <2>1. \A w : w \in Written(ContainsFail) <=>
          \E f \in DOMAIN files : \E k \in DOMAIN files[f] : ContainsFail(files[f][k]) /\ w = <<f, k>>
    BY DEF Written
  <2>2. \A w : w \in {v \in Places : ContainsFail(LineAt(v))} <=>
          \E f \in DOMAIN files : \E k \in DOMAIN files[f] : ContainsFail(files[f][k]) /\ w = <<f, k>>
    BY <1>1, <1>2, <1>3
  <2> QED BY <2>1, <2>2
<1> QED BY <1>4, <1>5, <1>6

\* The measured records with a latency below a limit.
LEMMA BelowIs ==
  ASSUME FilesOK, NEW limit
  PROVE  LatencyBelow(limit) = Cardinality({w \in Places : Measured(LineAt(w)) /\ LineAt(w).lat < limit})
<1> DEFINE P == UNION {{<<f, k>> : k \in {j \in DOMAIN files[f] : Measured(files[f][j]) /\ files[f][j].lat < limit}}
                         : f \in DOMAIN files}
           Q == {w \in Places : Measured(LineAt(w)) /\ LineAt(w).lat < limit}
<1>0. DOMAIN files = 1 .. NumFiles /\ \A f \in 1 .. NumFiles : DOMAIN files[f] = 1 .. Len(files[f])
  BY DEF FilesOK
<1>1. \A f, k : <<f, k>> \in Places <=> f \in DOMAIN files /\ k \in DOMAIN files[f]
  BY <1>0 DEF Places
<1>2. \A w \in Places : \E f \in DOMAIN files : \E k \in DOMAIN files[f] : w = <<f, k>>
  BY <1>0 DEF Places
<1>3. \A f, k : LineAt(<<f, k>>) = files[f][k]
  BY DEF LineAt
<1>4. \A w : w \in Q <=>
        \E f \in DOMAIN files : \E k \in DOMAIN files[f] :
          Measured(files[f][k]) /\ files[f][k].lat < limit /\ w = <<f, k>>
  BY <1>1, <1>2, <1>3
<1>5. \A w : w \in P <=>
        \E f \in DOMAIN files : \E k \in DOMAIN files[f] :
          Measured(files[f][k]) /\ files[f][k].lat < limit /\ w = <<f, k>>
  OBVIOUS
<1>6. LatencyBelow(limit) = Cardinality(P)
  BY DEF LatencyBelow, Written
<1> HIDE DEF P, Q
<1>7. P = Q
  BY <1>4, <1>5
<1> QED BY <1>6, <1>7 DEF Q

\* The first and the latest time are those at the ends of the sorted table.
LEMMA SpanIs ==
  ASSUME FilesOK, NEW df, IsTable(df), Len(df) # 0
  PROVE  /\ First = df[1].ts /\ Latest = df[Len(df)].ts /\ First \in Int /\ Latest \in Int
         /\ GetTimestampRange(df) = <<First, Latest>> /\ Times # {}
<1> DEFINE n == Len(df)
<1>0. df \in Seq(Lines) /\ n \in Nat \ {0}
  BY DEF IsTable, Lists
<1>1. PICK a : ListsBy(a, df, RecordPlaces)
  BY DEF IsTable, Lists
<1>2. \A k \in 1 .. n : df[k].ts \in Int
  BY ListedLines DEF IsTable
<1>3. Times = {LineAt(w).ts : w \in RecordPlaces}
  BY WrittenIs DEF Times, LineAt
<1>4. \A w \in RecordPlaces : \E k \in 1 .. n : LineAt(w) = df[k]
  BY <1>1 DEF ListsBy
<1>5. \A k \in 1 .. n : \E w \in RecordPlaces : LineAt(w) = df[k]
  BY <1>1 DEF ListsBy
<1>6. \A ts : ts \in Times <=> \E k \in 1 .. n : ts = df[k].ts
  BY <1>3, <1>4, <1>5
<1>7. \A i, j \in 1 .. n : i < j => df[i].ts <= df[j].ts
  BY DEF IsTable, InTime
<1>8. df # <<>> /\ Head(df) = df[1] /\ Last(df) = df[n]
  BY <1>0 DEF Last
<1> HIDE DEF n
<1>9. 1 \in 1 .. n /\ n \in 1 .. n
  BY <1>0
<1>10. \A k \in 1 .. n : df[1].ts <= df[k].ts /\ df[k].ts <= df[n].ts
  <2> SUFFICES ASSUME NEW k \in 1 .. n PROVE df[1].ts <= df[k].ts /\ df[k].ts <= df[n].ts
    OBVIOUS
  <2>1. df[1].ts <= df[k].ts
    <3>1. CASE k = 1
      BY <1>2, <1>9, <3>1
    <3>2. CASE 1 < k
      BY <1>7, <1>9, <3>2
    <3> QED BY <3>1, <3>2
  <2>2. df[k].ts <= df[n].ts
    <3>1. CASE k = n
      BY <1>2, <1>9, <3>1
    <3>2. CASE k < n
      BY <1>7, <1>9, <3>2
    <3> QED BY <1>0, <3>1, <3>2
  <2> QED BY <2>1, <2>2
<1> DEFINE lo == df[1].ts
           hi == df[n].ts
<1>11. lo \in Times /\ hi \in Times /\ lo \in Int /\ hi \in Int
  BY <1>2, <1>6, <1>9
<1>12. \A ts \in Times : ts \in Int /\ lo <= ts /\ ts <= hi
  BY <1>2, <1>6, <1>10
<1> HIDE DEF lo, hi
<1>13. First = lo
  <2>1. First \in Times /\ \A other \in Times : First <= other
    BY <1>11, <1>12 DEF First
  <2> QED BY <1>11, <1>12, <2>1
<1>14. Latest = hi
  <2>1. Latest \in Times /\ \A other \in Times : Latest >= other
    BY <1>11, <1>12 DEF Latest
  <2> QED BY <1>11, <1>12, <2>1
<1>15. GetTimestampRange(df) = <<lo, hi>>
  BY <1>8 DEF GetTimestampRange, lo, hi
<1> QED BY <1>11, <1>13, <1>14, <1>15 DEF lo, hi, n

\* What becomes of the table of all records.
RowOf(df, t, lo, hi) ==
  /\ lo = GetTimestampRange(df)[1] + WarmupT /\ hi = GetTimestampRange(df)[2] - TerminateT
  /\ t = TrimOffByTimeRange(df, <<lo, hi>>)

\* The row of what is left.
IsRow(row, t, lo, hi) ==
  /\ t = <<>> => ~row.ok
  /\ t # <<>> => /\ row.ok
                 /\ row.val.ycsb.totalOps = Len(t)
                 /\ row.val.ycsb.timeElapsed = Last(t).ts - Head(t).ts
                 /\ row.val.ycsb.perLat = Quantile([k \in DOMAIN t |-> t[k].lat])
                 /\ row.val.server = GetSvrStatDataResult(<<lo, hi>>)

\* A row, unless nothing is left of it.
LEMMA RowIs ==
  ASSUME NEW df, NEW t, NEW lo, NEW hi, GetPreProcedYcsbData = Done(df), RowOf(df, t, lo, hi)
  PROVE  IsRow(ProcessResultSet, t, lo, hi)
<1> DEFINE pre == GetPreProcedYcsbData
           ycsb == GetYcsbDataResult(df, <<lo, hi>>)
           row == ProcessResultSet
           server == GetSvrStatDataResult(<<lo, hi>>)
<1>0. Error.ok = FALSE /\ \A x : Done(x).ok = TRUE /\ Done(x).val = x
  BY DEF Error, Done
<1>1. pre.ok /\ pre.val = df
  BY <1>0
<1>2. row = IF ~ycsb.ok THEN Error ELSE Done([ycsb |-> ycsb.val, server |-> server])
  <2> HIDE DEF ycsb, server
  <2>1. row = LET full == GetTimestampRange(df)
                  trimmed == <<full[1] + WarmupT, full[2] - TerminateT>>
                  result == GetYcsbDataResult(df, trimmed) IN
              IF ~result.ok THEN Error
              ELSE Done([ycsb |-> result.val, server |-> GetSvrStatDataResult(trimmed)])
    BY <1>1 DEF ProcessResultSet
  <2> QED BY <2>1 DEF RowOf, ycsb, server
<1> HIDE DEF row, server
<1>3. t = <<>> => ycsb = Error
  BY DEF GetYcsbDataResult, RowOf
<1>4. t # <<>> => ycsb = Done([totalOps |-> Len(t), timeElapsed |-> Last(t).ts - Head(t).ts,
                             perLat |-> Quantile([k \in DOMAIN t |-> t[k].lat]),
                             avgLat |-> Mean([k \in DOMAIN t |-> t[k].lat])])
  BY DEF GetYcsbDataResult, RowOf, GetTimestampRange
<1> HIDE DEF ycsb
<1>5. t = <<>> => ~row.ok
  BY <1>0, <1>2, <1>3
<1>6. ASSUME t # <<>>
      PROVE  /\ row.ok
             /\ row.val.ycsb.totalOps = Len(t)
             /\ row.val.ycsb.timeElapsed = Last(t).ts - Head(t).ts
             /\ row.val.ycsb.perLat = Quantile([k \in DOMAIN t |-> t[k].lat])
             /\ row.val.server = server
  <2> DEFINE q == Quantile([k \in DOMAIN t |-> t[k].lat])
             avg == Mean([k \in DOMAIN t |-> t[k].lat])
             time == Last(t).ts - Head(t).ts
             ops == Len(t)
  <2>1. ycsb = Done([totalOps |-> ops, timeElapsed |-> time, perLat |-> q, avgLat |-> avg])
    BY <1>4, <1>6
  <2> HIDE DEF q, avg, time, ops
  <2>2. ycsb.ok /\ ycsb.val.totalOps = ops /\ ycsb.val.timeElapsed = time /\ ycsb.val.perLat = q
    BY <1>0, <2>1
  <2>3. row.ok /\ row.val.ycsb = ycsb.val /\ row.val.server = server
    BY <1>0, <1>2, <2>2
  <2> QED BY <2>2, <2>3 DEF q, time, ops
<1> QED BY <1>5, <1>6 DEF IsRow, row, server

\* The samples of the server that count are those in the span.
LEMMA ServerIs ==
  ASSUME NEW lo, NEW hi, lo \in Int, hi \in Int
  PROVE  GetSvrStatDataResult(<<lo, hi>>).overall.of =
           Cardinality({k \in DOMAIN SvrStat : lo <= SvrStat[k].ts /\ SvrStat[k].ts <= hi})
<1> DEFINE Samples == [ts : Int, overall : Nat, node : Nat, sys : Nat, procs : Seq(Nat)]
           s == SvrStat
           n == Len(s)
           u == SortByTimestamp(s)
           t == TrimOffByTimeRange(u, <<lo, hi>>)
           G == {x \in Samples : Within(x, lo, hi)}
<1>1. s \in Seq(Samples)
  BY SvrStatAssumption
<1>2. n \in Nat /\ DOMAIN s = 1 .. n /\ \A k \in 1 .. n : s[k] \in Samples /\ s[k].ts \in Int
  <2>1. n \in Nat /\ DOMAIN s = 1 .. n /\ \A k \in 1 .. n : s[k] \in Samples
    <3> HIDE DEF Samples, s
    <3> QED BY <1>1
  <2>2. \A x \in Samples : x.ts \in Int
    OBVIOUS
  <2> HIDE DEF Samples, s
  <2> QED BY <2>1, <2>2
<1>3. u \in Seq(Samples) /\ InTime(u) /\ \E order : SortedFrom(u, s, order)
  <2> HIDE DEF Samples, s
  <2> QED BY <1>1, <1>2, SortIs
<1>4. PICK order : SortedFrom(u, s, order)
  BY <1>3
<1> HIDE DEF u
<1>5. Len(u) = n /\ \A k \in 1 .. n : u[k] \in Samples /\ u[k].ts \in Int
  <2>1. Len(u) = n
    BY <1>4 DEF SortedFrom
  <2> HIDE DEF n
  <2>2. \A k \in 1 .. n : u[k] \in Samples
    <3> HIDE DEF Samples
    <3> QED BY <1>3, <2>1
  <2> QED BY <2>1, <2>2
<1>6. t \in Seq(Samples) /\ \E a : Trimmed(t, u, a, lo, hi)
  <2> HIDE DEF Samples, n
  <2>1. \A k \in 1 .. Len(u) : u[k].ts \in Int
    BY <1>5
  <2> QED BY <1>3, <2>1, TrimIs
<1>7. PICK a : Trimmed(t, u, a, lo, hi)
  BY <1>6
<1>8. GetSvrStatDataResult(<<lo, hi>>).overall.of = Len(t)
  <2> DEFINE lats == [k \in DOMAIN t |-> t[k].overall]
  <2>1. GetSvrStatDataResult(<<lo, hi>>).overall = Mean(lats)
    BY DEF GetSvrStatDataResult, u
  <2>2. Mean(lats).of = Len(lats)
    BY DEF Mean
  <2>3. Len(lats) = Len(t)
    <3> HIDE DEF t
    <3>1. DOMAIN t = 1 .. Len(t) /\ Len(t) \in Nat
      BY <1>6
    <3> QED BY <3>1
  <2> QED BY <2>1, <2>2, <2>3
<1> HIDE DEF t, s, Samples
<1>9. Cardinality(OfKind(t, Samples)) = Cardinality(OfKindWithin(u, lo, hi, Samples))
  <2>1. Len(u) \in Nat
    BY <1>2, <1>5
  <2> QED BY <1>7, <2>1, TrimCount
<1>10. Cardinality(OfKind(t, Samples)) = Len(t)
  <2>1. Len(t) \in Nat /\ \A k \in 1 .. Len(t) : t[k] \in Samples
    BY <1>6
  <2>2. OfKind(t, Samples) = 1 .. Len(t)
    BY <2>1 DEF OfKind
  <2> DEFINE m == Len(t)
  <2>3. Cardinality(1 .. m) = m
    <3> HIDE DEF m
    <3>1. m \in Int /\ 1 \in Int /\ m >= 0
      BY <2>1 DEF m
    <3>2. Cardinality(1 .. m) = IF 1 > m THEN 0 ELSE m - 1 + 1
      BY <3>1, FS_Interval
    <3> QED BY <3>1, <3>2
  <2> QED BY <2>2, <2>3
<1>11. OfKindWithin(u, lo, hi, Samples) = OfKind(u, G)
  BY DEF OfKindWithin, OfKind
<1>12. Cardinality(OfKind(u, G)) = Cardinality(OfKind(s, G))
  <2>1. Len(s) \in Nat
    BY <1>2
  <2> HIDE DEF G
  <2> QED BY <1>4, <2>1, SortCount
<1>13. OfKind(s, G) = {k \in DOMAIN SvrStat : lo <= SvrStat[k].ts /\ SvrStat[k].ts <= hi}
  BY <1>2 DEF Within, OfKind, s
<1> QED BY <1>8, <1>9, <1>10, <1>11, <1>12, <1>13

\* The table, what is left of it, and the span.
Evaluated(df, t, a, lo, hi) ==
  /\ GetPreProcedYcsbData = Done(df) /\ IsTable(df) /\ RowOf(df, t, lo, hi)
  /\ lo \in Int /\ hi \in Int /\ t \in Seq(Lines) /\ Trimmed(t, df, a, lo, hi)

\* Every table is evaluated so.
LEMMA TableEvaluated ==
  ASSUME FilesOK, NEW df, GetPreProcedYcsbData = Done(df), IsTable(df)
  PROVE  \E t, a, lo, hi : Evaluated(df, t, a, lo, hi)
<1> DEFINE full == GetTimestampRange(df)
           lo == full[1] + WarmupT
           hi == full[2] - TerminateT
           t == TrimOffByTimeRange(df, <<lo, hi>>)
<1>0. df \in Seq(Lines) /\ \A k \in 1 .. Len(df) : df[k].ts \in Int
  BY ListedLines DEF IsTable, Lists
<1>1. full[1] \in Int /\ full[2] \in Int
  <2>1. CASE Len(df) = 0
    <3>1. full = <<0, 0>>
      BY <1>0, <2>1 DEF GetTimestampRange
    <3> QED BY <3>1
  <2>2. CASE Len(df) # 0
    <3>1. full = <<First, Latest>> /\ First \in Int /\ Latest \in Int
      BY <2>2, SpanIs
    <3> QED BY <3>1
  <2> QED BY <2>1, <2>2
<1> HIDE DEF full
<1>2. lo \in Int /\ hi \in Int
  BY <1>1, TimeAssumption
<1> HIDE DEF lo, hi
<1>3. t \in Seq(Lines) /\ \E a : Trimmed(t, df, a, lo, hi)
  BY <1>0, <1>2, TrimIs DEF IsTable
<1>4. RowOf(df, t, lo, hi)
  BY DEF RowOf, full, lo, hi
<1> HIDE DEF t
<1> QED BY <1>2, <1>3, <1>4 DEF Evaluated

\* If anything is left, the span is that of the measured records.
LEMMA SpanOfRow ==
  ASSUME FilesOK, NEW df, NEW t, NEW a, NEW lo, NEW hi, Evaluated(df, t, a, lo, hi), Len(df) # 0
  PROVE  /\ lo = First + WarmupT /\ hi = Latest - TerminateT
         /\ \A line : Measured(line) <=> IsRecord(line) /\ Within(line, lo, hi)
<1>1. GetTimestampRange(df) = <<First, Latest>>
  BY SpanIs DEF Evaluated
<1>2. lo = First + WarmupT /\ hi = Latest - TerminateT
  BY <1>1 DEF Evaluated, RowOf
<1> QED BY <1>2 DEF Measured, Within

\* Measured records of any kind are counted as they are left.
LEMMA MeasuredCount ==
  ASSUME FilesOK, NEW df, NEW t, NEW a, NEW lo, NEW hi, NEW G, Evaluated(df, t, a, lo, hi), Len(df) # 0,
         G \subseteq Lines
  PROVE  Cardinality(OfKind(t, G)) = Cardinality({w \in Places : Measured(LineAt(w)) /\ LineAt(w) \in G})
<1> DEFINE H == {line \in G : Within(line, lo, hi)}
           Q == {w \in Places : Measured(LineAt(w)) /\ LineAt(w) \in G}
<1>1. Len(df) \in Nat /\ Lists(df, RecordPlaces) /\ Trimmed(t, df, a, lo, hi)
  BY DEF Evaluated, IsTable, Lists
<1>2. Cardinality(OfKind(t, G)) = Cardinality(OfKindWithin(df, lo, hi, G))
  BY <1>1, TrimCount
<1>3. OfKindWithin(df, lo, hi, G) = OfKind(df, H)
  BY DEF OfKindWithin, OfKind
<1>4. Cardinality(OfKind(df, H)) = Cardinality(PlacesOfKind(RecordPlaces, H))
  <2> HIDE DEF H
  <2> QED BY <1>1, ListsCount
<1>5. PlacesOfKind(RecordPlaces, H) = Q
  <2>1. \A line : Measured(line) <=> IsRecord(line) /\ Within(line, lo, hi)
    BY SpanOfRow
  <2> QED BY <2>1 DEF PlacesOfKind, RecordPlaces
<1> QED BY <1>2, <1>3, <1>4, <1>5

\* The row counts every record of every client that was written at least WarmupT after
\* the first one and TerminateT before the last, and no other, its time lies in that
\* span, its latency is the percentile of theirs, and the server's samples are those of
\* the same span (GetYcsbDataResult, GetSvrStatDataResult).
LEMMA RowRight == ASSUME FilesOK PROVE RowIsRight
<1> DEFINE row == ProcessResultSet
           ycsb == row.val.ycsb
<1> SUFFICES ASSUME row.ok
             PROVE  /\ ycsb.totalOps = Cardinality(Written(Measured))
                    /\ ycsb.timeElapsed \in 0 .. Latest - First - WarmupT - TerminateT
                    /\ LatencyBelow(ycsb.perLat + 1) > LatencyBelow(ycsb.perLat)
                    /\ Whole * LatencyBelow(ycsb.perLat + 1) >= Percentile * ycsb.totalOps
                    /\ \/ Whole * (LatencyBelow(ycsb.perLat) - 1) < Percentile * (ycsb.totalOps - 1)
                       \/ /\ Whole * (LatencyBelow(ycsb.perLat) - 1) = Percentile * (ycsb.totalOps - 1)
                          /\ ycsb.totalOps \in RoundedUp
                    /\ row.val.server.overall.of =
                         Cardinality({k \in DOMAIN SvrStat :
                            First + WarmupT <= SvrStat[k].ts /\ SvrStat[k].ts <= Latest - TerminateT})
  BY DEF RowIsRight
<1>0. Error.ok = FALSE
  BY DEF Error
<1>1. GetPreProcedYcsbData # Error
  <2> SUFFICES ASSUME GetPreProcedYcsbData = Error PROVE FALSE
    OBVIOUS
  <2>1. row = Error
    BY <1>0 DEF ProcessResultSet
  <2> QED BY <1>0, <2>1
<1>2. PICK df : GetPreProcedYcsbData = Done(df) /\ IsTable(df)
  BY <1>1, PreProcedIs
<1>3. PICK t, a, lo, hi : Evaluated(df, t, a, lo, hi)
  BY <1>2, TableEvaluated
<1> DEFINE m == Len(t)
           lats == [k \in DOMAIN t |-> t[k].lat]
<1>4. /\ t # <<>> /\ ycsb.totalOps = m /\ ycsb.timeElapsed = Last(t).ts - Head(t).ts
      /\ ycsb.perLat = Quantile(lats) /\ row.val.server = GetSvrStatDataResult(<<lo, hi>>)
  <2>1. RowOf(df, t, lo, hi)
    BY <1>3 DEF Evaluated
  <2>2. IsRow(row, t, lo, hi)
    BY <1>2, <2>1, RowIs
  <2> HIDE DEF row
  <2>3. t # <<>>
    BY <2>2 DEF IsRow
  <2> QED BY <2>2, <2>3 DEF IsRow
<1> HIDE DEF row, ycsb
<1>5. /\ t \in Seq(Lines) /\ m \in Nat \ {0} /\ Len(df) # 0 /\ Len(df) \in Nat /\ lo \in Int /\ hi \in Int
      /\ Trimmed(t, df, a, lo, hi) /\ IsTable(df) /\ a \in Nat /\ a + m <= Len(df)
  <2>1. t \in Seq(Lines) /\ Trimmed(t, df, a, lo, hi) /\ IsTable(df) /\ lo \in Int /\ hi \in Int
    BY <1>3 DEF Evaluated
  <2>2. m \in Nat \ {0}
    BY <1>4, <2>1
  <2>3. Len(df) \in Nat
    BY <2>1 DEF IsTable, Lists
  <2>4. a \in Nat /\ a + m <= Len(df)
    BY <2>1 DEF Trimmed
  <2> QED BY <2>1, <2>2, <2>3, <2>4
<1>6. /\ lo = First + WarmupT /\ hi = Latest - TerminateT
      /\ \A line : Measured(line) <=> IsRecord(line) /\ Within(line, lo, hi)
  BY <1>3, <1>5, SpanOfRow
<1>7. \A k \in 1 .. m : /\ t[k] = df[a + k] /\ a + k \in 1 .. Len(df) /\ Within(t[k], lo, hi)
                        /\ t[k] \in Lines /\ t[k].ts \in Int /\ t[k].lat \in Nat
  <2> SUFFICES ASSUME NEW k \in 1 .. m
               PROVE  /\ t[k] = df[a + k] /\ a + k \in 1 .. Len(df) /\ Within(t[k], lo, hi)
                      /\ t[k] \in Lines /\ t[k].ts \in Int /\ t[k].lat \in Nat
    OBVIOUS
  <2>1. a + k \in 1 .. Len(df) /\ a < a + k /\ a + k <= a + m
    BY <1>5
  <2>2. t[k] = df[a + k] /\ Within(df[a + k], lo, hi)
    BY <1>5, <2>1 DEF Trimmed
  <2>3. df[a + k] \in Lines /\ df[a + k].ts \in Int /\ df[a + k].lat \in Nat
    BY <1>5, <2>1, ListedLines DEF IsTable
  <2> QED BY <2>1, <2>2, <2>3
<1>8. ycsb.timeElapsed \in 0 .. Latest - First - WarmupT - TerminateT
  <2>1. Head(t) = t[1] /\ Last(t) = t[m]
    BY <1>4, <1>5 DEF Last
  <2> DEFINE x == t[1].ts
             y == t[m].ts
  <2>2. 1 \in 1 .. m /\ m \in 1 .. m
    BY <1>5
  <2>3. x \in Int /\ y \in Int /\ lo <= x /\ y <= hi
    BY <1>7, <2>2 DEF Within
  <2>4. x <= y
    <3>1. CASE m = 1
      BY <2>3, <3>1
    <3>2. CASE m > 1
      <4>1. t[1] = df[a + 1] /\ t[m] = df[a + m] /\ a + 1 \in 1 .. Len(df) /\ a + m \in 1 .. Len(df) /\ a + 1 < a + m
        BY <1>5, <1>7, <2>2, <3>2
      <4> QED BY <1>5, <4>1 DEF IsTable, InTime
    <3> HIDE DEF x, y, m
    <3>3. m = 1 \/ m > 1
      BY <1>5
    <3> QED BY <3>1, <3>2, <3>3
  <2>5. ycsb.timeElapsed = y - x
    BY <1>4, <2>1
  <2> HIDE DEF x, y
  <2>6. y - x \in 0 .. hi - lo
    BY <1>5, <2>3, <2>4
  <2>7. hi - lo = Latest - First - WarmupT - TerminateT
    <3>1. First \in Int /\ Latest \in Int
      BY <1>5, SpanIs
    <3> QED BY <1>6, <3>1, TimeAssumption
  <2> QED BY <2>5, <2>6, <2>7
<1>9. m = Cardinality(Written(Measured))
  <2>1. Cardinality(OfKind(t, Lines)) = Cardinality({w \in Places : Measured(LineAt(w)) /\ LineAt(w) \in Lines})
    BY <1>3, <1>5, MeasuredCount
  <2>2. OfKind(t, Lines) = 1 .. m
    BY <1>7 DEF OfKind
  <2>3. {w \in Places : Measured(LineAt(w)) /\ LineAt(w) \in Lines} = {w \in Places : Measured(LineAt(w))}
    BY LineThere
  <2>4. Cardinality(1 .. m) = m
    <3> HIDE DEF m
    <3>1. m \in Int /\ 1 \in Int /\ m >= 1
      BY <1>5
    <3>2. Cardinality(1 .. m) = IF 1 > m THEN 0 ELSE m - 1 + 1
      BY <3>1, FS_Interval
    <3> QED BY <3>1, <3>2
  <2> QED BY <2>1, <2>2, <2>3, <2>4, WrittenIs
<1>10. Len(lats) = m /\ lats \in [1 .. m -> Nat] /\ \A k \in 1 .. m : lats[k] = t[k].lat
  <2>1. DOMAIN t = 1 .. m
    BY <1>5
  <2> QED BY <1>5, <1>7, <2>1
<1>11. ASSUME NEW limit PROVE LatencyBelow(limit) = Cardinality(BelowIn(lats, limit))
  <2> DEFINE G == {line \in Lines : line.lat < limit}
  <2>1. Cardinality(OfKind(t, G)) = Cardinality({w \in Places : Measured(LineAt(w)) /\ LineAt(w) \in G})
    <3>1. G \subseteq Lines
      OBVIOUS
    <3> HIDE DEF G
    <3> QED BY <1>3, <1>5, <3>1, MeasuredCount
  <2>2. {w \in Places : Measured(LineAt(w)) /\ LineAt(w) \in G}
          = {w \in Places : Measured(LineAt(w)) /\ LineAt(w).lat < limit}
    BY LineThere
  <2>3. OfKind(t, G) = BelowIn(lats, limit)
    <3> HIDE DEF lats
    <3> QED BY <1>7, <1>10 DEF OfKind, BelowIn
  <2> HIDE DEF lats, G
  <2> QED BY <2>1, <2>2, <2>3, BelowIs
<1>12. IsPercentile(ycsb.perLat, lats)
  <2> HIDE DEF lats, m
  <2> QED BY <1>4, <1>5, <1>10, QuantileIs
<1>13. /\ LatencyBelow(ycsb.perLat + 1) > LatencyBelow(ycsb.perLat)
       /\ Whole * LatencyBelow(ycsb.perLat + 1) >= Percentile * ycsb.totalOps
       /\ \/ Whole * (LatencyBelow(ycsb.perLat) - 1) < Percentile * (ycsb.totalOps - 1)
          \/ /\ Whole * (LatencyBelow(ycsb.perLat) - 1) = Percentile * (ycsb.totalOps - 1)
             /\ ycsb.totalOps \in RoundedUp
  <2>1. /\ LatencyBelow(ycsb.perLat + 1) = Cardinality(BelowIn(lats, ycsb.perLat + 1))
        /\ LatencyBelow(ycsb.perLat) = Cardinality(BelowIn(lats, ycsb.perLat))
    BY <1>11
  <2>2. Len(lats) = ycsb.totalOps
    BY <1>4, <1>10
  <2> HIDE DEF lats, m
  <2> QED BY <1>12, <2>1, <2>2 DEF IsPercentile
<1>14. row.val.server.overall.of =
         Cardinality({k \in DOMAIN SvrStat : lo <= SvrStat[k].ts /\ SvrStat[k].ts <= hi})
  <2>1. GetSvrStatDataResult(<<lo, hi>>).overall.of =
          Cardinality({k \in DOMAIN SvrStat : lo <= SvrStat[k].ts /\ SvrStat[k].ts <= hi})
    BY <1>5, ServerIs
  <2> QED BY <1>4, <2>1
<1> QED BY <1>4, <1>6, <1>8, <1>9, <1>13, <1>14

\* It is so of every row.
THEOREM RowsAreRight == Spec => []RowIsRight
BY RowRight, FilesAreOK, PTL

\* There is no row exactly if a file is wrong, there is no table, or no record is left.
LEMMA NoRowRight == ASSUME FilesOK PROVE NoRowIsRight
<1> DEFINE row == ProcessResultSet
           repeated == \E f \in DOMAIN files : RepeatedTable(files[f])
           failed == ~isFailAllowed /\ Written(ContainsFail) # {}
           untabled == \A f \in DOMAIN files : HeadersOf(files[f]) = {}
<1>0. Error.ok = FALSE /\ DOMAIN files = 1 .. NumFiles
  BY DEF Error, FilesOK
<1>1. AnyWrong <=> repeated \/ failed
  <2>1. Written(ContainsFail) # {} <=> \E f \in 1 .. NumFiles : \E k \in DOMAIN files[f] : ContainsFail(files[f][k])
    <3>1. Written(ContainsFail) = {w \in Places : ContainsFail(LineAt(w))}
      BY WrittenIs
    <3>2. \A f \in 1 .. NumFiles : DOMAIN files[f] = 1 .. Len(files[f])
      BY DEF FilesOK
    <3>3. \A f \in 1 .. NumFiles : \A k \in DOMAIN files[f] : <<f, k>> \in Places /\ LineAt(<<f, k>>) = files[f][k]
      <4>1. \A f, k : LineAt(<<f, k>>) = files[f][k]
        BY DEF LineAt
      <4>2. \A f \in 1 .. NumFiles : \A k \in 1 .. Len(files[f]) : <<f, k>> \in Places
        BY DEF Places
      <4> QED BY <3>2, <4>1, <4>2
    <3>4. \A w \in Places : w[1] \in 1 .. NumFiles /\ w[2] \in DOMAIN files[w[1]] /\ LineAt(w) = files[w[1]][w[2]]
      BY <3>2, LineThere DEF LineAt
    <3>5. ASSUME Written(ContainsFail) # {}
          PROVE  \E f \in 1 .. NumFiles : \E k \in DOMAIN files[f] : ContainsFail(files[f][k])
      <4>1. PICK w \in Places : ContainsFail(LineAt(w))
        BY <3>1, <3>5
      <4>2. w[1] \in 1 .. NumFiles /\ w[2] \in DOMAIN files[w[1]] /\ ContainsFail(files[w[1]][w[2]])
        BY <3>4, <4>1
      <4> QED BY <4>2
    <3>6. ASSUME NEW f \in 1 .. NumFiles, NEW k \in DOMAIN files[f], ContainsFail(files[f][k])
          PROVE  Written(ContainsFail) # {}
      <4>1. <<f, k>> \in Places /\ ContainsFail(LineAt(<<f, k>>))
        BY <3>3, <3>6
      <4> QED BY <3>1, <4>1
    <3> QED BY <3>5, <3>6
  <2> QED BY <1>0, <2>1 DEF AnyWrong, FileWrong
<1>2. OpsUpTo(NumFiles) = {} <=> untabled
  <2>1. \A f \in DOMAIN files : OpsOf(files[f]) = {} <=> HeadersOf(files[f]) = {}
    BY DEF OpsOf
  <2>2. OpsUpTo(NumFiles) = {} <=> \A f \in DOMAIN files : OpsOf(files[f]) = {}
    BY <1>0 DEF OpsUpTo
  <2> QED BY <2>1, <2>2
<1> HIDE DEF repeated, failed, untabled
<1>3. CASE AnyWrong \/ OpsUpTo(NumFiles) = {}
  <2>1. GetPreProcedYcsbData = Error
    BY <1>3, PreProcedIs
  <2>2. row = Error
    BY <1>0, <2>1 DEF ProcessResultSet
  <2>3. ~row.ok /\ (repeated \/ failed \/ untabled)
    BY <1>0, <1>1, <1>2, <1>3, <2>2
  <2> QED BY <2>3 DEF NoRowIsRight, repeated, failed, untabled
<1>4. CASE ~(AnyWrong \/ OpsUpTo(NumFiles) = {})
  <2>1. PICK df : GetPreProcedYcsbData = Done(df) /\ IsTable(df)
    BY <1>4, PreProcedIs
  <2>2. PICK t, a, lo, hi : Evaluated(df, t, a, lo, hi)
    BY <2>1, TableEvaluated
  <2>3. t \in Seq(Lines) /\ Trimmed(t, df, a, lo, hi) /\ RowOf(df, t, lo, hi) /\ Len(df) \in Nat
    BY <2>2 DEF Evaluated, IsTable, Lists
  <2>4. row.ok <=> t # <<>>
    <3>1. IsRow(row, t, lo, hi)
      BY <2>1, <2>3, RowIs
    <3> HIDE DEF row
    <3> QED BY <3>1 DEF IsRow
  <2>5. t = <<>> <=> Len(t) = 0
    BY <2>3
  <2> HIDE DEF row
  <2>6. Len(df) = 0 => Times = {}
    <3> SUFFICES ASSUME Len(df) = 0 PROVE RecordPlaces = {}
      BY WrittenIs DEF Times
    <3>1. PICK at : ListsBy(at, df, RecordPlaces)
      BY <2>1 DEF IsTable, Lists
    <3> QED BY <3>1 DEF ListsBy
  <2>7. Len(df) # 0 => Times # {} /\ (Written(Measured) = {} <=> Len(t) = 0)
    <3> SUFFICES ASSUME Len(df) # 0 PROVE Times # {} /\ (Written(Measured) = {} <=> Len(t) = 0)
      OBVIOUS
    <3>1. Times # {}
      BY <2>1, SpanIs
    <3>2. \A line : Measured(line) <=> IsRecord(line) /\ Within(line, lo, hi)
      BY <2>2, SpanOfRow
    <3>3. Written(Measured) = {w \in Places : Measured(LineAt(w))}
      BY WrittenIs
    <3>4. PICK at : ListsBy(at, df, RecordPlaces)
      BY <2>1 DEF IsTable, Lists
    <3>5. ASSUME NEW w \in Places, Measured(LineAt(w)) PROVE Len(t) # 0
      <4>1. w \in RecordPlaces /\ Within(LineAt(w), lo, hi)
        BY <3>2, <3>5 DEF RecordPlaces
      <4>2. PICK k \in 1 .. Len(df) : df[k] = LineAt(w)
        BY <3>4, <4>1 DEF ListsBy
      <4>3. a < k /\ k <= a + Len(t) /\ a \in Nat
        BY <2>3, <4>1, <4>2 DEF Trimmed
      <4> QED BY <2>3, <4>3
    <3>6. ASSUME Len(t) # 0 PROVE \E w \in Places : Measured(LineAt(w))
      <4>1. a + 1 \in 1 .. Len(df) /\ a < a + 1 /\ a + 1 <= a + Len(t)
        BY <2>3, <3>6 DEF Trimmed
      <4>2. Within(df[a + 1], lo, hi)
        BY <2>3, <4>1 DEF Trimmed
      <4>3. at[a + 1] \in RecordPlaces /\ df[a + 1] = LineAt(at[a + 1])
        BY <3>4, <4>1 DEF ListsBy
      <4> QED BY <3>2, <4>2, <4>3 DEF RecordPlaces
    <3> QED BY <3>1, <3>3, <3>5, <3>6
  <2>8. Len(df) = 0 => Len(t) = 0
    BY <2>3 DEF Trimmed
  <2>9. ~row.ok <=> Times = {} \/ Written(Measured) = {}
    BY <2>4, <2>5, <2>6, <2>7, <2>8
  <2>10. ~repeated /\ ~failed /\ ~untabled
    BY <1>1, <1>2, <1>4
  <2> QED BY <2>9, <2>10 DEF NoRowIsRight, repeated, failed, untabled, row
<1> QED BY <1>3, <1>4

\* Nothing else is lost to an exception, and no empty row is made (ProcessResultSet).
THEOREM NoRowOnlyWhenWrong == Spec => []NoRowIsRight
BY NoRowRight, FilesAreOK, PTL
=============================================================================
