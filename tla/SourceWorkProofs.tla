--------------------------- MODULE SourceWorkProofs ---------------------------
(***************************************************************************)
(* Theorems of SourceWork, for every limit, number of attempts and list of *)
(* tracks, and every choice of submissions, pages and transcripts.         *)
(*                                                                         *)
(* The argument has four parts, each inductive with the ones before it.    *)
(*                                                                         *)
(*   CoreInv    control and media.  ThreadInv says which thread, loop and  *)
(*              search positions occur at each stage; CancelInv that an    *)
(*              event which stops providers was set by a request or a      *)
(*              timeout; DirsInv which private directories exist at each   *)
(*              stage; MediaInv that audio in such a directory was         *)
(*              measured; LateInv where a provider call that began after   *)
(*              an event can still be, and that it is on its way to be     *)
(*              dropped.                                                   *)
(*   SearchInv  the caption search: its candidates are the ranking of the  *)
(*              listed tracks, and those before the one at hand were       *)
(*              fetched in vain.                                           *)
(*   ResultInv  URLs are of their type; a transcript was normalised from   *)
(*              acceptable segments; rows read back as the response they   *)
(*              were made from.                                            *)
(*   SettledInv the canonical URL of a job is classified as itself.        *)
(*                                                                         *)
(* The first two meet only where the coroutine starts a search or takes    *)
(* its result.  That the ranking lists preferred tracks first, that sorted *)
(* segments are sorted and that a query loses what it should rests on what *)
(* Selection returns: InOrder enumerates a finite set of numbers in        *)
(* increasing order, and there is only one such enumeration.               *)
(***************************************************************************)
EXTENDS SourceWork, FiniteSetTheorems, WellFoundedInduction, TLAPS

(* Selections. *)

\* Increasing, each member once.
Enumerates(s, S) ==
    /\ s \in [1 .. Cardinality(S) -> S]
    /\ \A i, j \in 1 .. Cardinality(S) : i < j => s[i] < s[j]
    /\ \A n \in S : \E i \in 1 .. Cardinality(S) : s[i] = n

LEMMA InOrderEnumerates ==
    ASSUME NEW S \in SUBSET Nat, IsFiniteSet(S)
    PROVE  Cardinality(S) \in Nat /\ Enumerates(InOrder(S), S)
  <1> DEFINE below(n) == {m \in S : m < n}
             rank == [n \in S |-> Cardinality(below(n))]
             ranks == 0 .. Cardinality(S) - 1
  <1>1. Cardinality(S) \in Nat
    BY FS_CardinalityType
  <1>2. \A n \in S : IsFiniteSet(below(n)) /\ Cardinality(below(n)) \in ranks
    <2> SUFFICES ASSUME NEW n \in S PROVE IsFiniteSet(below(n)) /\ Cardinality(below(n)) \in ranks
      OBVIOUS
    <2>1. IsFiniteSet(S \ {n}) /\ Cardinality(S \ {n}) = Cardinality(S) - 1
      BY FS_RemoveElement
    <2>2. below(n) \in SUBSET (S \ {n})
      OBVIOUS
    <2>3. IsFiniteSet(below(n)) /\ Cardinality(below(n)) <= Cardinality(S \ {n})
      BY <2>1, <2>2, FS_Subset
    <2>4. Cardinality(below(n)) \in Nat
      BY <2>3, FS_CardinalityType
    <2> QED BY <1>1, <2>1, <2>3, <2>4
  <1>3. \A m, n \in S : m < n => Cardinality(below(m)) < Cardinality(below(n))
    <2> SUFFICES ASSUME NEW m \in S, NEW n \in S, m < n
                 PROVE  Cardinality(below(m)) < Cardinality(below(n))
      OBVIOUS
    <2>1. m \in below(n) /\ below(m) \in SUBSET (below(n) \ {m})
      <3>1. m \in Nat /\ n \in Nat /\ m \in below(n)
        OBVIOUS
      <3>2. \A x \in below(m) : x \in S /\ x \in Nat /\ x < m
        OBVIOUS
      <3>3. \A x \in below(m) : x \in below(n) /\ x # m
        BY <3>1, <3>2
      <3> QED BY <3>1, <3>3
    <2>2. IsFiniteSet(below(n) \ {m}) /\ Cardinality(below(n) \ {m}) = Cardinality(below(n)) - 1
      BY <1>2, <2>1, FS_RemoveElement
    <2>3. Cardinality(below(m)) <= Cardinality(below(n) \ {m})
      BY <2>1, <2>2, FS_Subset
    <2> HIDE DEF below
    <2> QED BY <1>1, <1>2, <2>2, <2>3
  <1>4. \A m, n \in S : Cardinality(below(m)) = Cardinality(below(n)) => m = n
    <2> SUFFICES ASSUME NEW m \in S, NEW n \in S, m # n
                 PROVE  Cardinality(below(m)) # Cardinality(below(n))
      OBVIOUS
    <2>1. m < n \/ n < m
      OBVIOUS
    <2> HIDE DEF below
    <2>2. Cardinality(below(m)) \in Nat /\ Cardinality(below(n)) \in Nat
      BY <1>1, <1>2
    <2> QED BY <1>3, <2>1, <2>2
  <1> HIDE DEF below
  <1>5. rank \in Injection(S, ranks)
    <2>1. rank \in [S -> ranks] /\ \A m, n \in S : rank[m] = rank[n] => m = n
      BY <1>2, <1>4
    <2> HIDE DEF rank, ranks
    <2> QED BY <2>1 DEF Injection, IsInjective
  <1>6. IsFiniteSet(ranks) /\ Cardinality(ranks) = Cardinality(S)
    <2>1. 0 \in Int /\ Cardinality(S) - 1 \in Int
      BY <1>1
    <2>2. /\ IsFiniteSet(ranks)
          /\ Cardinality(ranks) = IF 0 > Cardinality(S) - 1 THEN 0 ELSE (Cardinality(S) - 1) - 0 + 1
      BY <2>1, FS_Interval
    <2> HIDE DEF ranks
    <2> QED BY <1>1, <2>2
  <1> HIDE DEF ranks
  <1>7. rank \in Surjection(S, ranks)
    BY <1>5, <1>6, FS_Injection
  <1> USE DEF ranks
  <1>8. \A k \in 1 .. Cardinality(S) : Nth(S, k) \in S /\ Cardinality(below(Nth(S, k))) = k - 1
    <2> SUFFICES ASSUME NEW k \in 1 .. Cardinality(S)
                 PROVE  Nth(S, k) \in S /\ Cardinality(below(Nth(S, k))) = k - 1
      OBVIOUS
    <2>1. k - 1 \in ranks
      BY <1>1
    <2>2. PICK n \in S : rank[n] = k - 1
      BY <1>7, <2>1 DEF Surjection
    <2>3. Cardinality(below(n)) = k - 1
      BY <2>2
    <2> QED BY <2>3 DEF Nth, below
  <1>9. \A i, j \in 1 .. Cardinality(S) : i < j => Nth(S, i) < Nth(S, j)
    <2> SUFFICES ASSUME NEW i \in 1 .. Cardinality(S), NEW j \in 1 .. Cardinality(S), i < j
                 PROVE  Nth(S, i) < Nth(S, j)
      OBVIOUS
    <2>1. Nth(S, i) \in Nat /\ Nth(S, j) \in Nat /\ Nth(S, i) \in S /\ Nth(S, j) \in S
      BY <1>8
    <2>2. Nth(S, i) # Nth(S, j)
      BY <1>1, <1>8
    <2>3. ~(Nth(S, j) < Nth(S, i))
      BY <1>1, <1>3, <1>8, <2>1
    <2> QED BY <2>1, <2>2, <2>3
  <1>10. \A n \in S : \E k \in 1 .. Cardinality(S) : Nth(S, k) = n
    <2> SUFFICES ASSUME NEW n \in S PROVE \E k \in 1 .. Cardinality(S) : Nth(S, k) = n
      OBVIOUS
    <2>1. Cardinality(below(n)) + 1 \in 1 .. Cardinality(S)
          /\ (Cardinality(below(n)) + 1) - 1 = Cardinality(below(n))
      BY <1>1, <1>2
    <2>2. Nth(S, Cardinality(below(n)) + 1) = n
      BY <1>4, <1>8, <2>1
    <2> QED BY <2>1, <2>2
  <1> QED BY <1>1, <1>8, <1>9, <1>10 DEF InOrder, Enumerates

LEMMA LeastNumber ==
    ASSUME NEW T \in SUBSET Nat, T # {}
    PROVE  \E n \in T : \A m \in T : n <= m
  <1> DEFINE R == OpToRel(<, Nat)
  <1>1. IsWellFoundedOn(R, Nat)
    BY NatLessThanWellFounded
  <1>2. \A m, n \in Nat : m < n => <<m, n>> \in R
    BY DEF OpToRel
  <1> HIDE DEF R
  <1>3. PICK n \in T : \A m \in T : ~(<<m, n>> \in R)
    BY <1>1, WFMin
  <1>4. \A m \in T : n <= m
    <2> SUFFICES ASSUME NEW m \in T PROVE n <= m
      OBVIOUS
    <2>1. m \in Nat /\ n \in Nat
      OBVIOUS
    <2>2. ~(m < n)
      BY <1>2, <1>3, <2>1
    <2> QED BY <2>1, <2>2
  <1> QED BY <1>4

\* There is only one increasing enumeration.
LEMMA OneEnumeration ==
    ASSUME NEW S \in SUBSET Nat, IsFiniteSet(S), NEW s, NEW t, Enumerates(s, S), Enumerates(t, S)
    PROVE  s = t
  <1> DEFINE D == 1 .. Cardinality(S)
             T == {i \in D : s[i] # t[i]}
  <1>1. Cardinality(S) \in Nat
    BY FS_CardinalityType
  <1>2. /\ s \in [D -> S] /\ t \in [D -> S]
        /\ \A i, j \in D : i < j => s[i] < s[j] /\ t[i] < t[j]
        /\ \A n \in S : (\E i \in D : s[i] = n) /\ (\E i \in D : t[i] = n)
    BY DEF Enumerates
  <1>3. CASE T = {}
    <2>1. \A i \in D : s[i] = t[i]
      BY <1>3
    <2> HIDE DEF D, T
    <2> QED BY <1>2, <2>1
  <1>4. CASE T # {}
    <2>1. T \in SUBSET Nat
      BY <1>1
    <2>2. PICK k \in T : \A m \in T : k <= m
      BY <1>4, <2>1, LeastNumber
    <2>3. k \in D /\ s[k] \in S /\ t[k] \in S /\ s[k] # t[k]
      BY <1>2
    <2>4. \A i \in D : i < k => s[i] = t[i]
      BY <1>1, <2>2
    <2>5. PICK i \in D : t[i] = s[k]
      BY <1>2, <2>3
    <2>6. PICK j \in D : s[j] = t[k]
      BY <1>2, <2>3
    <2>7. \A x \in D : s[x] \in Nat /\ t[x] \in Nat /\ x \in Nat
      <3>1. \A x \in D : x \in Nat
        BY <1>1
      <3>2. \A x \in D : s[x] \in S /\ t[x] \in S
        BY <1>2
      <3> QED BY <3>1, <3>2
    <2> HIDE DEF T, D
    <2>8. ~(i < k) /\ ~(j < k)
      BY <1>2, <2>3, <2>4, <2>5, <2>6, <2>7
    <2>9. i # k /\ j # k
      BY <2>3, <2>5, <2>6
    <2>10. k < i /\ k < j
      BY <2>3, <2>7, <2>8, <2>9
    <2>11. t[k] < s[k] /\ s[k] < t[k]
      BY <1>2, <2>3, <2>5, <2>6, <2>10
    <2> QED BY <2>3, <2>7, <2>11
  <1> QED BY <1>3, <1>4

(* Lists in an order of preference: R holds the pairs of which the first   *)
(* member is preferred.                                                    *)

Lists(s, S, R) ==
    /\ s \in Seq(S)
    /\ \A x \in S : \E k \in 1 .. Len(s) : s[k] = x
    /\ \A k \in 1 .. Len(s), x \in S : <<x, s[k]>> \in R => \E m \in 1 .. k - 1 : s[m] = x

LEMMA InOrderLists ==
    ASSUME NEW S \in SUBSET Nat, IsFiniteSet(S), NEW R,
           \A x, y \in S : <<x, y>> \in R => x < y
    PROVE  Lists(InOrder(S), S, R)
  <1> DEFINE s == InOrder(S)
             c == Cardinality(S)
  <1>1. /\ c \in Nat /\ s \in [1 .. c -> S]
        /\ \A i, j \in 1 .. c : i < j => s[i] < s[j]
        /\ \A x \in S : \E k \in 1 .. c : s[k] = x
    BY InOrderEnumerates DEF Enumerates
  <1> HIDE DEF s, c
  <1>2. s \in Seq(S) /\ Len(s) = c
    BY <1>1
  <1>3. ASSUME NEW k \in 1 .. c, NEW x \in S, <<x, s[k]>> \in R
        PROVE  \E m \in 1 .. k - 1 : s[m] = x
    <2>1. PICK m \in 1 .. c : s[m] = x
      BY <1>1
    <2>2. s[k] \in S /\ s[m] < s[k]
      BY <1>1, <1>3, <2>1
    <2>3. s[m] \in Nat /\ s[k] \in Nat
      BY <1>1
    <2>4. m # k /\ ~(k < m)
      BY <1>1, <2>2, <2>3
    <2>5. m \in 1 .. k - 1
      BY <1>1, <2>4
    <2> QED BY <2>1, <2>5
  <1>4. \A k \in 1 .. c, x \in S : <<x, s[k]>> \in R => \E m \in 1 .. k - 1 : s[m] = x
    BY <1>3
  <1>5. Lists(s, S, R)
    BY <1>1, <1>2, <1>4 DEF Lists
  <1> QED BY <1>5 DEF s

LEMMA ConcatenationLists ==
    ASSUME NEW S, NEW T, NEW R, NEW s, NEW t, Lists(s, S, R), Lists(t, T, R),
           \A x \in T, y \in S : <<x, y>> \notin R
    PROVE  Lists(s \o t, S \cup T, R)
  <1> DEFINE st == s \o t
             m == Len(s)
             n == Len(t)
  <1>1. /\ s \in Seq(S) /\ t \in Seq(T) /\ m \in Nat /\ n \in Nat
        /\ \A i \in 1 .. m : s[i] \in S
        /\ \A i \in 1 .. n : t[i] \in T
    BY DEF Lists
  <1>2. /\ Len(st) = m + n /\ st \in Seq(S \cup T)
        /\ \A i \in 1 .. m : st[i] = s[i]
        /\ \A i \in 1 .. n : st[m + i] = t[i]
    <2>1. s \in Seq(S \cup T) /\ t \in Seq(S \cup T)
      BY <1>1
    <2> QED BY <1>1, <2>1
  <1> HIDE DEF st, m, n
  <1>3. \A i \in 1 .. m + n : i \in 1 .. m \/ (i - m \in 1 .. n /\ i = m + (i - m))
    BY <1>1
  <1>4. \A i \in 1 .. m : i \in 1 .. m + n
    BY <1>1
  <1>5. \A i \in 1 .. n : m + i \in 1 .. m + n
    BY <1>1
  <1>6. \A x \in S \cup T : \E k \in 1 .. m + n : st[k] = x
    <2>1. ASSUME NEW x \in S PROVE \E k \in 1 .. m + n : st[k] = x
      <3>1. PICK k \in 1 .. m : s[k] = x
        BY DEF Lists, m
      <3> QED BY <1>2, <1>4, <3>1
    <2>2. ASSUME NEW x \in T PROVE \E k \in 1 .. m + n : st[k] = x
      <3>1. PICK k \in 1 .. n : t[k] = x
        BY DEF Lists, n
      <3> QED BY <1>2, <1>5, <3>1
    <2> QED BY <2>1, <2>2
  <1>7. ASSUME NEW k \in 1 .. m + n, NEW x \in S \cup T, <<x, st[k]>> \in R
        PROVE  \E j \in 1 .. k - 1 : st[j] = x
    <2>1. CASE k \in 1 .. m
      <3>1. st[k] = s[k] /\ s[k] \in S
        BY <1>1, <1>2, <2>1
      <3>2. x \in S
        BY <1>7, <3>1
      <3>3. PICK j \in 1 .. k - 1 : s[j] = x
        BY <1>7, <2>1, <3>1, <3>2 DEF Lists, m
      <3>4. j \in 1 .. m
        BY <1>1, <2>1
      <3> QED BY <1>2, <3>3, <3>4
    <2>2. CASE k \notin 1 .. m
      <3>1. k - m \in 1 .. n /\ st[k] = t[k - m] /\ k > m
        BY <1>1, <1>2, <1>3, <2>2
      <3>2. CASE x \in S
        <4>1. PICK j \in 1 .. m : s[j] = x
          BY <3>2 DEF Lists, m
        <4>2. j \in 1 .. k - 1
          BY <1>1, <3>1
        <4> QED BY <1>2, <4>1, <4>2
      <3>3. CASE x \in T
        <4>1. PICK j \in 1 .. (k - m) - 1 : t[j] = x
          BY <1>7, <3>1, <3>3 DEF Lists, n
        <4>2. j \in 1 .. n /\ m + j \in 1 .. k - 1
          BY <1>1, <3>1
        <4> QED BY <1>2, <4>1, <4>2
      <3> QED BY <3>2, <3>3
    <2> QED BY <2>1, <2>2
  <1>8. Len(st) = m + n /\ st \in Seq(S \cup T)
    BY <1>2
  <1>9. Lists(st, S \cup T, R)
    BY <1>6, <1>7, <1>8 DEF Lists
  <1> QED BY <1>9 DEF st

\* CaptionSearch has its own instance of Selection.
LEMMA SameOrder == \A S : Captions!InOrder(S) = InOrder(S)
  <1>1. \A S : Captions!Cardinality(S) = Cardinality(S)
    BY DEF Captions!Cardinality, Cardinality
  <1>2. \A S, k : Captions!Nth(S, k) = Nth(S, k)
    BY <1>1 DEF Captions!Nth, Nth
  <1> QED BY <1>1, <1>2 DEF Captions!InOrder, InOrder

Usable(list) == {i \in 1 .. Len(list) : list[i].language \in {"declared", "primary"}}

PreferredIn(list, i, j) ==
    \/ list[i].language = "declared" /\ list[j].language = "primary"
    \/ list[i].language = list[j].language /\ ~list[i].generated /\ list[j].generated
    \/ list[i] = list[j] /\ i < j

Preferences(list) ==
    {p \in (1 .. Len(list)) \X (1 .. Len(list)) : PreferredIn(list, p[1], p[2])}

\* The four buckets, one after the other, list the usable tracks with
\* preferred ones first.
LEMMA RankingLists ==
    ASSUME NEW list \in Seq(Captions!Track)
    PROVE  Lists(Captions!RankCaptionTracks(list), Usable(list), Preferences(list))
  <1> DEFINE n == Len(list)
             T(language, generated) ==
               {i \in 1 .. n : list[i].language = language /\ list[i].generated = generated}
             B(language, generated) == Captions!Bucket(list, language, generated)
             R == Preferences(list)
  <1>1. n \in Nat
    OBVIOUS
  <1>2. \A x, y \in 1 .. n : <<x, y>> \in R <=> PreferredIn(list, x, y)
    BY DEF Preferences
  <1>3. \A i \in 1 .. n : list[i].generated \in BOOLEAN
    <2>1. \A r \in Captions!Track : r.generated \in BOOLEAN
      BY DEF Captions!Track
    <2>2. \A i \in 1 .. n : list[i] \in Captions!Track
      BY <1>1
    <2> QED BY <2>1, <2>2
  <1> HIDE DEF R
  <1>4. ASSUME NEW language, NEW generated
        PROVE  Lists(B(language, generated), T(language, generated), R)
    <2>1. T(language, generated) \in SUBSET Nat /\ IsFiniteSet(T(language, generated))
      <3>1. IsFiniteSet(1 .. n)
        BY <1>1, FS_Interval
      <3>2. T(language, generated) \in SUBSET (1 .. n) /\ 1 .. n \subseteq Nat
        BY <1>1
      <3> QED BY <3>1, <3>2, FS_Subset
    <2>2. \A x, y \in T(language, generated) : PreferredIn(list, x, y) => x < y
      BY DEF PreferredIn
    <2>3. \A x, y \in T(language, generated) : <<x, y>> \in R => x < y
      BY <1>2, <2>2
    <2>4. B(language, generated) = InOrder(T(language, generated))
      BY SameOrder DEF Captions!Bucket
    <2> HIDE DEF T, B
    <2> QED BY <2>1, <2>3, <2>4, InOrderLists
  <1> DEFINE D0 == T("declared", FALSE)
             D1 == T("declared", TRUE)
             P0 == T("primary", FALSE)
             P1 == T("primary", TRUE)
  <1>5. \A x, y \in 1 .. n : PreferredIn(list, x, y) =>
          \/ list[x].language = "declared" /\ list[y].language = "primary"
          \/ list[x].language = list[y].language /\ ~list[x].generated /\ list[y].generated
          \/ list[x].language = list[y].language /\ list[x].generated = list[y].generated
    BY DEF PreferredIn
  <1>6. /\ \A x \in D1, y \in D0 : ~PreferredIn(list, x, y)
        /\ \A x \in P0, y \in D0 \cup D1 : ~PreferredIn(list, x, y)
        /\ \A x \in P1, y \in (D0 \cup D1) \cup P0 : ~PreferredIn(list, x, y)
    BY <1>5
  <1>7. /\ D0 \subseteq 1 .. n /\ D1 \subseteq 1 .. n
        /\ P0 \subseteq 1 .. n /\ P1 \subseteq 1 .. n
    OBVIOUS
  <1>8. ((D0 \cup D1) \cup P0) \cup P1 = Usable(list)
    BY <1>3 DEF Usable
  <1>9. /\ Lists(B("declared", FALSE), D0, R) /\ Lists(B("declared", TRUE), D1, R)
        /\ Lists(B("primary", FALSE), P0, R) /\ Lists(B("primary", TRUE), P1, R)
    BY <1>4
  <1>10. Captions!RankCaptionTracks(list) =
           ((B("declared", FALSE) \o B("declared", TRUE)) \o B("primary", FALSE)) \o B("primary", TRUE)
    BY DEF Captions!RankCaptionTracks
  <1> HIDE DEF D0, D1, P0, P1, T, B
  <1>11. Lists(B("declared", FALSE) \o B("declared", TRUE), D0 \cup D1, R)
    <2>1. \A x \in D1, y \in D0 : <<x, y>> \notin R
      BY <1>2, <1>6, <1>7
    <2> QED BY <1>9, <2>1, ConcatenationLists
  <1>12. Lists((B("declared", FALSE) \o B("declared", TRUE)) \o B("primary", FALSE),
               (D0 \cup D1) \cup P0, R)
    <2>1. \A x \in P0, y \in D0 \cup D1 : <<x, y>> \notin R
      BY <1>2, <1>6, <1>7
    <2> QED BY <1>9, <1>11, <2>1, ConcatenationLists
  <1>13. Lists(((B("declared", FALSE) \o B("declared", TRUE)) \o B("primary", FALSE)) \o B("primary", TRUE),
               ((D0 \cup D1) \cup P0) \cup P1, R)
    <2>1. \A x \in P1, y \in (D0 \cup D1) \cup P0 : <<x, y>> \notin R
      BY <1>2, <1>6, <1>7
    <2> QED BY <1>9, <1>12, <2>1, ConcatenationLists
  <1> QED BY <1>8, <1>10, <1>13 DEF R

-----------------------------------------------------------------------------
Stages ==
    {"submitted", "metadata", "captions", "acquire", "validate", "audio", "native", "publish", "ended"}
Works == {"none", "extract", "prepare", "duration", "probe", "download", "returned", "raised"}
Calls == {"idle", "check", "begin", "running", "last check", "final check", "over"}
Searches == {"idle", "begin", "list", "check", "fetch", "over"}

ControlTypeOK ==
    stage \in Stages /\ work \in Works /\ call \in Calls /\ search \in Searches

Info == [kind : Kinds \cup {"none"}, size : Nat, halves : Halves]
File == [bytes : Nat, halves : Halves]
DataTypeOK == info \in Info /\ file \in File

EventTypeOK ==
    /\ stuck \in BOOLEAN /\ requested \in BOOLEAN /\ timedOut \in BOOLEAN
    /\ cancelled \in BOOLEAN /\ expired \in BOOLEAN

ThreadInv ==
    /\ work \in {"extract", "prepare", "duration", "probe"} => stage = "metadata"
    /\ work = "download" => stage = "audio"
    /\ work # "none" <=> stage \in {"metadata", "audio"}
    /\ call # "idle" => work \in {"extract", "duration", "download"}
    /\ search # "idle" => stage = "captions"
    /\ outcome # "none" => stage = "ended"

CancelInv ==
    /\ stage \in {"submitted", "acquire"} => ~cancelled
    /\ stage \in {"captions", "validate", "native"} => (cancelled => requested)
    /\ stage \in {"metadata", "audio"} => (cancelled => requested \/ timedOut)

Empty(D) == "inspection" \notin D /\ "request" \notin D

DirsInv ==
    /\ dirs \subseteq {"inspection", "request"}
    /\ "inspection" \in dirs => "request" \notin dirs
    /\ stage = "submitted" \/ work \in {"extract", "prepare"} => Empty(dirs)
    /\ stage \in {"metadata", "captions", "acquire"} => "request" \notin dirs
    /\ stage = "validate" => "inspection" \in dirs
    /\ stage = "audio" => "request" \in dirs
    /\ ~stuck /\ stage = "metadata" /\ work = "raised" => Empty(dirs)
    /\ ~stuck /\ stage \in {"publish", "ended"} => Empty(dirs)

WithinLimits == file.bytes \in 1 .. MaxMediaBytes /\ file.halves <= 2 * MaxDuration

MediaInv ==
    /\ work = "probe" => WithinLimits
    /\ stage \in {"metadata", "captions", "acquire", "validate"} /\ work \in {"none", "returned"}
         /\ "inspection" \in dirs => WithinLimits
    /\ stage = "audio" /\ work = "returned" => WithinLimits
    /\ stage = "native" => WithinLimits
    /\ stage \in {"captions", "acquire", "validate", "audio", "native", "publish"} =>
         duration \in 1 .. MaxDuration

LateInv ==
    /\ late \in {0, 1}
    /\ late = 1 /\ stage \in {"metadata", "audio"} =>
         /\ cancelled \/ expired
         /\ \/ call \in {"check", "running", "last check", "final check"}
            \/ call = "over" /\ answer # "info"
            \/ work = "raised"
    /\ late = 1 /\ stage = "captions" => cancelled /\ search \in {"check", "over"}
    /\ late = 1 => stage \in {"metadata", "audio", "captions", "ended"}
    /\ late = 1 => outcome # "succeeded"

CoreInv ==
    /\ ControlTypeOK /\ DataTypeOK /\ EventTypeOK
    /\ ThreadInv /\ CancelInv /\ DirsInv /\ MediaInv /\ LateInv

LEMMA DataFacts ==
    /\ \A halves \in Halves : halves \in Nat
    /\ 0 \in Halves
    /\ \A size \in Sizes : size \in Nat
    /\ \A bytes \in FileSizes : bytes \in Nat \ {0}
    /\ NoInfo \in Info /\ NoFile \in File
    /\ NoInfo.halves = 0 /\ NoFile.halves = 0
  BY LimitsAssumption DEF Halves, Sizes, FileSizes, Info, File, NoInfo, NoFile

LEMMA RecordFacts ==
    /\ \A size, other \in Sizes : SelectedSize(size, other) \in Nat
    /\ \A kind \in Kinds, size \in Nat, halves \in Halves :
         [kind |-> kind, size |-> size, halves |-> halves] \in Info
    /\ \A bytes \in Nat, halves \in Halves : [bytes |-> bytes, halves |-> halves] \in File
    /\ \A i \in Info, halves \in Halves :
         [i EXCEPT !.halves = halves] \in Info
    /\ \A f \in File, halves \in Halves :
         /\ [f EXCEPT !.halves = halves] \in File
         /\ [f EXCEPT !.halves = halves].bytes = f.bytes
         /\ [f EXCEPT !.halves = halves].halves = halves
    /\ \A f \in File : f.bytes \in Nat /\ f.halves \in Halves
    /\ \A i \in Info : i.halves \in Halves
  BY DataFacts DEF Info, File, SelectedSize

LEMMA SecondsFacts ==
    \A halves \in Nat :
      /\ WholeSeconds(halves) \in Nat
      /\ halves # 0 => WholeSeconds(halves) > 0
      /\ halves <= 2 * MaxDuration => WholeSeconds(halves) <= MaxDuration
  BY LimitsAssumption DEF WholeSeconds

ThreadReturns == ExtractReturns \/ PrepareDirectory \/ DurationReturns \/ Probe \/ DownloadReturns
EventStep == TimesOut \/ RequestCancellation \/ DeadlinePasses

\* A step of the retry loop changes where the loop is, and late.
LEMMA RetrievalKeeps == CoreInv /\ RetrievalStep => CoreInv'
  <1> SUFFICES ASSUME CoreInv, RetrievalStep PROVE CoreInv'
    OBVIOUS
  <1> USE DEF CoreInv, job, thread, disk, searchVars
  <1>1. UNCHANGED job /\ UNCHANGED thread /\ UNCHANGED disk /\ UNCHANGED searchVars
    BY DEF RetrievalStep, Retrieval!RetryStep, Retrieval!CheckAttempt,
      Retrieval!BeginCall, Retrieval!HookCancels, Retrieval!HookStopsOversized,
      Retrieval!FilterStopsTooLong, Retrieval!CallFails, Retrieval!LastCheck,
      Retrieval!CallReturns, Retrieval!FinalCheck
  <1>2. cancelled' = cancelled /\ expired' = expired
    BY DEF RetrievalStep, Retrieval!RetryStep, Retrieval!CheckAttempt,
      Retrieval!BeginCall, Retrieval!HookCancels, Retrieval!HookStopsOversized,
      Retrieval!FilterStopsTooLong, Retrieval!CallFails, Retrieval!LastCheck,
      Retrieval!CallReturns, Retrieval!FinalCheck
  <1>3. DataTypeOK' /\ EventTypeOK' /\ CancelInv' /\ DirsInv' /\ MediaInv'
    BY <1>1, <1>2 DEF DataTypeOK, EventTypeOK, CancelInv, DirsInv, MediaInv, WithinLimits
  <1>4. call # "idle" /\ call' \in Calls
    BY DEF RetrievalStep, Retrieval!RetryStep, Calls, Retrieval!Return, Retrieval!GoOn,
      Retrieval!CheckAttempt, Retrieval!BeginCall, Retrieval!HookCancels,
      Retrieval!HookStopsOversized, Retrieval!FilterStopsTooLong, Retrieval!CallFails,
      Retrieval!LastCheck, Retrieval!CallReturns, Retrieval!FinalCheck
  <1>5. ControlTypeOK' /\ ThreadInv'
    BY <1>1, <1>4 DEF ControlTypeOK, ThreadInv
  <1>6. LateInv'
    <2> USE <1>1, <1>5 DEF LateInv, CancelInv, EventTypeOK, ThreadInv, 
          Retrieval!Return, Retrieval!GoOn, Retrieval!Stopped
    <2>1. CASE Retrieval!CheckAttempt
      BY <2>1 DEF Retrieval!CheckAttempt, Retrieval!StopReason
    <2>2. CASE Retrieval!BeginCall
      BY <2>2 DEF Retrieval!BeginCall, Retrieval!LateCall
    <2>3. CASE Retrieval!HookCancels
      BY <2>3 DEF Retrieval!HookCancels
    <2>4. CASE Retrieval!HookStopsOversized
      BY <2>4 DEF Retrieval!HookStopsOversized
    <2>5. CASE Retrieval!FilterStopsTooLong
      BY <2>5 DEF Retrieval!FilterStopsTooLong
    <2>6. CASE Retrieval!CallFails
      BY <2>6 DEF Retrieval!CallFails
    <2>7. CASE Retrieval!LastCheck
      BY <2>7 DEF Retrieval!LastCheck, Retrieval!StopReason, Retrieval!Faults
    <2>8. CASE Retrieval!CallReturns
      BY <2>8 DEF Retrieval!CallReturns
    <2>9. CASE Retrieval!FinalCheck
      BY <2>9 DEF Retrieval!FinalCheck, Retrieval!StopReason
    <2> QED BY <2>1, <2>2, <2>3, <2>4, <2>5, <2>6, <2>7, <2>8, <2>9
      DEF RetrievalStep, Retrieval!RetryStep
  <1> QED BY <1>3, <1>5, <1>6

\* A step of the caption search changes the search and late.
LEMMA CaptionsKeep == CoreInv /\ CaptionStep => CoreInv'
  <1> SUFFICES ASSUME CoreInv, CaptionStep PROVE CoreInv'
    OBVIOUS
  <1> USE DEF CoreInv, job, thread, disk, loopVars
  <1>1. UNCHANGED job /\ UNCHANGED thread /\ UNCHANGED disk /\ UNCHANGED loopVars
    BY DEF CaptionStep, Captions!SearchStep, Captions!CheckDeclaration,
      Captions!ListTracks, Captions!CheckCandidate, Captions!CandidateFetched,
      Captions!CandidateFailed, Captions!CandidateTimesOut
  <1>2. cancelled' = cancelled /\ expired' = expired
    BY DEF CaptionStep, Captions!SearchStep, Captions!CheckDeclaration,
      Captions!ListTracks, Captions!CheckCandidate, Captions!CandidateFetched,
      Captions!CandidateFailed, Captions!CandidateTimesOut
  <1>3. DataTypeOK' /\ EventTypeOK' /\ CancelInv' /\ DirsInv' /\ MediaInv'
    BY <1>1, <1>2 DEF DataTypeOK, EventTypeOK, CancelInv, DirsInv, MediaInv, WithinLimits
  <1>4. search # "idle" /\ search' \in Searches
    BY DEF CaptionStep, Captions!SearchStep, Searches, Captions!Return, Captions!GoOn,
      Captions!NextCandidate, Captions!CheckDeclaration, Captions!ListTracks,
      Captions!CheckCandidate, Captions!CandidateFetched, Captions!CandidateFailed,
      Captions!CandidateTimesOut
  <1>5. ControlTypeOK' /\ ThreadInv'
    BY <1>1, <1>4 DEF ControlTypeOK, ThreadInv
  <1>6. LateInv'
    <2> USE <1>1, <1>5 DEF LateInv, CancelInv, EventTypeOK, ThreadInv, Captions!Return, Captions!GoOn, Captions!LateCall
    <2>1. CASE Captions!CheckDeclaration
      BY <2>1 DEF Captions!CheckDeclaration
    <2>2. CASE Captions!ListTracks
      BY <2>2 DEF Captions!ListTracks
    <2>3. CASE Captions!CheckCandidate
      BY <2>3 DEF Captions!CheckCandidate
    <2>4. CASE Captions!CandidateFetched
      BY <2>4 DEF Captions!CandidateFetched, Captions!NextCandidate
    <2>5. CASE Captions!CandidateFailed
      BY <2>5 DEF Captions!CandidateFailed, Captions!NextCandidate
    <2>6. CASE Captions!CandidateTimesOut
      BY <2>6 DEF Captions!CandidateTimesOut
    <2> QED BY <2>1, <2>2, <2>3, <2>4, <2>5, <2>6
      DEF CaptionStep, Captions!SearchStep
  <1> QED BY <1>3, <1>5, <1>6

-----------------------------------------------------------------------------
(* What the actions do to metadata and audio. *)

LEMMA ExtractMoves ==
    ASSUME DataTypeOK, ExtractReturns
    PROVE  DataTypeOK' /\ file' = file /\ work' \in {"prepare", "returned", "raised"}
  <1>1. info' \in Info
    <2>1. CASE info' = info
      BY <2>1 DEF DataTypeOK
    <2>2. CASE info' # info
      <3>1. PICK filesize \in Sizes, approximate \in Sizes, kind \in Kinds, halves \in Halves :
               info' = [kind |-> kind, size |-> SelectedSize(filesize, approximate), halves |-> halves]
        BY <2>2 DEF ExtractReturns, Raise
      <3>2. SelectedSize(filesize, approximate) \in Nat
        BY RecordFacts
      <3> QED BY <3>1, <3>2, RecordFacts
    <2> QED BY <2>1, <2>2
  <1>2. file' = file /\ work' \in {"prepare", "returned", "raised"}
    BY DEF ExtractReturns, Raise
  <1> QED BY <1>1, <1>2 DEF DataTypeOK

LEMMA DurationMoves ==
    ASSUME DataTypeOK, DurationReturns
    PROVE  DataTypeOK' /\ work' \in {"probe", "raised"} /\ (work' = "probe" => WithinLimits')
  <1>1. CASE work' = "raised" /\ UNCHANGED <<info, file>>
    BY <1>1 DEF DataTypeOK
  <1>2. CASE ~(work' = "raised" /\ UNCHANGED <<info, file>>)
    <2>1. PICK kind \in Kinds, size \in Sizes, bytes \in FileSizes :
             /\ ~(bytes > MaxMediaBytes) /\ work' = "probe"
             /\ info' = [kind |-> kind, size |-> size, halves |-> 0]
             /\ file' = [bytes |-> bytes, halves |-> 0]
      BY <1>2 DEF DurationReturns, FailInspection, Raise
    <2>2. bytes \in 1 .. MaxMediaBytes
      BY <2>1, DataFacts, LimitsAssumption
    <2>3. DataTypeOK'
      BY <2>1, DataFacts, RecordFacts DEF DataTypeOK
    <2>4. WithinLimits'
      BY <2>1, <2>2, LimitsAssumption DEF WithinLimits
    <2> QED BY <2>1, <2>3, <2>4
  <1> QED BY <1>1, <1>2

LEMMA ProbeMoves ==
    ASSUME DataTypeOK, WithinLimits, Probe
    PROVE  DataTypeOK' /\ work' \in {"returned", "raised"} /\ (work' = "returned" => WithinLimits')
  <1>1. CASE work' = "raised" /\ info' = NoInfo /\ file' = NoFile
    BY <1>1, DataFacts DEF DataTypeOK
  <1>2. CASE ~(work' = "raised" /\ info' = NoInfo /\ file' = NoFile)
    <2>1. PICK halves \in Halves :
             /\ ~(halves > 2 * MaxDuration) /\ work' = "returned"
             /\ info' = [info EXCEPT !.halves = halves]
             /\ file' = [file EXCEPT !.halves = halves]
      BY <1>2 DEF Probe, FailInspection, Raise
    <2>2. halves <= 2 * MaxDuration
      BY <2>1, DataFacts, LimitsAssumption
    <2>3. DataTypeOK'
      BY <2>1, DataFacts, RecordFacts DEF DataTypeOK
    <2>4. WithinLimits'
      BY <2>1, <2>2, RecordFacts DEF WithinLimits, DataTypeOK
    <2> QED BY <2>1, <2>3, <2>4
  <1> QED BY <1>1, <1>2

LEMMA DownloadMoves ==
    ASSUME DataTypeOK, DownloadReturns
    PROVE  DataTypeOK' /\ work' \in {"returned", "raised"} /\ (work' = "returned" => WithinLimits')
  <1>1. CASE work' = "raised" /\ file' = file
    BY <1>1 DEF DataTypeOK, DownloadReturns
  <1>2. CASE ~(work' = "raised" /\ file' = file)
    <2>1. PICK bytes \in FileSizes :
             /\ bytes <= MaxMediaBytes /\ work' = "returned"
             /\ file' = [bytes |-> bytes, halves |-> 0]
      BY <1>2 DEF DownloadReturns, Raise, AudioPathValid
    <2>2. bytes \in 1 .. MaxMediaBytes
      BY <2>1, DataFacts, LimitsAssumption
    <2>3. DataTypeOK'
      BY <2>1, DataFacts, RecordFacts DEF DataTypeOK, DownloadReturns
    <2>4. WithinLimits'
      BY <2>1, <2>2, LimitsAssumption DEF WithinLimits
    <2> QED BY <2>1, <2>3, <2>4
  <1> QED BY <1>1, <1>2

LEMMA AdmissionFacts ==
    ASSUME NEW canonical, info.halves \in Nat, AdmissionError(canonical) = "none"
    PROVE  WholeSeconds(info.halves) \in 1 .. MaxDuration
  <1>1. info.halves # 0 /\ ~(WholeSeconds(info.halves) > MaxDuration)
    BY DEF AdmissionError
  <1> QED BY <1>1, SecondsFacts, LimitsAssumption

LEMMA MetadataMoves ==
    ASSUME DataTypeOK, MetadataReturns
    PROVE  \/ stage' = "ended" /\ file' = NoFile
           \/ /\ stage' \in {"captions", "acquire"} /\ work' = "none"
              /\ duration' \in 1 .. MaxDuration
              /\ UNCHANGED <<file, dirs>>
  <1>1. PICK page \in Pages :
          LET canonical == CanonicalUrl([platform |-> platform], page)
          IN  \/ AdmissionError(canonical) # "none" /\ Leave(AdmissionError(canonical))
              \/ /\ AdmissionError(canonical) = "none"
                 /\ duration' = WholeSeconds(info.halves)
                 /\ stage' \in {"captions", "acquire"} /\ work' = "none" /\ UNCHANGED <<file, dirs>>
    BY DEF MetadataReturns, ThreadIdle, disk
  <1>2. info.halves \in Nat
    BY DataFacts, RecordFacts DEF DataTypeOK
  <1>3. CASE AdmissionError(CanonicalUrl([platform |-> platform], page)) = "none"
    BY <1>1, <1>2, <1>3, AdmissionFacts
  <1>4. CASE AdmissionError(CanonicalUrl([platform |-> platform], page)) # "none"
    BY <1>1, <1>4 DEF Leave
  <1> QED BY <1>3, <1>4


-----------------------------------------------------------------------------

\* What the threads' own functions do around a retrieval.
LEMMA ThreadKeeps == CoreInv /\ ThreadReturns => CoreInv'
  <1> SUFFICES ASSUME CoreInv, ThreadReturns PROVE CoreInv'
    OBVIOUS
  <1> USE LimitsAssumption DEF CoreInv, vars, job, thread, disk, events, loopVars, searchVars,
        Retrieval!Begin, Retrieval!Reset
  <1>1. CASE ExtractReturns
    <2>1. ControlTypeOK'
      BY <1>1 DEF ExtractReturns, Raise, ControlTypeOK, EventTypeOK, ThreadInv,
        Retrieval!Stopped, Stages, Works, Calls, Searches
    <2>2. DataTypeOK'
      BY <1>1, ExtractMoves
    <2>3. EventTypeOK'
      BY <1>1 DEF ExtractReturns, Raise, ControlTypeOK, EventTypeOK, ThreadInv,
        Retrieval!Stopped
    <2>4. ThreadInv'
      BY <1>1 DEF ExtractReturns, Raise, ControlTypeOK, EventTypeOK, ThreadInv,
        Retrieval!Stopped
    <2>5. CancelInv'
      BY <1>1 DEF ExtractReturns, Raise, ControlTypeOK, EventTypeOK, ThreadInv,
        CancelInv, Retrieval!Stopped
    <2>6. DirsInv'
      BY <1>1 DEF ExtractReturns, Raise, ControlTypeOK, EventTypeOK, ThreadInv,
        DirsInv, Retrieval!Stopped, Empty
    <2>7. MediaInv'
      BY <1>1, ExtractMoves DEF ExtractReturns, ThreadInv, MediaInv, DirsInv, Empty,
        WithinLimits
    <2>8. LateInv'
      BY <1>1 DEF ExtractReturns, Raise, ControlTypeOK, EventTypeOK, ThreadInv,
        LateInv, Retrieval!Stopped, CancelInv, Retrieval!StopReason
    <2> QED BY <2>1, <2>2, <2>3, <2>4, <2>5, <2>6, <2>7, <2>8
  <1>2. CASE PrepareDirectory
    <2>1. ControlTypeOK'
      BY <1>2 DEF PrepareDirectory, Raise, ControlTypeOK, EventTypeOK, ThreadInv,
        Retrieval!Stopped, Stages, Works, Calls, Searches
    <2>2. DataTypeOK'
      BY <1>2, DataFacts, RecordFacts DEF PrepareDirectory, Raise, ControlTypeOK,
        EventTypeOK, ThreadInv, DataTypeOK
    <2>3. EventTypeOK'
      BY <1>2 DEF PrepareDirectory, Raise, ControlTypeOK, EventTypeOK, ThreadInv,
        Retrieval!Stopped
    <2>4. ThreadInv'
      BY <1>2 DEF PrepareDirectory, Raise, ControlTypeOK, EventTypeOK, ThreadInv,
        Retrieval!Stopped
    <2>5. CancelInv'
      BY <1>2 DEF PrepareDirectory, Raise, ControlTypeOK, EventTypeOK, ThreadInv,
        CancelInv, Retrieval!Stopped
    <2>6. DirsInv'
      BY <1>2 DEF PrepareDirectory, Raise, ControlTypeOK, EventTypeOK, ThreadInv,
        DirsInv, Retrieval!Stopped, Empty
    <2>7. MediaInv'
      BY <1>2, DataFacts, RecordFacts DEF PrepareDirectory, Raise, ControlTypeOK,
        EventTypeOK, ThreadInv, MediaInv, Retrieval!Stopped, WithinLimits, DataTypeOK,
        DirsInv, Empty
    <2>8. LateInv'
      BY <1>2 DEF PrepareDirectory, Raise, ControlTypeOK, EventTypeOK, ThreadInv,
        LateInv, Retrieval!Stopped, CancelInv
    <2> QED BY <2>1, <2>2, <2>3, <2>4, <2>5, <2>6, <2>7, <2>8
  <1>3. CASE DurationReturns
    <2>1. ControlTypeOK'
      BY <1>3 DEF DurationReturns, Raise, FailInspection, CleanUp, ControlTypeOK,
        EventTypeOK, ThreadInv, Retrieval!Stopped, Stages, Works, Calls, Searches
    <2>2. DataTypeOK'
      BY <1>3, DurationMoves
    <2>3. EventTypeOK'
      BY <1>3 DEF DurationReturns, Raise, FailInspection, CleanUp, ControlTypeOK,
        EventTypeOK, ThreadInv, Retrieval!Stopped
    <2>4. ThreadInv'
      BY <1>3 DEF DurationReturns, Raise, FailInspection, CleanUp, ControlTypeOK,
        EventTypeOK, ThreadInv, Retrieval!Stopped
    <2>5. CancelInv'
      BY <1>3 DEF DurationReturns, Raise, FailInspection, CleanUp, ControlTypeOK,
        EventTypeOK, ThreadInv, CancelInv, Retrieval!Stopped
    <2>6. DirsInv'
      BY <1>3 DEF DurationReturns, Raise, FailInspection, CleanUp, ControlTypeOK,
        EventTypeOK, ThreadInv, DirsInv, Retrieval!Stopped, Empty
    <2>7. MediaInv'
      BY <1>3, DurationMoves DEF DurationReturns, ThreadInv, MediaInv, DirsInv, Empty
    <2>8. LateInv'
      BY <1>3 DEF DurationReturns, Raise, FailInspection, CleanUp, ControlTypeOK,
        EventTypeOK, ThreadInv, LateInv, Retrieval!Stopped, CancelInv
    <2> QED BY <2>1, <2>2, <2>3, <2>4, <2>5, <2>6, <2>7, <2>8
  <1>4. CASE Probe
    <2>1. ControlTypeOK'
      BY <1>4 DEF Probe, Raise, FailInspection, CleanUp, ControlTypeOK, EventTypeOK,
        ThreadInv, Retrieval!Stopped, Stages, Works, Calls, Searches
    <2>2. DataTypeOK'
      BY <1>4, ProbeMoves DEF Probe, MediaInv
    <2>3. EventTypeOK'
      BY <1>4 DEF Probe, Raise, FailInspection, CleanUp, ControlTypeOK, EventTypeOK,
        ThreadInv, Retrieval!Stopped
    <2>4. ThreadInv'
      BY <1>4 DEF Probe, Raise, FailInspection, CleanUp, ControlTypeOK, EventTypeOK,
        ThreadInv, Retrieval!Stopped
    <2>5. CancelInv'
      BY <1>4 DEF Probe, Raise, FailInspection, CleanUp, ControlTypeOK, EventTypeOK,
        ThreadInv, CancelInv, Retrieval!Stopped
    <2>6. DirsInv'
      BY <1>4 DEF Probe, Raise, FailInspection, CleanUp, ControlTypeOK, EventTypeOK,
        ThreadInv, DirsInv, Retrieval!Stopped, Empty
    <2>7. MediaInv'
      BY <1>4, ProbeMoves DEF Probe, ThreadInv, MediaInv, DirsInv, Empty
    <2>8. LateInv'
      BY <1>4 DEF Probe, Raise, FailInspection, CleanUp, ControlTypeOK, EventTypeOK,
        ThreadInv, LateInv, Retrieval!Stopped, CancelInv
    <2> QED BY <2>1, <2>2, <2>3, <2>4, <2>5, <2>6, <2>7, <2>8
  <1>5. CASE DownloadReturns
    <2>1. ControlTypeOK'
      BY <1>5 DEF DownloadReturns, Raise, ControlTypeOK, EventTypeOK, ThreadInv,
        Retrieval!Stopped, Stages, Works, Calls, Searches
    <2>2. DataTypeOK'
      BY <1>5, DownloadMoves
    <2>3. EventTypeOK'
      BY <1>5 DEF DownloadReturns, Raise, ControlTypeOK, EventTypeOK, ThreadInv,
        Retrieval!Stopped
    <2>4. ThreadInv'
      BY <1>5 DEF DownloadReturns, Raise, ControlTypeOK, EventTypeOK, ThreadInv,
        Retrieval!Stopped
    <2>5. CancelInv'
      BY <1>5 DEF DownloadReturns, Raise, ControlTypeOK, EventTypeOK, ThreadInv,
        CancelInv, Retrieval!Stopped
    <2>6. DirsInv'
      BY <1>5 DEF DownloadReturns, Raise, ControlTypeOK, EventTypeOK, ThreadInv,
        DirsInv, Retrieval!Stopped, Empty
    <2>7. MediaInv'
      BY <1>5, DownloadMoves DEF DownloadReturns, ThreadInv, MediaInv, DirsInv, Empty
    <2>8. LateInv'
      BY <1>5 DEF DownloadReturns, Raise, ControlTypeOK, EventTypeOK, ThreadInv,
        LateInv, Retrieval!Stopped, CancelInv
    <2> QED BY <2>1, <2>2, <2>3, <2>4, <2>5, <2>6, <2>7, <2>8
  <1> QED BY <1>1, <1>2, <1>3, <1>4, <1>5 DEF ThreadReturns

\* The coroutine.
LEMMA CoroutineKeeps == CoreInv /\ CoroutineStep => CoreInv'
  <1> SUFFICES ASSUME CoreInv, CoroutineStep PROVE CoreInv'
    OBVIOUS
  <1> USE LimitsAssumption DEF CoreInv, vars, job, thread, disk, events, loopVars, searchVars,
        Retrieval!Begin, Retrieval!Reset,
        Leave, CleanUp, Known, ThreadIdle, NoFile, ControlTypeOK, EventTypeOK, ThreadInv
  <1>1. CASE Classify
    <2>1. ControlTypeOK'
      BY <1>1 DEF Classify, Stages, Works, Calls, Searches
    <2>2. DataTypeOK'
      BY <1>1, DataFacts, RecordFacts DEF Classify, DataTypeOK
    <2>3. EventTypeOK'
      BY <1>1 DEF Classify
    <2>4. ThreadInv'
      BY <1>1 DEF Classify
    <2>5. CancelInv'
      BY <1>1 DEF Classify, CancelInv
    <2>6. DirsInv'
      BY <1>1 DEF Classify, DirsInv, Empty
    <2>7. MediaInv'
      BY <1>1, DataFacts, RecordFacts DEF Classify, MediaInv, WithinLimits,
        DataTypeOK, DirsInv, Empty
    <2>8. LateInv'
      BY <1>1 DEF Classify, LateInv, CancelInv
    <2> QED BY <2>1, <2>2, <2>3, <2>4, <2>5, <2>6, <2>7, <2>8
  <1>2. CASE MetadataFails
    <2>1. ControlTypeOK'
      BY <1>2 DEF MetadataFails, MetadataError, Stages, Works, Calls, Searches
    <2>2. DataTypeOK'
      BY <1>2, DataFacts, RecordFacts DEF MetadataFails, MetadataError, DataTypeOK
    <2>3. EventTypeOK'
      BY <1>2 DEF MetadataFails, MetadataError
    <2>4. ThreadInv'
      BY <1>2 DEF MetadataFails, MetadataError
    <2>5. CancelInv'
      BY <1>2 DEF MetadataFails, MetadataError, CancelInv
    <2>6. DirsInv'
      BY <1>2 DEF MetadataFails, MetadataError, DirsInv, Empty
    <2>7. MediaInv'
      BY <1>2, DataFacts, RecordFacts DEF MetadataFails, MetadataError, MediaInv,
        WithinLimits, DataTypeOK, DirsInv, Empty
    <2>8. LateInv'
      BY <1>2 DEF MetadataFails, MetadataError, LateInv, CancelInv
    <2> QED BY <2>1, <2>2, <2>3, <2>4, <2>5, <2>6, <2>7, <2>8
  <1>3. CASE MetadataReturns
    <2>1. ControlTypeOK'
      BY <1>3 DEF MetadataReturns, Stages, Works, Calls, Searches, Captions!Begin,
        Captions!Reset, Captions!Fresh
    <2>2. DataTypeOK'
      BY <1>3, DataFacts, RecordFacts, MetadataMoves DEF MetadataReturns, DataTypeOK
    <2>3. EventTypeOK'
      BY <1>3 DEF MetadataReturns
    <2>4. ThreadInv'
      BY <1>3 DEF MetadataReturns, Captions!Begin, Captions!Reset, Captions!Fresh
    <2>5. CancelInv'
      BY <1>3 DEF MetadataReturns, CancelInv
    <2>6. DirsInv'
      BY <1>3 DEF MetadataReturns, DirsInv, Empty
    <2>7. MediaInv'
      BY <1>3, MetadataMoves, DataFacts, RecordFacts DEF MetadataReturns, MediaInv,
        WithinLimits, DataTypeOK
    <2>8. LateInv'
      BY <1>3 DEF MetadataReturns, LateInv, CancelInv, Captions!Begin, Captions!Reset,
        Captions!Fresh
    <2> QED BY <2>1, <2>2, <2>3, <2>4, <2>5, <2>6, <2>7, <2>8
  <1>4. CASE CaptionsReturn
    <2>1. ControlTypeOK'
      BY <1>4 DEF CaptionsReturn, Transcribed, Stages, Works, Calls, Searches,
        Captions!Begin, Captions!Reset, Captions!Fresh
    <2>2. DataTypeOK'
      BY <1>4, DataFacts, RecordFacts DEF CaptionsReturn, Transcribed, DataTypeOK
    <2>3. EventTypeOK'
      BY <1>4 DEF CaptionsReturn, Transcribed
    <2>4. ThreadInv'
      BY <1>4 DEF CaptionsReturn, Transcribed, Captions!Begin, Captions!Reset,
        Captions!Fresh
    <2>5. CancelInv'
      BY <1>4 DEF CaptionsReturn, Transcribed, CancelInv
    <2>6. DirsInv'
      BY <1>4 DEF CaptionsReturn, Transcribed, DirsInv, Empty
    <2>7. MediaInv'
      BY <1>4, DataFacts, RecordFacts DEF CaptionsReturn, Transcribed, MediaInv,
        WithinLimits, DataTypeOK, DirsInv, Empty
    <2>8. LateInv'
      BY <1>4 DEF CaptionsReturn, Transcribed, LateInv, CancelInv, Captions!Begin,
        Captions!Reset, Captions!Fresh
    <2> QED BY <2>1, <2>2, <2>3, <2>4, <2>5, <2>6, <2>7, <2>8
  <1>5. CASE AcquireAudio
    <2>1. ControlTypeOK'
      BY <1>5 DEF AcquireAudio, Stages, Works, Calls, Searches
    <2>2. DataTypeOK'
      BY <1>5, DataFacts, RecordFacts DEF AcquireAudio, DataTypeOK
    <2>3. EventTypeOK'
      BY <1>5 DEF AcquireAudio
    <2>4. ThreadInv'
      BY <1>5 DEF AcquireAudio
    <2>5. CancelInv'
      BY <1>5 DEF AcquireAudio, CancelInv
    <2>6. DirsInv'
      BY <1>5 DEF AcquireAudio, DirsInv, Empty
    <2>7. MediaInv'
      BY <1>5, DataFacts, RecordFacts DEF AcquireAudio, MediaInv, WithinLimits,
        DataTypeOK, DirsInv, Empty
    <2>8. LateInv'
      BY <1>5 DEF AcquireAudio, LateInv, CancelInv
    <2> QED BY <2>1, <2>2, <2>3, <2>4, <2>5, <2>6, <2>7, <2>8
  <1>6. CASE ValidatePrepared
    <2>1. ControlTypeOK'
      BY <1>6 DEF ValidatePrepared, AudioPathValid, Stages, Works, Calls, Searches
    <2>2. DataTypeOK'
      BY <1>6, DataFacts, RecordFacts DEF ValidatePrepared, AudioPathValid, DataTypeOK
    <2>3. EventTypeOK'
      BY <1>6 DEF ValidatePrepared, AudioPathValid
    <2>4. ThreadInv'
      BY <1>6 DEF ValidatePrepared, AudioPathValid
    <2>5. CancelInv'
      BY <1>6 DEF ValidatePrepared, AudioPathValid, CancelInv
    <2>6. DirsInv'
      BY <1>6 DEF ValidatePrepared, AudioPathValid, DirsInv, Empty
    <2>7. MediaInv'
      BY <1>6, DataFacts, RecordFacts DEF ValidatePrepared, AudioPathValid, MediaInv,
        WithinLimits, DataTypeOK, DirsInv, Empty
    <2>8. LateInv'
      BY <1>6 DEF ValidatePrepared, AudioPathValid, LateInv, CancelInv
    <2> QED BY <2>1, <2>2, <2>3, <2>4, <2>5, <2>6, <2>7, <2>8
  <1>7. CASE AudioReturns
    <2>1. ControlTypeOK'
      BY <1>7 DEF AudioReturns, DownloadError, Stages, Works, Calls, Searches
    <2>2. DataTypeOK'
      BY <1>7, DataFacts, RecordFacts DEF AudioReturns, DownloadError, DataTypeOK
    <2>3. EventTypeOK'
      BY <1>7 DEF AudioReturns, DownloadError
    <2>4. ThreadInv'
      BY <1>7 DEF AudioReturns, DownloadError
    <2>5. CancelInv'
      BY <1>7 DEF AudioReturns, DownloadError, CancelInv
    <2>6. DirsInv'
      BY <1>7 DEF AudioReturns, DownloadError, DirsInv, Empty
    <2>7. MediaInv'
      BY <1>7, DataFacts, RecordFacts DEF AudioReturns, DownloadError, MediaInv,
        WithinLimits, DataTypeOK, DirsInv, Empty
    <2>8. LateInv'
      BY <1>7 DEF AudioReturns, DownloadError, LateInv, CancelInv
    <2> QED BY <2>1, <2>2, <2>3, <2>4, <2>5, <2>6, <2>7, <2>8
  <1>8. CASE NativeReturns
    <2>1. ControlTypeOK'
      BY <1>8 DEF NativeReturns, Transcribed, Stages, Works, Calls, Searches
    <2>2. DataTypeOK'
      BY <1>8, DataFacts, RecordFacts DEF NativeReturns, Transcribed, DataTypeOK
    <2>3. EventTypeOK'
      BY <1>8 DEF NativeReturns, Transcribed
    <2>4. ThreadInv'
      BY <1>8 DEF NativeReturns, Transcribed
    <2>5. CancelInv'
      BY <1>8 DEF NativeReturns, Transcribed, CancelInv
    <2>6. DirsInv'
      BY <1>8 DEF NativeReturns, Transcribed, DirsInv, Empty
    <2>7. MediaInv'
      BY <1>8, DataFacts, RecordFacts DEF NativeReturns, Transcribed, MediaInv,
        WithinLimits, DataTypeOK, DirsInv, Empty
    <2>8. LateInv'
      BY <1>8 DEF NativeReturns, Transcribed, LateInv, CancelInv
    <2> QED BY <2>1, <2>2, <2>3, <2>4, <2>5, <2>6, <2>7, <2>8
  <1>9. CASE Publish
    <2>1. ControlTypeOK'
      BY <1>9 DEF Publish, Stages, Works, Calls, Searches
    <2>2. DataTypeOK'
      BY <1>9, DataFacts, RecordFacts DEF Publish, DataTypeOK
    <2>3. EventTypeOK'
      BY <1>9 DEF Publish
    <2>4. ThreadInv'
      BY <1>9 DEF Publish
    <2>5. CancelInv'
      BY <1>9 DEF Publish, CancelInv
    <2>6. DirsInv'
      BY <1>9 DEF Publish, DirsInv, Empty
    <2>7. MediaInv'
      BY <1>9, DataFacts, RecordFacts DEF Publish, MediaInv, WithinLimits, DataTypeOK,
        DirsInv, Empty
    <2>8. LateInv'
      BY <1>9 DEF Publish, LateInv, CancelInv
    <2> QED BY <2>1, <2>2, <2>3, <2>4, <2>5, <2>6, <2>7, <2>8
  <1> QED BY <1>1, <1>2, <1>3, <1>4, <1>5, <1>6, <1>7, <1>8, <1>9 DEF CoroutineStep

\* Cancellation and deadlines.
LEMMA EventsKeep == CoreInv /\ EventStep => CoreInv'
  <1> SUFFICES ASSUME CoreInv, EventStep PROVE CoreInv'
    OBVIOUS
  <1> USE LimitsAssumption DEF CoreInv, vars, job, thread, disk, events, loopVars, searchVars,
        Retrieval!Begin, Retrieval!Reset
  <1>1. CASE TimesOut
    <2>1. ControlTypeOK'
      BY <1>1 DEF TimesOut, ControlTypeOK, EventTypeOK, ThreadInv, Stages, Works,
        Calls, Searches
    <2>2. DataTypeOK'
      BY <1>1, DataFacts, RecordFacts DEF TimesOut, ControlTypeOK, EventTypeOK,
        ThreadInv, DataTypeOK
    <2>3. EventTypeOK'
      BY <1>1 DEF TimesOut, ControlTypeOK, EventTypeOK, ThreadInv
    <2>4. ThreadInv'
      BY <1>1 DEF TimesOut, ControlTypeOK, EventTypeOK, ThreadInv
    <2>5. CancelInv'
      BY <1>1 DEF TimesOut, ControlTypeOK, EventTypeOK, ThreadInv, CancelInv
    <2>6. DirsInv'
      BY <1>1 DEF TimesOut, ControlTypeOK, EventTypeOK, ThreadInv, DirsInv, Empty
    <2>7. MediaInv'
      BY <1>1, DataFacts, RecordFacts DEF TimesOut, ControlTypeOK, EventTypeOK,
        ThreadInv, MediaInv, WithinLimits, DataTypeOK, DirsInv, Empty
    <2>8. LateInv'
      BY <1>1 DEF TimesOut, ControlTypeOK, EventTypeOK, ThreadInv, LateInv, CancelInv
    <2> QED BY <2>1, <2>2, <2>3, <2>4, <2>5, <2>6, <2>7, <2>8
  <1>2. CASE RequestCancellation
    <2>1. ControlTypeOK'
      BY <1>2 DEF RequestCancellation, ControlTypeOK, EventTypeOK, ThreadInv, Stages,
        Works, Calls, Searches
    <2>2. DataTypeOK'
      BY <1>2, DataFacts, RecordFacts DEF RequestCancellation, ControlTypeOK,
        EventTypeOK, ThreadInv, DataTypeOK
    <2>3. EventTypeOK'
      BY <1>2 DEF RequestCancellation, ControlTypeOK, EventTypeOK, ThreadInv
    <2>4. ThreadInv'
      BY <1>2 DEF RequestCancellation, ControlTypeOK, EventTypeOK, ThreadInv
    <2>5. CancelInv'
      BY <1>2 DEF RequestCancellation, ControlTypeOK, EventTypeOK, ThreadInv,
        CancelInv
    <2>6. DirsInv'
      BY <1>2 DEF RequestCancellation, ControlTypeOK, EventTypeOK, ThreadInv, DirsInv,
        Empty
    <2>7. MediaInv'
      BY <1>2, DataFacts, RecordFacts DEF RequestCancellation, ControlTypeOK,
        EventTypeOK, ThreadInv, MediaInv, WithinLimits, DataTypeOK, DirsInv, Empty
    <2>8. LateInv'
      BY <1>2 DEF RequestCancellation, ControlTypeOK, EventTypeOK, ThreadInv, LateInv,
        CancelInv
    <2> QED BY <2>1, <2>2, <2>3, <2>4, <2>5, <2>6, <2>7, <2>8
  <1>3. CASE DeadlinePasses
    <2>1. ControlTypeOK'
      BY <1>3 DEF DeadlinePasses, ControlTypeOK, EventTypeOK, ThreadInv, Stages,
        Works, Calls, Searches
    <2>2. DataTypeOK'
      BY <1>3, DataFacts, RecordFacts DEF DeadlinePasses, ControlTypeOK, EventTypeOK,
        ThreadInv, DataTypeOK
    <2>3. EventTypeOK'
      BY <1>3 DEF DeadlinePasses, ControlTypeOK, EventTypeOK, ThreadInv
    <2>4. ThreadInv'
      BY <1>3 DEF DeadlinePasses, ControlTypeOK, EventTypeOK, ThreadInv
    <2>5. CancelInv'
      BY <1>3 DEF DeadlinePasses, ControlTypeOK, EventTypeOK, ThreadInv, CancelInv
    <2>6. DirsInv'
      BY <1>3 DEF DeadlinePasses, ControlTypeOK, EventTypeOK, ThreadInv, DirsInv,
        Empty
    <2>7. MediaInv'
      BY <1>3, DataFacts, RecordFacts DEF DeadlinePasses, ControlTypeOK, EventTypeOK,
        ThreadInv, MediaInv, WithinLimits, DataTypeOK, DirsInv, Empty
    <2>8. LateInv'
      BY <1>3 DEF DeadlinePasses, ControlTypeOK, EventTypeOK, ThreadInv, LateInv,
        CancelInv
    <2> QED BY <2>1, <2>2, <2>3, <2>4, <2>5, <2>6, <2>7, <2>8
  <1> QED BY <1>1, <1>2, <1>3 DEF EventStep

LEMMA CoreStep == CoreInv /\ [Next]_vars => CoreInv'
  <1> SUFFICES ASSUME CoreInv, [Next]_vars PROVE CoreInv'
    OBVIOUS
  <1>1. CASE UNCHANGED vars
    <2> USE <1>1 DEF CoreInv, vars, job, thread, disk, events, loopVars, searchVars
    <2>1. ControlTypeOK' /\ DataTypeOK' /\ ThreadInv' /\ DirsInv' /\ MediaInv'
      BY DEF ControlTypeOK, DataTypeOK, ThreadInv, DirsInv, MediaInv, WithinLimits, EventTypeOK
    <2>2. EventTypeOK' /\ CancelInv'
      BY DEF EventTypeOK, CancelInv
    <2>3. LateInv'
      BY DEF LateInv, EventTypeOK, CancelInv
    <2> QED BY <2>1, <2>2, <2>3
  <1> QED
    BY <1>1, RetrievalKeeps, CaptionsKeep, ThreadKeeps, CoroutineKeeps, EventsKeep
      DEF Next, ThreadStep, ThreadReturns, EventStep

-----------------------------------------------------------------------------
\* The candidates are the ranking of what was listed.
RankedInv ==
    /\ tracks \in Seq(Captions!Track)
    /\ ranked = Captions!RankCaptionTracks(tracks)

\* Whatever comes before the candidate at hand was fetched in vain.
TriedInv ==
    \A k \in 1 .. candidate - 1 : ranked[k] \in tried

PlaceInv ==
    /\ candidate \in 1 .. Len(ranked) + 1
    /\ search \in {"idle", "begin", "list"} => ranked = <<>>
    /\ search = "fetch" => candidate <= Len(ranked)
    /\ found = "transcript" => candidate <= Len(ranked)
    /\ found = "nothing" => candidate = Len(ranked) + 1
    /\ found # "none" => search = "over"

SearchInv == RankedInv /\ TriedInv /\ PlaceInv

LEMMA NoTracks == Captions!RankCaptionTracks(<<>>) = <<>>
  <1>1. Lists(Captions!RankCaptionTracks(<<>>), Usable(<<>>), Preferences(<<>>))
    <2>1. <<>> \in Seq(Captions!Track)
      OBVIOUS
    <2> QED BY <2>1, RankingLists
  <1>2. Usable(<<>>) = {}
    BY DEF Usable
  <1>3. Captions!RankCaptionTracks(<<>>) \in Seq({})
    BY <1>1, <1>2 DEF Lists
  <1> QED BY <1>3

LEMMA RankedLength == RankedInv => Len(ranked) \in Nat
  BY RankingLists DEF RankedInv, Lists

LEMMA SearchStepKeeps == SearchInv /\ search \in Searches /\ Captions!SearchStep => SearchInv'
  <1> SUFFICES ASSUME SearchInv, search \in Searches, Captions!SearchStep PROVE SearchInv'
    OBVIOUS
  <1>1. RankedInv /\ TriedInv /\ PlaceInv /\ Len(ranked) \in Nat
    BY RankedLength DEF SearchInv
  <1>2. CASE Captions!CheckDeclaration
    <2>1. RankedInv' /\ TriedInv'
      BY <1>1, <1>2 DEF RankedInv, TriedInv, Captions!CheckDeclaration
    <2>2. Len(ranked) = 0 /\ candidate = 1
      BY <1>1, <1>2 DEF PlaceInv, Captions!CheckDeclaration
    <2>3. PlaceInv'
      BY <1>1, <1>2, <2>2
        DEF PlaceInv, Captions!CheckDeclaration, Captions!Return, Captions!GoOn
    <2> QED BY <2>1, <2>3 DEF SearchInv
  <1>3. CASE Captions!ListTracks
    <2>1. candidate = 1 /\ candidate' = 1 /\ search = "list" /\ found = "none"
      BY <1>1, <1>3 DEF PlaceInv, Captions!ListTracks
    <2>2. CASE UNCHANGED <<tracks, ranked>> /\ search' = "over" /\ found' \in {"cancelled", "timeout", "failure"}
      BY <1>1, <1>3, <2>1, <2>2 DEF SearchInv, RankedInv, TriedInv, PlaceInv
    <2>3. CASE /\ tracks' \in Captions!TrackLists /\ ranked' = Captions!RankCaptionTracks(tracks')
               /\ search' = "check" /\ found' = found
      <3>1. RankedInv'
        BY <2>3 DEF RankedInv, Captions!TrackLists
      <3>2. Len(ranked') \in Nat
        BY <2>3, <3>1, RankingLists DEF RankedInv, Lists
      <3>3. TriedInv' /\ PlaceInv'
        BY <2>1, <2>3, <3>2 DEF TriedInv, PlaceInv
      <3> QED BY <3>1, <3>3 DEF SearchInv
    <2> QED BY <1>3, <2>2, <2>3 DEF Captions!ListTracks, Captions!Return, Captions!GoOn
  <1>4. CASE Captions!CheckCandidate
    <2>1. RankedInv' /\ TriedInv'
      BY <1>1, <1>4 DEF RankedInv, TriedInv, Captions!CheckCandidate
    <2>2. candidate > Len(ranked) => candidate = Len(ranked) + 1
      BY <1>1 DEF PlaceInv
    <2>3. ~(candidate > Len(ranked)) => candidate <= Len(ranked)
      BY <1>1 DEF PlaceInv
    <2>4. PlaceInv'
      BY <1>1, <1>4, <2>2, <2>3
        DEF PlaceInv, Captions!CheckCandidate, Captions!Return, Captions!GoOn
    <2> QED BY <2>1, <2>4 DEF SearchInv
  <1>5. CASE Captions!CandidateFetched \/ Captions!CandidateFailed \/ Captions!CandidateTimesOut
    <2>1. search = "fetch" /\ UNCHANGED <<tracks, ranked>>
      BY <1>5 DEF Captions!CandidateFetched, Captions!CandidateFailed, Captions!CandidateTimesOut
    <2>2. candidate \in 1 .. Len(ranked) /\ found = "none"
      BY <1>1, <2>1 DEF PlaceInv
    <2>3. RankedInv'
      BY <1>1, <2>1 DEF RankedInv
    <2>4. CASE Captions!NextCandidate
      <3>1. \A k \in 1 .. candidate' - 1 : k \in 1 .. candidate - 1 \/ k = candidate
        BY <2>2, <2>4 DEF Captions!NextCandidate
      <3>2. TriedInv'
        BY <1>1, <2>1, <2>2, <2>4, <3>1 DEF TriedInv, Captions!NextCandidate
      <3>3. PlaceInv'
        BY <1>1, <2>1, <2>2, <2>4 DEF PlaceInv, Captions!NextCandidate, Captions!GoOn
      <3> QED BY <2>3, <3>2, <3>3 DEF SearchInv
    <2>5. CASE /\ search' = "over" /\ found' \in {"cancelled", "transcript", "timeout"}
               /\ UNCHANGED <<candidate, tried>>
      <3>1. TriedInv' /\ PlaceInv'
        BY <1>1, <2>1, <2>2, <2>5 DEF TriedInv, PlaceInv
      <3> QED BY <2>3, <3>1 DEF SearchInv
    <2> QED BY <1>5, <2>4, <2>5
          DEF Captions!CandidateFetched, Captions!CandidateFailed, Captions!CandidateTimesOut, Captions!Return
  <1> QED BY <1>2, <1>3, <1>4, <1>5 DEF Captions!SearchStep

\* A search that begins, or whose result was taken.
LEMMA FreshSearch ==
    ASSUME NEW where \in {"begin", "idle"}, Captions!Fresh(where)
    PROVE  SearchInv'
  <1>1. tracks' \in Seq(Captions!Track) /\ Len(ranked') = 0
    BY DEF Captions!Fresh
  <1> QED
    BY <1>1, NoTracks DEF Captions!Fresh, SearchInv, RankedInv, TriedInv, PlaceInv

LEMMA SearchKept == CoreInv /\ SearchInv /\ [Next]_vars => SearchInv'
  <1> SUFFICES ASSUME CoreInv, SearchInv, [Next]_vars PROVE SearchInv'
    OBVIOUS
  <1>1. CASE UNCHANGED searchVars
    BY <1>1 DEF searchVars, SearchInv, RankedInv, TriedInv, PlaceInv
  <1>2. CASE CaptionStep
    BY <1>2, SearchStepKeeps DEF CaptionStep, CoreInv, ControlTypeOK
  <1>3. CASE MetadataReturns /\ ~UNCHANGED searchVars
    <2>1. Captions!Fresh("begin")
      BY <1>3 DEF MetadataReturns, Captions!Begin
    <2> QED BY <2>1, FreshSearch
  <1>4. CASE CaptionsReturn
    <2>1. Captions!Fresh("idle")
      BY <1>4 DEF CaptionsReturn, Captions!Reset
    <2> QED BY <2>1, FreshSearch
  <1> QED
    BY <1>1, <1>2, <1>3, <1>4
      DEF Next, ThreadStep, CoroutineStep, RetrievalStep, ExtractReturns, PrepareDirectory,
          DurationReturns, Probe, DownloadReturns, Classify, MetadataFails, AcquireAudio,
          ValidatePrepared, AudioReturns, NativeReturns, Publish, TimesOut, RequestCancellation,
          DeadlinePasses, vars

LEMMA SearchFindsBest == SearchInv => BestUsableTrack
  <1> SUFFICES ASSUME RankedInv, TriedInv, PlaceInv PROVE Captions!BestUsableTrack
    BY DEF BestUsableTrack, SearchInv
  <1> DEFINE n == Len(ranked)
  <1>1. Lists(ranked, Usable(tracks), Preferences(tracks))
    BY RankingLists DEF RankedInv
  <1>2. n \in Nat /\ \A k \in 1 .. n : ranked[k] \in Usable(tracks)
    BY <1>1 DEF Lists
  <1>3. \A i \in 1 .. Len(tracks) : i \in Usable(tracks) <=> Captions!Usable(i)
    BY DEF Usable, Captions!Usable
  <1>4. \A i, j \in 1 .. Len(tracks) :
          Captions!Preferred(i, j) => <<i, j>> \in Preferences(tracks)
    BY DEF Preferences, PreferredIn, Captions!Preferred
  <1>5. \A i \in Usable(tracks) : i \in 1 .. Len(tracks)
    BY DEF Usable
  <1>6. ASSUME found = "transcript"
        PROVE  /\ Captions!Usable(ranked[candidate])
               /\ \A i \in 1 .. Len(tracks) :
                    Captions!Usable(i) /\ Captions!Preferred(i, ranked[candidate]) => i \in tried
    <2>1. candidate \in 1 .. n
      BY <1>2, <1>6 DEF PlaceInv
    <2>2. ranked[candidate] \in Usable(tracks) /\ ranked[candidate] \in 1 .. Len(tracks)
      BY <1>2, <1>5, <2>1
    <2>3. ASSUME NEW i \in 1 .. Len(tracks), Captions!Usable(i), Captions!Preferred(i, ranked[candidate])
          PROVE  i \in tried
      <3>1. <<i, ranked[candidate]>> \in Preferences(tracks) /\ i \in Usable(tracks)
        BY <1>3, <1>4, <2>2, <2>3
      <3>2. PICK m \in 1 .. candidate - 1 : ranked[m] = i
        BY <1>1, <2>1, <3>1 DEF Lists
      <3> QED BY <3>2 DEF TriedInv
    <2> QED BY <1>3, <2>2, <2>3
  <1>7. ASSUME found = "nothing", NEW i \in 1 .. Len(tracks), Captions!Usable(i)
        PROVE  i \in tried
    <2>1. PICK k \in 1 .. n : ranked[k] = i
      BY <1>1, <1>3, <1>7 DEF Lists
    <2>2. k \in 1 .. candidate - 1
      BY <1>2, <1>7 DEF PlaceInv
    <2> QED BY <2>1, <2>2 DEF TriedInv
  <1> QED BY <1>6, <1>7 DEF Captions!BestUsableTrack

-----------------------------------------------------------------------------
(* Concatenations. *)

\* The concatenations of the first 1, 2, ... n sequences of a list.
IsFlattening(f, seqs, n) == f = [i \in 1 .. n |-> IF i = 1 THEN seqs[i] ELSE f[i - 1] \o seqs[i]]

LEMMA FlatteningExists ==
    ASSUME NEW seqs, NEW n \in Nat
    PROVE  \E f : IsFlattening(f, seqs, n)
  <1> DEFINE Bad == {m \in Nat : ~(\E f : IsFlattening(f, seqs, m))}
  <1>1. ASSUME Bad # {} PROVE FALSE
    <2>1. PICK m \in Bad : \A k \in Bad : m <= k
      <3>1. Bad \in SUBSET Nat
        OBVIOUS
      <3> HIDE DEF Bad
      <3> QED BY <1>1, <3>1, LeastNumber
    <2>2. m \in Nat /\ ~(\E f : IsFlattening(f, seqs, m))
      BY <2>1
    <2>3. CASE m = 0
      <3> DEFINE g == [i \in 1 .. 0 |-> <<>>]
      <3>1. IsFlattening(g, seqs, 0)
        BY DEF IsFlattening
      <3> QED BY <2>2, <2>3, <3>1
    <2>4. CASE m # 0
      <3>1. m - 1 \in Nat /\ ~(m - 1 \in Bad)
        BY <2>1, <2>2, <2>4
      <3>2. PICK f : IsFlattening(f, seqs, m - 1)
        BY <3>1
      <3> DEFINE g == [i \in 1 .. m |-> IF i = m THEN (IF m = 1 THEN seqs[m] ELSE f[m - 1] \o seqs[m]) ELSE f[i]]
      <3>3. \A i \in 1 .. m - 1 : f[i] = IF i = 1 THEN seqs[i] ELSE f[i - 1] \o seqs[i]
        BY <3>2 DEF IsFlattening
      <3>4. \A i \in 1 .. m : g[i] = IF i = 1 THEN seqs[i] ELSE g[i - 1] \o seqs[i]
        <4> SUFFICES ASSUME NEW i \in 1 .. m PROVE g[i] = IF i = 1 THEN seqs[i] ELSE g[i - 1] \o seqs[i]
          OBVIOUS
        <4>1. i - 1 # m /\ i \in Nat
          BY <2>2
        <4>2. i # 1 => i - 1 \in 1 .. m /\ g[i - 1] = f[i - 1]
          BY <2>2, <4>1
        <4>3. i # m => i \in 1 .. m - 1
          BY <2>2
        <4> QED BY <3>3, <4>2, <4>3
      <3>5. IsFlattening(g, seqs, m)
        <4>1. g = [i \in 1 .. m |-> g[i]]
          OBVIOUS
        <4> HIDE DEF g
        <4> QED BY <3>4, <4>1 DEF IsFlattening
      <3> QED BY <2>2, <3>5
    <2> QED BY <2>3, <2>4
  <1> QED BY <1>1

LEMMA FlattenUnfolds ==
    ASSUME NEW seqs, Len(seqs) \in Nat, Len(seqs) # 0
    PROVE  \E f : IsFlattening(f, seqs, Len(seqs)) /\ FlattenSeq(seqs) = f[Len(seqs)]
  <1> DEFINE f == CHOOSE f : IsFlattening(f, seqs, Len(seqs))
  <1>1. IsFlattening(f, seqs, Len(seqs))
    BY FlatteningExists
  <1>2. FlattenSeq(seqs) = f[Len(seqs)]
    BY DEF FlattenSeq, IsFlattening
  <1> QED BY <1>1, <1>2

LEMMA FlattenSteps ==
    ASSUME NEW S, NEW seqs \in Seq(Seq(S)), Len(seqs) # 0
    PROVE  \E f : /\ FlattenSeq(seqs) = f[Len(seqs)]
                  /\ \A i \in 1 .. Len(seqs) :
                       f[i] \in Seq(S) /\ f[i] = IF i = 1 THEN seqs[i] ELSE f[i - 1] \o seqs[i]
  <1> DEFINE n == Len(seqs)
  <1>1. n \in Nat /\ n # 0 /\ \A i \in 1 .. n : seqs[i] \in Seq(S)
    OBVIOUS
  <1>2. PICK f : IsFlattening(f, seqs, n) /\ FlattenSeq(seqs) = f[n]
    BY <1>1, FlattenUnfolds
  <1>3. \A i \in 1 .. n : f[i] = IF i = 1 THEN seqs[i] ELSE f[i - 1] \o seqs[i]
    BY <1>2 DEF IsFlattening
  <1> DEFINE Bad == {i \in 1 .. n : f[i] \notin Seq(S)}
  <1>4. ASSUME Bad # {} PROVE FALSE
    <2>1. Bad \in SUBSET Nat
      BY <1>1
    <2>2. PICK k \in Bad : \A i \in Bad : k <= i
      <3> HIDE DEF Bad
      <3> QED BY <1>4, <2>1, LeastNumber
    <2>3. k \in 1 .. n /\ f[k] \notin Seq(S)
      BY <2>2
    <2>4. k # 1 => k - 1 \in 1 .. n /\ f[k - 1] \in Seq(S)
      BY <1>1, <2>2, <2>3
    <2>5. k = 1 => f[k] \in Seq(S)
      BY <1>1, <1>3, <2>3
    <2>6. k # 1 => f[k - 1] \o seqs[k] \in Seq(S)
      BY <1>1, <2>3, <2>4
    <2> QED BY <1>3, <2>3, <2>5, <2>6
  <1> QED BY <1>2, <1>3, <1>4

LEMMA FlattenType ==
    ASSUME NEW S, NEW seqs \in Seq(Seq(S))
    PROVE  FlattenSeq(seqs) \in Seq(S) /\ (Len(seqs) = 0 => FlattenSeq(seqs) = seqs)
  <1>1. CASE Len(seqs) = 0
    <2>1. FlattenSeq(seqs) = seqs
      BY <1>1 DEF FlattenSeq
    <2>2. seqs = <<>>
      BY <1>1
    <2>3. seqs \in Seq(S)
      BY <2>2
    <2> QED BY <1>1, <2>1, <2>3
  <1>2. CASE Len(seqs) # 0
    <2>1. Len(seqs) \in 1 .. Len(seqs)
      BY <1>2
    <2>2. FlattenSeq(seqs) \in Seq(S)
      BY <1>2, <2>1, FlattenSteps
    <2> QED BY <1>2, <2>2
  <1> QED BY <1>1, <1>2

LEMMA FlattenNonempty ==
    ASSUME NEW S, NEW seqs \in Seq(Seq(S)), Len(seqs) # 0,
           \A i \in 1 .. Len(seqs) : Len(seqs[i]) # 0
    PROVE  Len(FlattenSeq(seqs)) # 0
  <1> DEFINE n == Len(seqs)
  <1>1. n \in Nat /\ n # 0
    OBVIOUS
  <1>2. n \in 1 .. n
    BY <1>1
  <1>3. seqs[n] \in Seq(S) /\ Len(seqs[n]) # 0
    BY <1>2
  <1>4. PICK f : /\ FlattenSeq(seqs) = f[Len(seqs)]
                 /\ \A i \in 1 .. Len(seqs) :
                      f[i] \in Seq(S) /\ f[i] = IF i = 1 THEN seqs[i] ELSE f[i - 1] \o seqs[i]
    BY FlattenSteps
  <1>5. CASE n = 1
    BY <1>4, <1>5, <1>2, <1>3
  <1>6. CASE n # 1
    <2>1. n - 1 \in 1 .. Len(seqs) /\ n \in 1 .. Len(seqs)
      <3> HIDE DEF n
      <3>1. n - 1 \in 1 .. n /\ n \in 1 .. n
        BY <1>1, <1>6
      <3> QED BY <3>1 DEF n
    <2>2. f[n - 1] \in Seq(S) /\ f[n] = f[n - 1] \o seqs[n]
      BY <1>4, <1>6, <2>1
    <2>3. Len(f[n - 1]) \in Nat /\ Len(seqs[n]) \in Nat /\ Len(seqs[n]) # 0
      BY <1>3, <2>2
    <2>4. Len(f[n]) = Len(f[n - 1]) + Len(seqs[n])
      BY <1>3, <2>2
    <2>5. Len(f[n - 1]) + Len(seqs[n]) # 0
      <3> DEFINE x == Len(f[n - 1])
                 y == Len(seqs[n])
      <3> HIDE DEF x, y, n
      <3>1. x \in Nat /\ y \in Nat /\ y # 0
        BY <2>3 DEF x, y, n
      <3>2. x + y # 0
        BY <3>1
      <3> QED BY <3>2 DEF x, y, n
    <2> QED BY <1>4, <2>4, <2>5
  <1> QED BY <1>5, <1>6

\* Runs of records that start together, in the order of their starts.
LEMMA FlattenSorted ==
    ASSUME NEW S, \A s \in S : s.start \in Int,
           NEW seqs \in Seq(Seq(S)), NEW t \in [1 .. Len(seqs) -> Int],
           \A i, j \in 1 .. Len(seqs) : i < j => t[i] < t[j],
           \A i \in 1 .. Len(seqs), j \in Nat : j \in 1 .. Len(seqs[i]) => seqs[i][j].start = t[i]
    PROVE  \A k \in 2 .. Len(FlattenSeq(seqs)) :
             FlattenSeq(seqs)[k - 1].start <= FlattenSeq(seqs)[k].start
  <1> DEFINE n == Len(seqs)
             Sorted(r) == \A k \in 2 .. Len(r) : r[k - 1].start <= r[k].start
             UpTo(r, x) == \A k \in 1 .. Len(r) : r[k].start <= x
  <1>1. n \in Nat /\ \A i \in 1 .. n : seqs[i] \in Seq(S)
    OBVIOUS
  <1>2. CASE n = 0
    <2>1. Len(FlattenSeq(seqs)) = 0
      BY <1>2, FlattenType
    <2> QED BY <2>1
  <1>3. CASE n # 0
    <2>1. PICK f : /\ FlattenSeq(seqs) = f[n]
                   /\ \A i \in 1 .. n :
                        f[i] \in Seq(S) /\ f[i] = IF i = 1 THEN seqs[i] ELSE f[i - 1] \o seqs[i]
      BY <1>3, FlattenSteps
    <2>2. \A i \in 1 .. n : Sorted(seqs[i]) /\ UpTo(seqs[i], t[i])
      <3> SUFFICES ASSUME NEW i \in 1 .. n PROVE Sorted(seqs[i]) /\ UpTo(seqs[i], t[i])
        OBVIOUS
      <3>1. Len(seqs[i]) \in Nat /\ t[i] \in Int
        <4>1. seqs[i] \in Seq(S)
          BY <1>1
        <4>2. Len(seqs[i]) \in Nat
          BY <4>1
        <4>3. t[i] \in Int
          OBVIOUS
        <4> QED BY <4>2, <4>3
      <3>2. \A k \in 1 .. Len(seqs[i]) : k \in Nat /\ seqs[i][k].start = t[i]
        BY <3>1
      <3>3. \A k \in 2 .. Len(seqs[i]) : k - 1 \in 1 .. Len(seqs[i]) /\ k \in 1 .. Len(seqs[i])
        BY <3>1
      <3>4. Sorted(seqs[i])
        <4> SUFFICES ASSUME NEW k \in 2 .. Len(seqs[i]) PROVE seqs[i][k - 1].start <= seqs[i][k].start
          OBVIOUS
        <4>1. seqs[i][k - 1].start = t[i] /\ seqs[i][k].start = t[i]
          BY <3>2, <3>3
        <4> QED BY <3>1, <4>1
      <3>5. UpTo(seqs[i], t[i])
        BY <3>1, <3>2
      <3> QED BY <3>4, <3>5
    <2> DEFINE Bad == {i \in 1 .. n : ~(Sorted(f[i]) /\ UpTo(f[i], t[i]))}
    <2>3. ASSUME Bad # {} PROVE FALSE
      <3>1. Bad \in SUBSET Nat
        BY <1>1
      <3>2. PICK m \in Bad : \A i \in Bad : m <= i
        <4> HIDE DEF Bad
        <4> QED BY <2>3, <3>1, LeastNumber
      <3>3. m \in 1 .. n /\ m \in Nat /\ ~(Sorted(f[m]) /\ UpTo(f[m], t[m]))
        BY <1>1, <3>2
      <3>4. CASE m = 1
        <4>1. f[m] = seqs[m]
          BY <2>1, <3>3, <3>4
        <4> QED BY <2>2, <3>3, <4>1
      <3>5. CASE m # 1
        <4> DEFINE a == f[m - 1]
                   b == seqs[m]
        <4>1. m - 1 \in 1 .. n /\ m - 1 < m /\ ~(m <= m - 1)
          BY <1>1, <3>3, <3>5
        <4>2. Sorted(a) /\ UpTo(a, t[m - 1])
          BY <3>2, <4>1
        <4>3. /\ a \in Seq(S) /\ b \in Seq(S) /\ f[m] = a \o b
              /\ t[m - 1] \in Int /\ t[m] \in Int /\ t[m - 1] < t[m]
          <5>1. a \in Seq(S) /\ f[m] = a \o b
            BY <2>1, <3>3, <3>5, <4>1
          <5>2. b \in Seq(S)
            BY <1>1, <3>3
          <5>3. t[m - 1] \in Int /\ t[m] \in Int /\ t[m - 1] < t[m]
            BY <3>3, <4>1
          <5> QED BY <5>1, <5>2, <5>3
        <4>4. \A k \in 1 .. Len(b) : b[k].start = t[m]
          BY <1>1, <3>3
        <4> HIDE DEF a, b, Bad
        <4>5. /\ Len(a) \in Nat /\ Len(b) \in Nat /\ Len(a \o b) = Len(a) + Len(b)
              /\ \A k \in 1 .. Len(a) : (a \o b)[k] = a[k] /\ a[k].start \in Int
              /\ \A k \in 1 .. Len(b) : (a \o b)[Len(a) + k] = b[k]
          BY <4>3
        <4>6. \A k \in 1 .. Len(a) + Len(b) :
                 \/ k \in 1 .. Len(a)
                 \/ k - Len(a) \in 1 .. Len(b) /\ k = Len(a) + (k - Len(a))
          BY <4>5
        <4>7. \A k \in 1 .. Len(a) + Len(b) :
                 \/ k \in 1 .. Len(a) /\ (a \o b)[k] = a[k]
                 \/ k \notin 1 .. Len(a) /\ (a \o b)[k].start = t[m]
          BY <4>4, <4>5, <4>6
        <4>8. UpTo(a \o b, t[m])
          BY <4>2, <4>3, <4>5, <4>7
        <4>9. Sorted(a \o b)
          <5> SUFFICES ASSUME NEW k \in 2 .. Len(a) + Len(b)
                       PROVE  (a \o b)[k - 1].start <= (a \o b)[k].start
            BY <4>5
          <5>1. k \in 1 .. Len(a) + Len(b) /\ k - 1 \in 1 .. Len(a) + Len(b) /\ k - 1 \in Nat
            BY <4>5
          <5>2. CASE k \in 1 .. Len(a)
            <6>1. k - 1 \in 1 .. Len(a) /\ k \in 2 .. Len(a)
              BY <4>5, <5>1, <5>2
            <6> QED BY <4>2, <4>5, <5>2, <6>1
          <5>3. CASE k \notin 1 .. Len(a)
            <6>1. (a \o b)[k].start = t[m]
              BY <4>7, <5>1, <5>3
            <6>2. (a \o b)[k - 1].start <= t[m]
              BY <4>5, <4>8, <5>1
            <6> QED BY <6>1, <6>2
          <5> QED BY <5>2, <5>3
        <4> QED BY <3>3, <4>3, <4>8, <4>9
      <3> QED BY <3>4, <3>5
    <2>4. n \in 1 .. n
      BY <1>1, <1>3
    <2> QED BY <2>1, <2>3, <2>4
  <1> QED BY <1>2, <1>3

-----------------------------------------------------------------------------
(* Normalised transcripts. *)

LEMMA SequenceOf ==
    ASSUME NEW S, NEW T, NEW s \in Seq(S), \A k \in 1 .. Len(s) : s[k] \in T
    PROVE  s \in Seq(T)
  <1>1. s = [k \in 1 .. Len(s) |-> s[k]] /\ Len(s) \in Nat
    OBVIOUS
  <1>2. [k \in 1 .. Len(s) |-> s[k]] \in Seq(T)
    BY <1>1
  <1> QED BY <1>1, <1>2

LEMMA AtFacts ==
    ASSUME NEW S, NEW list \in Seq(S), NEW P \in SUBSET (1 .. Len(list))
    PROVE  /\ At(list, P) \in Seq(S) /\ Len(At(list, P)) \in Nat
           /\ \A k \in 1 .. Len(At(list, P)) : \E i \in P : At(list, P)[k] = list[i]
  <1> DEFINE n == Cardinality(P)
  <1>1. P \in SUBSET Nat /\ IsFiniteSet(P)
    <2>1. IsFiniteSet(1 .. Len(list))
      BY FS_Interval
    <2>2. IsFiniteSet(P)
      BY <2>1, FS_Subset
    <2> QED BY <2>2
  <1>2. n \in Nat /\ Enumerates(InOrder(P), P)
    BY <1>1, InOrderEnumerates
  <1>3. \A k \in 1 .. n : Nth(P, k) \in P
    BY <1>2 DEF Enumerates, InOrder
  <1>4. \A k \in 1 .. n : list[Nth(P, k)] \in S
    <2>1. \A i \in P : list[i] \in S
      OBVIOUS
    <2> QED BY <1>3, <2>1
  <1>5. At(list, P) = [k \in 1 .. n |-> list[Nth(P, k)]]
    BY DEF At
  <1> HIDE DEF n
  <1>6. At(list, P) \in Seq(S) /\ Len(At(list, P)) = n
    BY <1>2, <1>4, <1>5
  <1> QED BY <1>2, <1>3, <1>5, <1>6

LEMMA AtAll ==
    ASSUME NEW S, NEW list \in Seq(S)
    PROVE  At(list, 1 .. Len(list)) = list
  <1> DEFINE n == Len(list)
             D == 1 .. n
             identity == [k \in D |-> k]
  <1>1. n \in Nat
    OBVIOUS
  <1>2. IsFiniteSet(D) /\ Cardinality(D) = n
    <2>1. 1 \in Int /\ n \in Int
      BY <1>1
    <2>2. IsFiniteSet(D) /\ Cardinality(D) = IF 1 > n THEN 0 ELSE n - 1 + 1
      BY <2>1, FS_Interval
    <2> HIDE DEF n, D
    <2> QED BY <1>1, <2>2
  <1>3. D \in SUBSET Nat
    BY <1>1
  <1>4. Enumerates(InOrder(D), D)
    BY <1>2, <1>3, InOrderEnumerates
  <1>5. Enumerates(identity, D)
    BY <1>2 DEF Enumerates
  <1>6. InOrder(D) = identity
    <2> HIDE DEF D, identity
    <2> QED BY <1>2, <1>3, <1>4, <1>5, OneEnumeration
  <1>7. \A k \in D : Nth(D, k) = k
    BY <1>2, <1>6 DEF InOrder
  <1>8. At(list, D) = [k \in D |-> list[k]]
    <2>1. At(list, D) = [k \in D |-> list[Nth(D, k)]]
      BY <1>2 DEF At
    <2> HIDE DEF D
    <2> QED BY <1>7, <2>1
  <1> QED BY <1>1, <1>8

Words == STRING \ {Blank}
\* What normalisation leaves: texts of words, at least one each.
CleanSegment == {s \in [start : Int, end : Int, text : Seq(Words)] : TimesOK(s) /\ Len(s.text) # 0}

LEMMA CollapseFacts ==
    /\ \A t \in Seq(STRING) : CollapseWhitespace(t) \in Seq(Words)
    /\ \A t \in Seq(Words) : CollapseWhitespace(t) = t
  <1>1. ASSUME NEW t \in Seq(STRING) PROVE CollapseWhitespace(t) \in Seq(Words)
    <2> DEFINE P == {i \in 1 .. Len(t) : t[i] # Blank}
               c == CollapseWhitespace(t)
    <2>1. c = At(t, P)
      BY DEF CollapseWhitespace, Selected
    <2>2. P \in SUBSET (1 .. Len(t))
      OBVIOUS
    <2>3. /\ c \in Seq(STRING) /\ Len(c) \in Nat
          /\ \A k \in 1 .. Len(c) : \E i \in P : c[k] = t[i]
      <3> HIDE DEF P, c
      <3> QED BY <2>1, <2>2, AtFacts
    <2>4. \A k \in 1 .. Len(c) : c[k] \in Words
      <3> SUFFICES ASSUME NEW k \in 1 .. Len(c) PROVE c[k] \in Words
        OBVIOUS
      <3>1. PICK i \in P : c[k] = t[i]
        BY <2>3
      <3>2. t[i] \in STRING /\ t[i] # Blank
        OBVIOUS
      <3> QED BY <3>1, <3>2 DEF Words
    <2> HIDE DEF c
    <2>5. c \in Seq(Words)
      BY <2>3, <2>4, SequenceOf
    <2> QED BY <2>5 DEF c
  <1>2. ASSUME NEW t \in Seq(Words) PROVE CollapseWhitespace(t) = t
    <2>1. \A i \in 1 .. Len(t) : t[i] # Blank
      BY DEF Words
    <2>2. {i \in 1 .. Len(t) : t[i] # Blank} = 1 .. Len(t)
      BY <2>1
    <2> QED BY <2>2, AtAll DEF CollapseWhitespace, Selected
  <1> QED BY <1>1, <1>2

LEMMA RecordsClean ==
    ASSUME NEW raw \in Seq(RawSegment), SegmentsOK(raw)
    PROVE  Records(raw) \in Seq(CleanSegment)
  <1> DEFINE list == [i \in 1 .. Len(raw) |-> [raw[i] EXCEPT !.text = CollapseWhitespace(@)]]
             Collapsed == {s \in [start : Int, end : Int, text : Seq(Words)] : TimesOK(s)}
             P == {i \in 1 .. Len(list) : list[i].text # <<>>}
             r == Records(raw)
  <1>1. list \in Seq(Collapsed)
    <2> SUFFICES ASSUME NEW i \in 1 .. Len(raw)
                 PROVE  [raw[i] EXCEPT !.text = CollapseWhitespace(@)] \in Collapsed
      OBVIOUS
    <2>1. raw[i] \in RawSegment /\ TimesOK(raw[i])
      BY DEF SegmentsOK
    <2>2. CollapseWhitespace(raw[i].text) \in Seq(Words)
      BY <2>1, CollapseFacts DEF RawSegment
    <2> QED BY <2>1, <2>2 DEF RawSegment, TimesOK
  <1>2. r = At(list, P)
    BY DEF Records, Selected
  <1>3. P \in SUBSET (1 .. Len(list))
    OBVIOUS
  <1>4. /\ r \in Seq(Collapsed) /\ Len(r) \in Nat
        /\ \A k \in 1 .. Len(r) : \E i \in P : r[k] = list[i]
    <2> HIDE DEF list, P, r, Collapsed
    <2>1. /\ At(list, P) \in Seq(Collapsed) /\ Len(At(list, P)) \in Nat
          /\ \A k \in 1 .. Len(At(list, P)) : \E i \in P : At(list, P)[k] = list[i]
      BY <1>1, <1>3, AtFacts
    <2> QED BY <1>2, <2>1
  <1> HIDE DEF list, r
  <1>5. \A k \in 1 .. Len(r) : r[k] \in CleanSegment
    <2> SUFFICES ASSUME NEW k \in 1 .. Len(r) PROVE r[k] \in CleanSegment
      OBVIOUS
    <2>1. PICK i \in P : r[k] = list[i]
      BY <1>4
    <2>2. r[k].text # <<>>
      BY <2>1
    <2>3. r[k] \in Collapsed
      <3> HIDE DEF Collapsed, P
      <3> QED BY <1>4
    <2>4. r[k].text \in Seq(Words)
      BY <2>3
    <2>5. Len(r[k].text) # 0
      BY <2>2, <2>4
    <2> QED BY <2>3, <2>5 DEF CleanSegment
  <1> HIDE DEF Collapsed, P
  <1>6. r \in Seq(CleanSegment)
    BY <1>4, <1>5, SequenceOf
  <1> QED BY <1>6 DEF r

\* The rest are runs of records that start together.
LEMMA SortedRuns ==
    ASSUME NEW list \in Seq(CleanSegment)
    PROVE  /\ SortedByStart(list) \in Seq(CleanSegment)
           /\ \A k \in 2 .. Len(SortedByStart(list)) :
                SortedByStart(list)[k - 1].start <= SortedByStart(list)[k].start
  <1> DEFINE starts == {list[i].start : i \in 1 .. Len(list)}
             t == InOrder(starts)
             Run(x) == At(list, {i \in 1 .. Len(list) : list[i].start = x})
             seqs == [k \in 1 .. Len(t) |-> Run(t[k])]
  <1>1. \A i \in 1 .. Len(list) : list[i] \in CleanSegment /\ list[i].start \in Nat
    <2>1. \A s \in CleanSegment : s.start \in Nat
      BY DEF CleanSegment, TimesOK
    <2> QED BY <2>1
  <1>2. starts \in SUBSET Nat /\ IsFiniteSet(starts)
    <2>1. IsFiniteSet(1 .. Len(list))
      BY FS_Interval
    <2> DEFINE f == [i \in 1 .. Len(list) |-> list[i].start]
    <2>2. f \in Surjection(1 .. Len(list), starts)
      BY DEF Surjection
    <2>3. IsFiniteSet(starts)
      BY <2>1, <2>2, FS_Surjection
    <2> QED BY <1>1, <2>3
  <1>3. Cardinality(starts) \in Nat /\ Enumerates(t, starts)
    <2> HIDE DEF starts
    <2> QED BY <1>2, InOrderEnumerates
  <1>4. /\ t \in [1 .. Len(t) -> Nat] /\ Len(t) \in Nat
        /\ \A i, j \in 1 .. Len(t) : i < j => t[i] < t[j]
    <2>1. t \in [1 .. Cardinality(starts) -> starts]
      BY <1>3 DEF Enumerates
    <2>2. t \in Seq(starts) /\ Len(t) = Cardinality(starts)
      <3> HIDE DEF t, starts
      <3> QED BY <1>3, <2>1
    <2> HIDE DEF t, starts
    <2>3. t \in [1 .. Len(t) -> Nat]
      BY <1>2, <2>1, <2>2
    <2>4. \A i, j \in 1 .. Len(t) : i < j => t[i] < t[j]
      BY <1>3, <2>2 DEF Enumerates
    <2> QED BY <1>3, <2>2, <2>3, <2>4
  <1>5. SortedByStart(list) = FlattenSeq(seqs)
    BY DEF SortedByStart, Selected
  <1>6. ASSUME NEW x
        PROVE  /\ Run(x) \in Seq(CleanSegment) /\ Len(Run(x)) \in Nat
               /\ \A k \in 1 .. Len(Run(x)) : Run(x)[k].start = x
    <2> DEFINE P == {i \in 1 .. Len(list) : list[i].start = x}
    <2>1. P \in SUBSET (1 .. Len(list)) /\ \A i \in P : list[i].start = x
      OBVIOUS
    <2> HIDE DEF P
    <2>2. /\ At(list, P) \in Seq(CleanSegment) /\ Len(At(list, P)) \in Nat
          /\ \A k \in 1 .. Len(At(list, P)) : \E i \in P : At(list, P)[k] = list[i]
      BY <2>1, AtFacts
    <2>3. \A k \in 1 .. Len(At(list, P)) : At(list, P)[k].start = x
      BY <2>1, <2>2
    <2> QED BY <2>2, <2>3 DEF P
  <1> HIDE DEF Run, t
  <1>7. /\ seqs \in Seq(Seq(CleanSegment)) /\ Len(seqs) = Len(t)
        /\ \A i \in 1 .. Len(seqs), j \in Nat : j \in 1 .. Len(seqs[i]) => seqs[i][j].start = t[i]
    BY <1>4, <1>6
  <1> HIDE DEF seqs
  <1>8. FlattenSeq(seqs) \in Seq(CleanSegment)
    BY <1>7, FlattenType
  <1>9. \A k \in 2 .. Len(FlattenSeq(seqs)) : FlattenSeq(seqs)[k - 1].start <= FlattenSeq(seqs)[k].start
    <2>1. \A s \in CleanSegment : s.start \in Int
      BY DEF CleanSegment
    <2>2. t \in [1 .. Len(seqs) -> Int]
      BY <1>4, <1>7
    <2>3. \A i, j \in 1 .. Len(seqs) : i < j => t[i] < t[j]
      BY <1>4, <1>7
    <2> QED BY <1>7, <2>1, <2>2, <2>3, FlattenSorted
  <1> QED BY <1>5, <1>8, <1>9

LEMMA JoinedTextFacts ==
    ASSUME NEW list \in Seq(CleanSegment)
    PROVE  /\ JoinedText(list) \in Seq(Words)
           /\ Len(list) # 0 => Len(JoinedText(list)) # 0
  <1> DEFINE texts == [i \in 1 .. Len(list) |-> list[i].text]
  <1>1. \A s \in CleanSegment : s.text \in Seq(Words) /\ Len(s.text) # 0
    BY DEF CleanSegment
  <1>2. \A i \in 1 .. Len(list) : list[i].text \in Seq(Words) /\ Len(list[i].text) # 0
    BY <1>1
  <1>3. /\ texts \in Seq(Seq(Words)) /\ Len(texts) = Len(list)
        /\ \A i \in 1 .. Len(texts) : Len(texts[i]) # 0
    BY <1>2
  <1>4. JoinedText(list) = FlattenSeq(texts)
    BY DEF JoinedText
  <1> HIDE DEF texts
  <1>5. JoinedText(list) \in Seq(Words)
    BY <1>3, <1>4, FlattenType
  <1>6. Len(list) # 0 => Len(JoinedText(list)) # 0
    BY <1>3, <1>4, FlattenNonempty
  <1> QED BY <1>5, <1>6

\* What the constructors of Segment, Transcript and TimedTranscript check
\* holds of everything normalize_transcript builds.
LEMMA NormalizedIsTranscript ==
    ASSUME NEW method, NEW language, NEW raw \in Seq(RawSegment), SegmentsOK(raw),
           NEW includeSegments \in BOOLEAN
    PROVE  IsTranscript(NormalizeTranscript(method, language, raw, includeSegments))
  <1> DEFINE segments == SortedByStart(Records(raw))
             t == NormalizeTranscript(method, language, raw, includeSegments)
  <1>1. /\ segments \in Seq(CleanSegment)
        /\ \A k \in 2 .. Len(segments) : segments[k - 1].start <= segments[k].start
    BY RecordsClean, SortedRuns
  <1>2. /\ JoinedText(segments) \in Seq(Words)
        /\ Len(segments) # 0 => Len(JoinedText(segments)) # 0
    BY <1>1, JoinedTextFacts
  <1>3. t = [method |-> method,
             language |-> IF segments = <<>> THEN "und" ELSE language,
             text |-> JoinedText(segments),
             timed |-> includeSegments,
             segments |-> IF includeSegments THEN segments ELSE <<>>]
    BY DEF NormalizeTranscript
  <1> HIDE DEF segments, t
  <1>4. /\ t.text = JoinedText(segments) /\ t.language = IF segments = <<>> THEN "und" ELSE language
        /\ t.timed = includeSegments
        /\ t.segments = IF includeSegments THEN segments ELSE <<>>
    BY <1>3
  <1>5. t.text = CollapseWhitespace(t.text)
    BY <1>2, <1>4, CollapseFacts
  <1>6. t.text = <<>> => t.language = "und"
    <2>1. t.text = <<>> => Len(segments) = 0
      BY <1>2, <1>4
    <2>2. Len(segments) = 0 => segments = <<>>
      BY <1>1
    <2> QED BY <1>4, <2>1, <2>2
  <1>7. ASSUME t.timed
        PROVE  /\ t.text = JoinedText(t.segments)
               /\ \A i \in 1 .. Len(t.segments) :
                    /\ TimesOK(t.segments[i])
                    /\ t.segments[i].text # <<>>
                    /\ t.segments[i].text = CollapseWhitespace(t.segments[i].text)
               /\ \A i \in 2 .. Len(t.segments) : t.segments[i - 1].start <= t.segments[i].start
    <2>1. t.segments = segments
      BY <1>4, <1>7
    <2>2. \A s \in CleanSegment :
            TimesOK(s) /\ Len(s.text) # 0 /\ s.text = CollapseWhitespace(s.text)
      BY CollapseFacts DEF CleanSegment
    <2>3. \A s \in CleanSegment : s.text # <<>>
      BY <2>2
    <2>4. \A i \in 1 .. Len(segments) : segments[i] \in CleanSegment
      BY <1>1
    <2>5. \A i \in 1 .. Len(segments) :
             /\ TimesOK(segments[i])
             /\ segments[i].text # <<>>
             /\ segments[i].text = CollapseWhitespace(segments[i].text)
      BY <2>2, <2>3, <2>4
    <2> QED BY <1>1, <1>4, <2>1, <2>5
  <1> QED BY <1>5, <1>6, <1>7 DEF IsTranscript, t

-----------------------------------------------------------------------------
(* Rows and responses. *)

Numbered(list) == {[ordinal |-> i - 1, segment |-> list[i]] : i \in 1 .. Len(list)}

LEMMA NumberedFacts ==
    ASSUME NEW S, NEW list \in Seq(S)
    PROVE  /\ Cardinality(Numbered(list)) = Len(list)
           /\ {r.ordinal : r \in Numbered(list)} = 0 .. Len(list) - 1
           /\ \A i \in 1 .. Len(list) :
                (CHOOSE r \in Numbered(list) : r.ordinal = i - 1).segment = list[i]
  <1> DEFINE n == Len(list)
             row(i) == [ordinal |-> i - 1, segment |-> list[i]]
             f == [i \in 1 .. n |-> row(i)]
  <1>1. n \in Nat
    OBVIOUS
  <1>2. \A i \in 1 .. n : row(i) \in Numbered(list) /\ row(i).ordinal = i - 1 /\ row(i).segment = list[i]
    BY DEF Numbered
  <1>3. \A r \in Numbered(list) : \E i \in 1 .. n : r = row(i)
    BY DEF Numbered
  <1> HIDE DEF row
  <1>4. \A i, j \in 1 .. n : row(i).ordinal = row(j).ordinal => i = j
    BY <1>1, <1>2
  <1>5. f \in Bijection(1 .. n, Numbered(list))
    <2>1. f \in [1 .. n -> Numbered(list)]
      BY <1>2
    <2>2. \A i, j \in 1 .. n : f[i] = f[j] => i = j
      BY <1>4
    <2>3. \A r \in Numbered(list) : \E i \in 1 .. n : f[i] = r
      BY <1>3
    <2> HIDE DEF f
    <2> QED BY <2>1, <2>2, <2>3 DEF Bijection, Injection, Surjection, IsInjective
  <1>6. Cardinality(Numbered(list)) = n
    <2>1. ExistsBijection(1 .. n, Numbered(list))
      BY <1>5 DEF ExistsBijection
    <2> HIDE DEF n
    <2> QED BY <1>1, <2>1, FS_CountingElements
  <1>7. {r.ordinal : r \in Numbered(list)} = 0 .. n - 1
    <2>1. \A r \in Numbered(list) : r.ordinal \in 0 .. n - 1
      <3> SUFFICES ASSUME NEW r \in Numbered(list) PROVE r.ordinal \in 0 .. n - 1
        OBVIOUS
      <3>1. PICK i \in 1 .. n : r = row(i)
        BY <1>3
      <3>2. i - 1 \in 0 .. n - 1
        BY <1>1
      <3> QED BY <1>2, <3>1, <3>2
    <2>2. \A k \in 0 .. n - 1 : \E r \in Numbered(list) : r.ordinal = k
      <3> SUFFICES ASSUME NEW k \in 0 .. n - 1 PROVE \E r \in Numbered(list) : r.ordinal = k
        OBVIOUS
      <3>1. k + 1 \in 1 .. n /\ (k + 1) - 1 = k
        BY <1>1
      <3> QED BY <1>2, <3>1
    <2> QED BY <2>1, <2>2
  <1>8. ASSUME NEW i \in 1 .. n
        PROVE  (CHOOSE r \in Numbered(list) : r.ordinal = i - 1).segment = list[i]
    <2> DEFINE c == CHOOSE r \in Numbered(list) : r.ordinal = i - 1
    <2>1. c \in Numbered(list) /\ c.ordinal = i - 1
      BY <1>2
    <2>2. PICK j \in 1 .. n : c = row(j)
      BY <1>3, <2>1
    <2>3. j = i
      BY <1>2, <1>4, <2>1, <2>2
    <2> QED BY <1>2, <2>2, <2>3
  <1> QED BY <1>6, <1>7, <1>8

\* The columns and numbered segments of a response are read as that response.
LEMMA RowsReadBack ==
    ASSUME NEW S, NEW source, NEW t, NEW excluded, t.segments \in Seq(S),
           \A f \in SourceFields : source[f] # Null,
           \A f \in TranscriptColumns : t[f] # Null
    PROVE  LET response == Project(source, t, excluded)
               row == ResultValues(response)
               segments == SegmentValues(response)
           IN  RowsReadable(row, segments, excluded) /\ ReadResponse(row, segments, excluded) = response
  <1> DEFINE response == Project(source, t, excluded)
             row == ResultValues(response)
             rows == SegmentValues(response)
             Fields == (Columns \cup {"segments"}) \ excluded
             back == ReadResponse(row, rows, excluded)
  <1>1. "segments" \notin Columns /\ "segments" \notin SourceFields
    BY DEF Columns, SourceFields, TranscriptColumns
  <1>2. /\ DOMAIN response = Fields
        /\ \A f \in Fields : response[f] = IF f \in SourceFields THEN source[f] ELSE t[f]
    BY DEF Project
  <1>3. \A c \in Columns : row[c] = IF c \in Fields THEN response[c] ELSE Null
    BY <1>2 DEF ResultValues
  <1>4. rows = IF "segments" \in Fields THEN Numbered(t.segments) ELSE {}
    <2>1. "segments" \in Fields => response.segments = t.segments
      BY <1>1, <1>2
    <2> QED BY <1>2, <2>1 DEF SegmentValues, Numbered
  <1>5. \A c \in Columns : c \notin excluded => response[c] # Null /\ row[c] = response[c]
    <2> HIDE DEF response, row
    <2> QED BY <1>2, <1>3 DEF Columns
  <1>6. \A c \in Columns : c \in excluded <=> row[c] = Null
    <2> HIDE DEF response, row
    <2> QED BY <1>3, <1>5
  <1> HIDE DEF response, row, rows
  <1>7. RowsReadable(row, rows, excluded)
    <2>1. "segments" \in excluded => rows = {}
      BY <1>4
    <2>2. {r.ordinal : r \in rows} = 0 .. Cardinality(rows) - 1
      <3>1. CASE "segments" \in Fields
        BY <1>4, <3>1, NumberedFacts
      <3>2. CASE "segments" \notin Fields
        <4>1. rows = {} /\ Cardinality({}) = 0
          BY <1>4, <3>2, FS_EmptySet
        <4> QED BY <4>1
      <3> QED BY <3>1, <3>2
    <2> QED BY <1>6, <2>1, <2>2 DEF RowsReadable
  <1>8. back = response
    <2> DEFINE list == [i \in 1 .. Cardinality(rows) |-> (CHOOSE r \in rows : r.ordinal = i - 1).segment]
    <2>1. back = [f \in Fields |-> IF f = "segments" THEN list ELSE row[f]]
      BY DEF ReadResponse
    <2>2. ASSUME "segments" \in Fields PROVE list = response["segments"]
      <3>1. response["segments"] = t.segments
        BY <1>1, <1>2, <2>2
      <3>2. rows = Numbered(t.segments)
        BY <1>4, <2>2
      <3>3. list = [i \in 1 .. Len(t.segments) |-> t.segments[i]]
        BY <3>2, NumberedFacts
      <3>4. t.segments = [i \in 1 .. Len(t.segments) |-> t.segments[i]]
        OBVIOUS
      <3> QED BY <3>1, <3>3, <3>4
    <2>3. \A f \in Fields : f # "segments" => row[f] = response[f]
      BY <1>5
    <2> HIDE DEF list
    <2>4. \A f \in Fields : back[f] = response[f]
      BY <2>1, <2>2, <2>3
    <2>5. response = [f \in Fields |-> response[f]]
      BY <1>2 DEF response, Project
    <2>6. back = [f \in Fields |-> back[f]]
      BY <2>1
    <2> HIDE DEF back, Fields
    <2> QED BY <2>4, <2>5, <2>6
  <1> QED BY <1>7, <1>8 DEF response, row, rows

-----------------------------------------------------------------------------
(* Results. *)

TranscriptOK(t, excluded) ==
    /\ IsTranscript(t) /\ CanProject(t, excluded)
    /\ t.segments \in Seq(CleanSegment)
    /\ \A f \in TranscriptColumns : t[f] # Null

StoredOK ==
    /\ RowsReadable(result.row, result.segments, result.excluded)
    /\ ReadResponse(result.row, result.segments, result.excluded) = Response("id")

SourceInv ==
    /\ url \in Url /\ duration \in Nat
    /\ stage \notin {"submitted", "ended"} => platform \in Platforms
    /\ stage = "submitted" => platform = "none"

ResultInv ==
    /\ SourceInv
    /\ DOMAIN result = {"transcript", "excluded", "row", "segments"}
    /\ stage = "publish" => TranscriptOK(result.transcript, result.excluded)
    /\ result.transcript # Null => TranscriptOK(result.transcript, result.excluded)
    /\ outcome = "internal_error" => platform = "none"
    /\ outcome = "succeeded" => StoredOK

LEMMA NormalizedOK ==
    ASSUME NEW method \in Methods, NEW language \in Languages, NEW excluded,
           NEW raw \in Seq(RawSegment), SegmentsOK(raw)
    PROVE  TranscriptOK(NormalizeTranscript(method, language, raw, "segments" \notin excluded), excluded)
  <1> DEFINE segments == SortedByStart(Records(raw))
             timed == "segments" \notin excluded
             t == NormalizeTranscript(method, language, raw, timed)
  <1>1. segments \in Seq(CleanSegment) /\ JoinedText(segments) \in Seq(Words)
    BY RecordsClean, SortedRuns, JoinedTextFacts
  <1>2. JoinedText(segments) \in Seq(STRING)
    <2>1. \A k \in 1 .. Len(JoinedText(segments)) : JoinedText(segments)[k] \in STRING
      BY <1>1 DEF Words
    <2> HIDE DEF segments
    <2> QED BY <1>1, <2>1, SequenceOf
  <1>3. timed \in BOOLEAN /\ IsTranscript(t)
    <2>1. timed \in BOOLEAN
      OBVIOUS
    <2> HIDE DEF timed
    <2> QED BY <2>1, NormalizedIsTranscript
  <1>4. t = [method |-> method,
             language |-> IF segments = <<>> THEN "und" ELSE language,
             text |-> JoinedText(segments),
             timed |-> timed,
             segments |-> IF timed THEN segments ELSE <<>>]
    BY DEF NormalizeTranscript
  <1> HIDE DEF segments, t, timed
  <1>5. /\ t.method = method /\ t.language = (IF segments = <<>> THEN "und" ELSE language)
        /\ t.text = JoinedText(segments) /\ t.timed = timed
        /\ t.segments = IF timed THEN segments ELSE <<>>
    BY <1>4
  <1>6. t.method # Null /\ t.language # Null /\ t.text # Null
    <2>1. "und" \in Languages
      BY DEF Languages
    <2>2. \A v \in Methods \cup Languages \cup Seq(STRING) : v # Null
      BY NullAssumption
    <2> QED BY <1>2, <1>5, <2>1, <2>2, Zenon
  <1>7. \A f \in TranscriptColumns : t[f] # Null
    BY <1>6 DEF TranscriptColumns
  <1>8. CanProject(t, excluded)
    BY <1>5 DEF CanProject, timed
  <1>9. t.segments \in Seq(CleanSegment)
    BY <1>1, <1>5
  <1> QED BY <1>3, <1>7, <1>8, <1>9 DEF TranscriptOK, t, timed

LEMMA UrlFacts ==
    /\ \A h \in UrlText, p \in Seq(UrlText), q \in Seq(QueryField) :
         [host |-> h, path |-> p, query |-> q] \in Url
    /\ \A u \in Url : u.host \in UrlText /\ u.path \in Seq(UrlText) /\ u.query \in Seq(QueryField)
    /\ \A u \in Url, path \in Seq(UrlText) : [u EXCEPT !.path = path] \in Url
    /\ \A u \in Url, path \in Seq(UrlText), query \in Seq(QueryField) :
         [u EXCEPT !.path = path, !.query = query] \in Url
  <1> DEFINE Record(A, B, C) == [host : A, path : B, query : C]
  <1>1. ASSUME NEW A, NEW B, NEW C
        PROVE  /\ \A a \in A, b \in B, c \in C : [host |-> a, path |-> b, query |-> c] \in Record(A, B, C)
               /\ \A u \in Record(A, B, C) : u.host \in A /\ u.path \in B /\ u.query \in C
               /\ \A u \in Record(A, B, C), b \in B : [u EXCEPT !.path = b] \in Record(A, B, C)
               /\ \A u \in Record(A, B, C), b \in B, c \in C :
                    [u EXCEPT !.path = b, !.query = c] \in Record(A, B, C)
    OBVIOUS
  <1>2. Url = Record(UrlText, Seq(UrlText), Seq(QueryField))
    BY DEF Url
  <1> HIDE DEF Record
  <1> QED BY <1>1, <1>2

\* Classification takes URLs to URLs.
LEMMA WithoutTyped ==
    ASSUME NEW query \in Seq(QueryField), NEW key
    PROVE  Without(query, key) \in Seq(QueryField) /\ Values(query) \in Seq(QueryField)
  <1>1. ASSUME NEW P \in SUBSET (1 .. Len(query)) PROVE At(query, P) \in Seq(QueryField)
    BY AtFacts
  <1>2. {i \in 1 .. Len(query) : query[i].key # key} \in SUBSET (1 .. Len(query))
    OBVIOUS
  <1>3. {i \in 1 .. Len(query) : query[i].key = "v"} \in SUBSET (1 .. Len(query))
    OBVIOUS
  <1> QED BY <1>1, <1>2, <1>3 DEF Without, Values, Selected

LEMMA TrailingSlashTyped ==
    ASSUME NEW path \in Seq(UrlText)
    PROVE  RemoveTrailingSlash(path) \in Seq(UrlText)
  <1>1. CASE Len(path) = 0
    <2>1. path = <<>>
      BY <1>1
    <2> QED BY <2>1 DEF RemoveTrailingSlash
  <1>2. CASE Len(path) # 0
    <2>1. SubSeq(path, 1, Len(path) - 1) \in Seq(UrlText)
      BY <1>2
    <2> QED BY <2>1 DEF RemoveTrailingSlash
  <1> QED BY <1>1, <1>2

LEMMA ProviderUrlTyped ==
    ASSUME NEW id \in UrlText, NEW query \in Seq(QueryField)
    PROVE  YouTubeProviderUrl(id, query) \in Url
  <1>1. <<[key |-> "v", value |-> id]>> \in Seq(QueryField)
    <2>1. [key |-> "v", value |-> id] \in QueryField
      <3>1. "v" \in UrlText
        BY DEF UrlText
      <3> QED BY <3>1 DEF QueryField
    <2>2. \A f \in QueryField : <<f>> \in Seq(QueryField)
      OBVIOUS
    <2> QED BY <2>1, <2>2
  <1>2. \A a, b \in Seq(QueryField) : a \o b \in Seq(QueryField)
    OBVIOUS
  <1>3. <<[key |-> "v", value |-> id]>> \o Without(query, "v") \in Seq(QueryField)
    BY <1>1, <1>2, WithoutTyped
  <1>4. <<"watch">> \in Seq(UrlText)
    <2>1. \A S, s : s \in S => <<s>> \in Seq(S)
      OBVIOUS
    <2>2. "watch" \in UrlText
      BY DEF UrlText
    <2> QED BY <2>1, <2>2
  <1>5. "www.youtube.com" \in UrlText
    BY DEF UrlText
  <1> QED BY <1>3, <1>4, <1>5, UrlFacts DEF YouTubeProviderUrl

Errors ==
    {"none", "invalid_url", "unsupported_platform", "metadata_retrieval_failed", "value error"}
Classified(c) ==
    c.error \in Errors /\ c.url \in Url /\ (c.error = "none" => c.platform \in Platforms)

LEMMA VerdictsTyped ==
    /\ \A error \in Errors : error # "none" => Classified(Refused(error))
    /\ \A p \in Platforms, u \in Url : Classified(Accepted(p, u))
    /\ \A p \in Platforms, u \in Url : \A accepts : Classified(AcceptIf(accepts, p, u))
  <1>1. [host |-> "", path |-> <<>>, query |-> <<>>] \in Url
    <2>1. <<>> \in Seq(UrlText) /\ <<>> \in Seq(QueryField)
      OBVIOUS
    <2>2. "" \in UrlText
      BY DEF UrlText
    <2> QED BY <2>1, <2>2, UrlFacts
  <1>2. \A error \in Errors : error # "none" => Classified(Refused(error))
    BY <1>1 DEF Classified, Refused
  <1>3. \A p \in Platforms, u \in Url : Classified(Accepted(p, u))
    BY DEF Classified, Accepted, Errors
  <1>4. "invalid_url" \in Errors
    BY DEF Errors
  <1>5. Classified(Refused("invalid_url"))
    BY <1>2, <1>4
  <1> QED BY <1>2, <1>3, <1>5 DEF AcceptIf

LEMMA ClassifyTyped == \A u \in Url : Classified(ClassifySubmittedUrl(u))
  <1> SUFFICES ASSUME NEW u \in Url PROVE Classified(ClassifySubmittedUrl(u))
    OBVIOUS
  <1>1. u.host \in UrlText /\ u.path \in Seq(UrlText) /\ u.query \in Seq(QueryField)
    BY UrlFacts
  <1>2. Classified(ClassifyYouTube(u))
    <2>1. YouTubeProviderUrl("id of eleven", u.query) \in Url
      <3>1. "id of eleven" \in UrlText
        BY DEF UrlText
      <3> QED BY <1>1, <3>1, ProviderUrlTyped
    <2>2. "invalid_url" \in Errors /\ "youtube" \in Platforms
      BY DEF Errors, Platforms
    <2> QED BY <2>1, <2>2, VerdictsTyped DEF ClassifyYouTube
  <1>3. Classified(ClassifyInstagram(u))
    <2>1. [u EXCEPT !.path = RemoveTrailingSlash(u.path)] \in Url
      BY <1>1, UrlFacts, TrailingSlashTyped
    <2>2. "instagram" \in Platforms
      BY DEF Platforms
    <2> QED BY <2>1, <2>2, VerdictsTyped DEF ClassifyInstagram
  <1>4. Classified(ClassifyFacebook(u))
    <2>1. \A path \in Seq(UrlText), query \in Seq(QueryField) : \A accepts :
             Classified(AcceptIf(accepts, "facebook", [u EXCEPT !.path = path, !.query = query]))
      <3>1. "facebook" \in Platforms
        BY DEF Platforms
      <3> QED BY <3>1, UrlFacts, VerdictsTyped
    <2>2. RemoveTrailingSlash(u.path) \in Seq(UrlText) /\ Without(u.query, "mibextid") \in Seq(QueryField)
      BY <1>1, TrailingSlashTyped, WithoutTyped
    <2>3. \A A, B, C, D : (IF A THEN B ELSE C) \in D <=> IF A THEN B \in D ELSE C \in D
      OBVIOUS
    <2> QED BY <1>1, <2>1, <2>2, <2>3, Zenon DEF ClassifyFacebook
  <1>5. \A accepts : Classified(AcceptIf(accepts, "tiktok", u)) /\ Classified(AcceptIf(accepts, "x", u))
    <2>1. "tiktok" \in Platforms /\ "x" \in Platforms
      BY DEF Platforms
    <2> QED BY <2>1, VerdictsTyped
  <1>6. /\ Classified(Refused("invalid_url")) /\ Classified(Refused("unsupported_platform"))
        /\ Classified(Refused("value error"))
    BY VerdictsTyped DEF Errors
  <1>7. Classified(ClassifyX(u))
    BY <1>5, <1>6, Zenon DEF ClassifyX
  <1> QED BY <1>2, <1>3, <1>4, <1>5, <1>6, <1>7, Zenon DEF ClassifySubmittedUrl

LEMMA CanonicalTyped ==
    ASSUME NEW source, NEW page \in Url, source.platform \in Platforms
    PROVE  Classified(CanonicalUrl(source, page))
  <1>1. CASE source.platform = "youtube"
    <2>1. <<>> \in Seq(QueryField)
      OBVIOUS
    <2>2. YouTubeProviderUrl("id of eleven", <<>>) \in Url
      <3>1. "id of eleven" \in UrlText
        BY DEF UrlText
      <3> QED BY <2>1, <3>1, ProviderUrlTyped
    <2> QED BY <1>1, <2>2, VerdictsTyped DEF CanonicalUrl
  <1>2. CASE source.platform # "youtube"
    <2> DEFINE c == ClassifySubmittedUrl(page)
    <2>1. c.url \in Url /\ c.url.host \in UrlText /\ c.url.path \in Seq(UrlText)
          /\ c.url.query \in Seq(QueryField)
      BY ClassifyTyped, UrlFacts DEF Classified
    <2>2. CanonicalSocialProviderUrl(source.platform, c.url) \in Url
      <3>1. Values(c.url.query) \in Seq(QueryField)
        BY <2>1, WithoutTyped
      <3>2. <<>> \in Seq(QueryField)
        OBVIOUS
      <3>3. "x.com" \in UrlText
        BY DEF UrlText
      <3> HIDE DEF c
      <3>4. \A host \in UrlText, query \in Seq(QueryField) :
               [host |-> host, path |-> c.url.path, query |-> query] \in Url
        BY <2>1, UrlFacts
      <3> QED BY <2>1, <3>1, <3>2, <3>3, <3>4, Zenon DEF CanonicalSocialProviderUrl
    <2>3. Classified(Refused("metadata_retrieval_failed")) /\ Classified(Refused("invalid_url"))
      BY VerdictsTyped DEF Errors
    <2>4. Classified(Accepted(source.platform, CanonicalSocialProviderUrl(source.platform, c.url)))
      BY <2>2, VerdictsTyped
    <2> QED BY <1>2, <2>3, <2>4, Zenon DEF CanonicalUrl, CanonicalSocialUrl
  <1> QED BY <1>1, <1>2

-----------------------------------------------------------------------------
(* What the steps do to the result. *)

\* A step that leaves the result alone, and either decides the job or leaves
\* what a stored result describes alone.
LEMMA ResultKept ==
    ASSUME ResultInv, SourceInv', result' = result,
           stage' = "publish" => stage = "publish",
           \/ outcome' = outcome
              /\ (outcome \in {"internal_error", "succeeded"} =>
                   platform' = platform /\ url' = url /\ duration' = duration)
           \/ outcome' \notin {"internal_error", "succeeded"}
           \/ outcome' = "internal_error" /\ platform' = "none"
    PROVE  ResultInv'
  <1>1. outcome' = "internal_error" => platform' = "none"
    BY DEF ResultInv
  <1>2. ASSUME outcome' = "succeeded" PROVE StoredOK'
    <2>1. StoredOK /\ platform' = platform /\ url' = url /\ duration' = duration
      BY <1>2 DEF ResultInv
    <2> QED BY <2>1 DEF StoredOK, Response, SourceOf
  <1>3. /\ DOMAIN result' = {"transcript", "excluded", "row", "segments"}
        /\ stage' = "publish" => TranscriptOK(result'.transcript, result'.excluded)
        /\ result'.transcript # Null => TranscriptOK(result'.transcript, result'.excluded)
    BY DEF ResultInv
  <1> QED BY <1>1, <1>2, <1>3 DEF ResultInv

LEMMA LeaveKeeps ==
    ASSUME ResultInv, NEW code, code \notin {"internal_error", "succeeded"}, Leave(code)
    PROVE  ResultInv'
  <1>1. /\ stage' = "ended" /\ result' = result
        /\ url' = url /\ platform' = platform /\ duration' = duration
        /\ outcome' \notin {"internal_error", "succeeded"}
    BY DEF Leave
  <1>2. SourceInv'
    BY <1>1 DEF ResultInv, SourceInv
  <1> QED BY <1>1, <1>2, ResultKept

LEMMA TranscribedKeeps ==
    ASSUME CoreInv, ResultInv, stage \in {"captions", "native"},
           NEW method \in Methods, NEW raw \in RawTranscripts, SegmentsOK(raw),
           Transcribed(method, raw)
    PROVE  ResultInv'
  <1>1. PICK excluded \in Exclusions, language \in Languages :
           result' = [NoResult EXCEPT
             !.transcript = NormalizeTranscript(method, language, raw, "segments" \notin excluded),
             !.excluded = excluded]
    BY DEF Transcribed
  <1> DEFINE t == NormalizeTranscript(method, language, raw, "segments" \notin excluded)
  <1>2. TranscriptOK(t, excluded)
    <2>1. raw \in Seq(RawSegment)
      BY InputsAssumption
    <2> HIDE DEF t
    <2> QED BY <2>1, NormalizedOK DEF t
  <1> HIDE DEF t
  <1>3. /\ result'.transcript = t /\ result'.excluded = excluded
        /\ DOMAIN result' = {"transcript", "excluded", "row", "segments"}
    BY <1>1 DEF NoResult, t
  <1>4. /\ stage' = "publish" /\ outcome' = outcome /\ outcome = "none"
        /\ url' = url /\ platform' = platform /\ duration' = duration
    BY DEF Transcribed, CoreInv, ThreadInv
  <1>5. SourceInv'
    BY <1>4 DEF ResultInv, SourceInv
  <1> QED BY <1>2, <1>3, <1>4, <1>5 DEF ResultInv

LEMMA AdmissionErrors ==
    ASSUME NEW canonical, canonical.error \in Errors
    PROVE  AdmissionError(canonical) \notin {"internal_error", "succeeded"}
  <1>1. KindError \in {"invalid_url", "metadata_retrieval_failed", "none"}
    BY DEF KindError
  <1>2. FieldError \in {"unsupported_media", "metadata_retrieval_failed", "none"}
    BY DEF FieldError
  <1>3. canonical.error \notin {"internal_error", "succeeded"}
    BY DEF Errors
  <1> QED BY <1>1, <1>2, <1>3, Zenon DEF AdmissionError

LEMMA SourceNotNull ==
    ASSUME SourceInv, platform \in Platforms, NEW id \in Identifiers
    PROVE  \A f \in SourceFields : SourceOf(id)[f] # Null
  <1>1. \A v \in Platforms \cup Identifiers \cup Url \cup {""} \cup Nat : v # Null
    BY NullAssumption
  <1>2. platform # Null /\ id # Null /\ url # Null /\ "" # Null /\ duration # Null
    BY <1>1 DEF SourceInv
  <1> DEFINE s == SourceOf(id)
  <1>3. /\ s.platform = platform /\ s.video_id = id /\ s.url = url /\ s.title = ""
        /\ s.description = "" /\ s.channel = "" /\ s.duration_seconds = duration
    BY DEF SourceOf
  <1> HIDE DEF s
  <1>4. /\ s["platform"] # Null /\ s["video_id"] # Null /\ s["url"] # Null /\ s["title"] # Null
        /\ s["description"] # Null /\ s["channel"] # Null /\ s["duration_seconds"] # Null
    BY <1>2, <1>3, Zenon
  <1>5. \A f \in SourceFields : s[f] # Null
    BY <1>4, Zenon DEF SourceFields
  <1> QED BY <1>5 DEF s

\* An identifier that is too long for its column is stored only where it was
\* excluded.
LEMMA OneIdentifier ==
    ASSUME NEW id \in Identifiers, NEW segments, ColumnsAccept(ResultValues(Response(id)), segments)
    PROVE  Response(id) = Response("id")
  <1>1. CASE id = "id"
    BY <1>1
  <1>2. CASE id # "id"
    <2>1. ResultValues(Response(id)).video_id # id
      BY <1>2 DEF Identifiers, ColumnsAccept
    <2>2. "video_id" \in result.excluded
      <3>1. "video_id" \in Columns /\ "video_id" \in SourceFields
        BY DEF Columns, SourceFields
      <3>2. SourceOf(id)["video_id"] = id
        BY DEF SourceOf
      <3> QED BY <2>1, <3>1, <3>2 DEF ResultValues, Response, Project
    <2>3. \A f \in SourceFields : f # "video_id" => SourceOf(id)[f] = SourceOf("id")[f]
      <3> DEFINE s == SourceOf(id)
                 t == SourceOf("id")
      <3>1. /\ s.platform = t.platform /\ s.url = t.url /\ s.title = t.title
            /\ s.description = t.description /\ s.channel = t.channel
            /\ s.duration_seconds = t.duration_seconds
        BY DEF SourceOf
      <3> HIDE DEF s, t
      <3>2. \A f \in SourceFields : f # "video_id" => s[f] = t[f]
        BY <3>1, Zenon DEF SourceFields
      <3> QED BY <3>2 DEF s, t
    <2> QED BY <2>2, <2>3 DEF Response, Project
  <1> QED BY <1>1, <1>2

\* Rows are written only of a transcript whose response they read back as;
\* an identifier the column refuses was excluded.
LEMMA PublishKeeps == CoreInv /\ ResultInv /\ Publish => ResultInv'
  <1> SUFFICES ASSUME CoreInv, ResultInv, Publish PROVE ResultInv'
    OBVIOUS
  <1>1. /\ stage = "publish" /\ stage' = "ended" /\ outcome = "none"
        /\ url' = url /\ platform' = platform /\ duration' = duration
    BY DEF Publish, CoreInv, ThreadInv
  <1>2. SourceInv /\ SourceInv' /\ platform \in Platforms
    BY <1>1 DEF ResultInv, SourceInv
  <1>3. TranscriptOK(result.transcript, result.excluded)
    BY <1>1 DEF ResultInv
  <1>4. CASE result' = result /\ outcome' \in {"cancelled", "store unavailable"}
    BY <1>1, <1>2, <1>4, ResultKept
  <1>5. CASE ~(result' = result /\ outcome' \in {"cancelled", "store unavailable"})
    <2>1. PICK id \in Identifiers :
             /\ ColumnsAccept(ResultValues(Response(id)), SegmentValues(Response(id)))
             /\ outcome' = "succeeded"
             /\ result' = [result EXCEPT !.row = ResultValues(Response(id)),
                                         !.segments = SegmentValues(Response(id))]
      BY <1>3, <1>5 DEF Publish, TranscriptOK, Identifiers
    <2>2. /\ result'.transcript = result.transcript /\ result'.excluded = result.excluded
          /\ result'.row = ResultValues(Response(id))
          /\ result'.segments = SegmentValues(Response(id))
          /\ DOMAIN result' = {"transcript", "excluded", "row", "segments"}
      BY <2>1 DEF ResultInv
    <2>3. \A f \in SourceFields : SourceOf(id)[f] # Null
      BY <1>2, SourceNotNull
    <2>4. /\ RowsReadable(result'.row, result'.segments, result'.excluded)
          /\ ReadResponse(result'.row, result'.segments, result'.excluded) = Response(id)
      <3>1. /\ result.transcript.segments \in Seq(CleanSegment)
            /\ \A f \in TranscriptColumns : result.transcript[f] # Null
        BY <1>3 DEF TranscriptOK
      <3> DEFINE source == SourceOf(id)
                 t == result.transcript
                 response == Project(source, t, result.excluded)
      <3>2. /\ RowsReadable(ResultValues(response), SegmentValues(response), result.excluded)
            /\ ReadResponse(ResultValues(response), SegmentValues(response), result.excluded) = response
        <4> HIDE DEF source, t
        <4> QED BY <2>3, <3>1, RowsReadBack DEF source, t
      <3>3. Response(id) = response
        BY DEF Response
      <3> QED BY <2>2, <3>2, <3>3
    <2>5. Response(id) = Response("id")
      BY <2>1, OneIdentifier
    <2>6. Response("id")' = Response("id")
      BY <1>1, <2>2 DEF Response, SourceOf
    <2> QED BY <1>1, <1>2, <1>3, <2>1, <2>2, <2>4, <2>5, <2>6 DEF ResultInv, StoredOK
  <1> QED BY <1>4, <1>5

LEMMA CoroutineKeepsResult == CoreInv /\ ResultInv /\ CoroutineStep => ResultInv'
  <1> SUFFICES ASSUME CoreInv, ResultInv, CoroutineStep PROVE ResultInv'
    OBVIOUS
  <1>1. outcome # "none" => stage = "ended"
    BY DEF CoreInv, ThreadInv
  <1>2. CASE Classify
    <2> DEFINE source == ClassifySubmittedUrl(url)
    <2>1. Classified(source)
      BY ClassifyTyped DEF ResultInv, SourceInv
    <2> HIDE DEF source
    <2>2. CASE source.error # "none"
      <3> DEFINE code == IF source.error = "value error" THEN "internal_error" ELSE source.error
      <3>1. Leave(code) /\ stage = "submitted"
        BY <1>2, <2>2 DEF Classify, source
      <3>2. code # "succeeded"
        BY <2>1 DEF Classified, Errors
      <3> HIDE DEF code
      <3>3. CASE code # "internal_error"
        BY <3>1, <3>2, <3>3, LeaveKeeps
      <3>4. CASE code = "internal_error"
        <4>1. /\ stage' = "ended" /\ result' = result
              /\ url' = url /\ platform' = platform /\ duration' = duration
              /\ outcome' \in {"internal_error", "cancelled"}
          BY <3>1, <3>4 DEF Leave
        <4>2. platform' = "none"
          BY <3>1, <4>1 DEF ResultInv, SourceInv
        <4>3. SourceInv'
          BY <4>1 DEF ResultInv, SourceInv
        <4> QED BY <4>1, <4>2, <4>3, ResultKept
      <3> QED BY <3>3, <3>4
    <2>3. CASE source.error = "none"
      <3>1. /\ stage' = "metadata" /\ url' = NoUrl /\ platform' = source.platform
            /\ UNCHANGED <<duration, result, outcome>> /\ outcome = "none"
        BY <1>1, <1>2, <2>3 DEF Classify, source
      <3>2. platform' \in Platforms
        BY <2>1, <2>3, <3>1 DEF Classified
      <3>3. NoUrl \in Url
        BY VerdictsTyped DEF Classified, Refused, NoUrl, Errors
      <3>4. SourceInv'
        BY <3>1, <3>2, <3>3 DEF ResultInv, SourceInv
      <3> QED BY <3>1, <3>4, ResultKept
    <2> QED BY <2>2, <2>3
  <1>3. CASE MetadataFails
    <2>1. MetadataError \notin {"internal_error", "succeeded"}
      BY DEF MetadataError
    <2>2. PICK code : code \notin {"internal_error", "succeeded"} /\ Leave(code)
      BY <1>3, <2>1 DEF MetadataFails
    <2> QED BY <2>2, LeaveKeeps
  <1>4. CASE MetadataReturns
    <2>1. PICK page \in Pages :
            LET canonical == CanonicalUrl([platform |-> platform], page)
                error == AdmissionError(canonical)
            IN  IF error # "none" THEN Leave(error)
                ELSE /\ url' = canonical.url /\ duration' = WholeSeconds(info.halves)
                     /\ stage' \in {"captions", "acquire"}
                     /\ UNCHANGED <<platform, result, outcome>>
      BY <1>4 DEF MetadataReturns
    <2> DEFINE canonical == CanonicalUrl([platform |-> platform], page)
               error == AdmissionError(canonical)
    <2>2. Classified(canonical)
      <3>1. platform \in Platforms /\ page \in Url
        BY <1>4, InputsAssumption DEF MetadataReturns, ResultInv, SourceInv
      <3> QED BY <3>1, CanonicalTyped
    <2>3. error \notin {"internal_error", "succeeded"}
      <3> HIDE DEF canonical
      <3> QED BY <2>2, AdmissionErrors DEF Classified
    <2>4. CASE error # "none"
      <3>1. Leave(error)
        BY <2>1, <2>4
      <3> HIDE DEF error
      <3> QED BY <2>3, <3>1, LeaveKeeps
    <2>5. CASE error = "none"
      <3>1. /\ url' = canonical.url /\ duration' = WholeSeconds(info.halves)
            /\ stage' \in {"captions", "acquire"}
            /\ UNCHANGED <<platform, result, outcome>>
        BY <2>1, <2>5
      <3> HIDE DEF canonical, error
      <3>2. stage = "metadata" /\ outcome = "none" /\ platform \in Platforms
        BY <1>1, <1>4 DEF MetadataReturns, ResultInv, SourceInv
      <3>3. duration' \in Nat
        BY <3>1, DataFacts, RecordFacts, SecondsFacts DEF CoreInv, DataTypeOK
      <3>4. SourceInv'
        BY <2>2, <3>1, <3>2, <3>3 DEF SourceInv, Classified
      <3> QED BY <3>1, <3>2, <3>4, ResultKept
    <2> QED BY <2>4, <2>5
  <1>5. CASE CaptionsReturn
    <2>1. CASE Leave("cancelled")
      BY <2>1, LeaveKeeps
    <2>2. CASE \E raw \in RawTranscripts : SegmentsOK(raw) /\ Transcribed("youtube_captions", raw)
      <3>1. stage = "captions" /\ "youtube_captions" \in Methods
        BY <1>5 DEF CaptionsReturn, Methods
      <3> QED BY <2>2, <3>1, TranscribedKeeps
    <2>3. CASE stage' = "acquire" /\ UNCHANGED <<url, platform, duration, result, outcome>>
      <3>1. platform \in Platforms
        BY <1>5 DEF CaptionsReturn, ResultInv, SourceInv
      <3>2. SourceInv'
        BY <2>3, <3>1 DEF ResultInv, SourceInv
      <3> QED BY <2>3, <3>2, ResultKept
    <2> QED BY <1>5, <2>1, <2>2, <2>3 DEF CaptionsReturn
  <1>6. CASE AcquireAudio
    <2>1. CASE Leave("audio_download_failed")
      BY <2>1, LeaveKeeps
    <2>2. CASE stage' \in {"validate", "audio"} /\ UNCHANGED <<url, platform, duration, result, outcome>>
      <3>1. platform \in Platforms
        BY <1>6 DEF AcquireAudio, ResultInv, SourceInv
      <3>2. SourceInv'
        BY <2>2, <3>1 DEF ResultInv, SourceInv
      <3> QED BY <2>2, <3>2, ResultKept
    <2> QED BY <1>6, <2>1, <2>2 DEF AcquireAudio
  <1>7. CASE ValidatePrepared
    <2>1. CASE \E code \in {"audio_download_failed", "unsupported_media", "cancelled"} : Leave(code)
      BY <2>1, LeaveKeeps
    <2>2. CASE stage' = "native" /\ UNCHANGED <<url, platform, duration, result, outcome>>
      <3>1. platform \in Platforms
        BY <1>7 DEF ValidatePrepared, ResultInv, SourceInv
      <3>2. SourceInv'
        BY <2>2, <3>1 DEF ResultInv, SourceInv
      <3> QED BY <2>2, <3>2, ResultKept
    <2> QED BY <1>7, <2>1, <2>2 DEF ValidatePrepared
  <1>8. CASE AudioReturns
    <2>1. DownloadError \notin {"internal_error", "succeeded"}
      BY DEF DownloadError
    <2>2. CASE \E code : code \notin {"internal_error", "succeeded"} /\ Leave(code)
      BY <2>2, LeaveKeeps
    <2>3. CASE stage' = "native" /\ UNCHANGED <<url, platform, duration, result, outcome>>
      <3>1. platform \in Platforms
        BY <1>8 DEF AudioReturns, ResultInv, SourceInv
      <3>2. SourceInv'
        BY <2>3, <3>1 DEF ResultInv, SourceInv
      <3> QED BY <2>3, <3>2, ResultKept
    <2> QED BY <1>8, <2>1, <2>2, <2>3 DEF AudioReturns
  <1>9. CASE NativeReturns
    <2>1. CASE \E code \in {"transcription_failed", "transcription_timeout", "cancelled"} : Leave(code)
      BY <2>1, LeaveKeeps
    <2>2. CASE \E raw \in RawTranscripts : SegmentsOK(raw) /\ Transcribed("faster_whisper", raw)
      <3>1. stage = "native" /\ "faster_whisper" \in Methods
        BY <1>9 DEF NativeReturns, Methods
      <3> QED BY <2>2, <3>1, TranscribedKeeps
    <2> QED BY <1>9, <2>1, <2>2 DEF NativeReturns
  <1>10. CASE Publish
    BY <1>10, PublishKeeps
  <1> QED BY <1>2, <1>3, <1>4, <1>5, <1>6, <1>7, <1>8, <1>9, <1>10 DEF CoroutineStep

LEMMA ResultStep == CoreInv /\ ResultInv /\ [Next]_vars => ResultInv'
  <1> SUFFICES ASSUME CoreInv, ResultInv, [Next]_vars PROVE ResultInv'
    OBVIOUS
  <1>1. CASE UNCHANGED <<stage, url, platform, duration, result, outcome>>
    <2>1. SourceInv'
      BY <1>1 DEF ResultInv, SourceInv
    <2> QED BY <1>1, <2>1, ResultKept
  <1>2. CASE CoroutineStep
    BY <1>2, CoroutineKeepsResult
  <1>3. UNCHANGED vars \/ TimesOut \/ RequestCancellation \/ DeadlinePasses =>
          UNCHANGED <<stage, url, platform, duration, result, outcome>>
    BY DEF vars, job, TimesOut, RequestCancellation, DeadlinePasses
  <1>4. ThreadStep => UNCHANGED <<stage, url, platform, duration, result, outcome>>
    BY DEF ThreadStep, RetrievalStep, CaptionStep, ExtractReturns, PrepareDirectory,
      DurationReturns, Probe, DownloadReturns, job
  <1> QED BY <1>1, <1>2, <1>3, <1>4 DEF Next

-----------------------------------------------------------------------------
(* Canonical URLs. *)

\* The classification once the platform is known.
Verdict(p, u) ==
    CASE p = "youtube" -> ClassifyYouTube(u)
      [] p = "instagram" -> ClassifyInstagram(u)
      [] p = "facebook" -> ClassifyFacebook(u)
      [] p = "tiktok" -> AcceptIf(IsSegments(u.path) /\ TikTokAccepts(u.host, u.path), "tiktok", u)
      [] OTHER -> ClassifyX(u)

HostsOf(p) == PlatformHosts(p) \cup ShortHosts(p)

LEMMA HostsDiffer ==
    \A p \in Platforms, q \in Platforms : \A host : host \in HostsOf(p) /\ host \in HostsOf(q) => p = q
  <1> SUFFICES ASSUME NEW p \in Platforms, NEW q \in Platforms, NEW host,
                      host \in HostsOf(p), host \in HostsOf(q)
               PROVE  p = q
    OBVIOUS
  <1> USE DEF HostsOf, PlatformHosts, ShortHosts, YouTubeHosts, InstagramHosts, FacebookHosts,
        TikTokHosts, XHosts
  <1>1. CASE p = "youtube"
    BY <1>1 DEF Platforms
  <1>2. CASE p = "instagram"
    BY <1>2 DEF Platforms
  <1>3. CASE p = "facebook"
    BY <1>3 DEF Platforms
  <1>4. CASE p = "tiktok"
    BY <1>4 DEF Platforms
  <1>5. CASE p = "x"
    BY <1>5 DEF Platforms
  <1> QED BY <1>1, <1>2, <1>3, <1>4, <1>5 DEF Platforms

LEMMA ShortDiffer == \A p \in Platforms : \A host : host \in PlatformHosts(p) => host \notin ShortHosts(p)
  BY DEF Platforms, PlatformHosts, ShortHosts, YouTubeHosts, InstagramHosts, FacebookHosts,
    TikTokHosts, XHosts

LEMMA Dispatch ==
    /\ \A p \in Platforms : \A u : u.host \in HostsOf(p) => ClassifySubmittedUrl(u) = Verdict(p, u)
    /\ \A u : ClassifySubmittedUrl(u).error = "none" => \E p \in Platforms : u.host \in HostsOf(p)
  <1>1. ASSUME NEW p \in Platforms, NEW u, u.host \in HostsOf(p)
        PROVE  ClassifySubmittedUrl(u) = Verdict(p, u)
    <2>1. p \in HostPlatform(u.host) /\ \A q \in HostPlatform(u.host) : q = p
      BY <1>1, HostsDiffer DEF HostPlatform, HostsOf
    <2>2. HostPlatform(u.host) # {} /\ (CHOOSE q \in Platforms : q \in HostPlatform(u.host)) = p
      BY <2>1
    <2> QED BY <2>2, Zenon DEF ClassifySubmittedUrl, Verdict
  <1>2. ASSUME NEW u, ClassifySubmittedUrl(u).error = "none"
        PROVE  \E p \in Platforms : u.host \in HostsOf(p)
    <2>1. CASE HostPlatform(u.host) = {}
      <3>1. ClassifySubmittedUrl(u) = Refused(IF u.host \in DeceptiveHosts THEN "invalid_url" ELSE "unsupported_platform")
        BY <2>1 DEF ClassifySubmittedUrl
      <3>2. \A error : Refused(error).error = error
        BY DEF Refused
      <3> QED BY <1>2, <3>1, <3>2
    <2>2. CASE HostPlatform(u.host) # {}
      BY <2>2 DEF HostPlatform, HostsOf
    <2> QED BY <2>1, <2>2
  <1> QED BY <1>1, <1>2

\* Lists of query fields.
LEMMA FieldFacts ==
    ASSUME NEW query \in Seq(QueryField), NEW key
    PROVE  /\ \A i \in 1 .. Len(Without(query, key)) :
                /\ Without(query, key)[i].key # key
                /\ \E j \in 1 .. Len(query) : Without(query, key)[i] = query[j]
           /\ \A i \in 1 .. Len(Values(query)) : Values(query)[i].key = "v"
           /\ (\A i \in 1 .. Len(query) : query[i].key # key) => Without(query, key) = query
           /\ (\A i \in 1 .. Len(query) : query[i].key = "v") => Values(query) = query
  <1> DEFINE P == {i \in 1 .. Len(query) : query[i].key # key}
             V == {i \in 1 .. Len(query) : query[i].key = "v"}
  <1>1. Without(query, key) = At(query, P) /\ Values(query) = At(query, V)
    BY DEF Without, Values, Selected
  <1>2. P \in SUBSET (1 .. Len(query)) /\ V \in SUBSET (1 .. Len(query))
    OBVIOUS
  <1>3. /\ \A i \in P : i \in 1 .. Len(query) /\ query[i].key # key
        /\ \A i \in V : query[i].key = "v"
    OBVIOUS
  <1>4. (\A i \in 1 .. Len(query) : query[i].key # key) => P = 1 .. Len(query)
    OBVIOUS
  <1>5. (\A i \in 1 .. Len(query) : query[i].key = "v") => V = 1 .. Len(query)
    OBVIOUS
  <1> HIDE DEF P, V
  <1>6. /\ \A i \in 1 .. Len(At(query, P)) : \E j \in P : At(query, P)[i] = query[j]
        /\ \A i \in 1 .. Len(At(query, V)) : \E j \in V : At(query, V)[i] = query[j]
    BY <1>2, AtFacts
  <1>7. At(query, 1 .. Len(query)) = query
    BY AtAll
  <1> DEFINE w == At(query, P)
             v == At(query, V)
  <1>8. /\ \A i \in 1 .. Len(w) : w[i].key # key /\ \E j \in 1 .. Len(query) : w[i] = query[j]
        /\ \A i \in 1 .. Len(v) : v[i].key = "v"
    <2> HIDE DEF w, v
    <2> QED BY <1>3, <1>6 DEF w, v
  <1>9. /\ (\A i \in 1 .. Len(query) : query[i].key # key) => w = query
        /\ (\A i \in 1 .. Len(query) : query[i].key = "v") => v = query
    BY <1>4, <1>5, <1>7, Zenon
  <1> QED BY <1>1, <1>8, <1>9, Zenon

\* A list without its first element.
LEMMA AtTail ==
    ASSUME NEW S, NEW a \in S, NEW rest \in Seq(S)
    PROVE  /\ At(<<a>> \o rest, 2 .. Len(rest) + 1) = rest
           /\ At(<<a>> \o rest, {1}) = <<a>>
  <1> DEFINE n == Len(rest)
             D == 2 .. n + 1
             shift == [k \in 1 .. n |-> k + 1]
             list == <<a>> \o rest
  <1>1. n \in Nat
    OBVIOUS
  <1>2. IsFiniteSet(D) /\ Cardinality(D) = n /\ D \in SUBSET Nat
    <2>1. 2 \in Int /\ n + 1 \in Int
      BY <1>1
    <2>2. IsFiniteSet(D) /\ Cardinality(D) = IF 2 > n + 1 THEN 0 ELSE (n + 1) - 2 + 1
      BY <2>1, FS_Interval
    <2>3. D \in SUBSET Nat
      BY <1>1
    <2> HIDE DEF n, D
    <2> QED BY <1>1, <2>2, <2>3
  <1>3. Enumerates(InOrder(D), D)
    <2> HIDE DEF D
    <2> QED BY <1>2, InOrderEnumerates
  <1>4. Enumerates(shift, D)
    <2>1. /\ shift \in [1 .. n -> D]
          /\ \A i, j \in 1 .. n : i < j => shift[i] < shift[j]
          /\ \A m \in D : \E i \in 1 .. n : shift[i] = m
      <3> HIDE DEF n
      <3>1. \A m \in D : m - 1 \in 1 .. n /\ shift[m - 1] = m
        BY <1>1
      <3> QED BY <1>1, <3>1
    <2> HIDE DEF n, D, shift
    <2> QED BY <1>2, <2>1 DEF Enumerates
  <1>5. InOrder(D) = shift
    <2> HIDE DEF D, shift
    <2> QED BY <1>2, <1>3, <1>4, OneEnumeration
  <1>6. \A k \in 1 .. n : Nth(D, k) = k + 1
    <2>1. InOrder(D) = [k \in 1 .. n |-> Nth(D, k)]
      <3> HIDE DEF D, n
      <3> QED BY <1>2 DEF InOrder
    <2> HIDE DEF D, n
    <2> QED BY <1>5, <2>1
  <1>7. /\ \A k \in 1 .. n : list[k + 1] = rest[k]
        /\ list[1] = a
    OBVIOUS
  <1>8. At(list, D) = rest
    <2>1. At(list, D) = [k \in 1 .. n |-> list[Nth(D, k)]]
      <3> HIDE DEF D, n, list
      <3> QED BY <1>2 DEF At
    <2>2. rest = [k \in 1 .. n |-> rest[k]]
      OBVIOUS
    <2>3. \A k \in 1 .. n : list[Nth(D, k)] = rest[k]
      <3> HIDE DEF D, n, list
      <3> QED BY <1>6, <1>7
    <2> HIDE DEF D, n, list
    <2> QED BY <2>1, <2>2, <2>3
  <1>9. At(list, {1}) = <<a>>
    <2>1. IsFiniteSet({1}) /\ Cardinality({1}) = 1
      BY FS_Singleton
    <2>2. Enumerates(InOrder({1}), {1})
      BY <2>1, InOrderEnumerates
    <2>3. InOrder({1})[1] \in {1}
      BY <2>1, <2>2 DEF Enumerates
    <2>4. Nth({1}, 1) = 1
      BY <2>1, <2>3 DEF InOrder
    <2>5. At(list, {1}) = [k \in 1 .. 1 |-> list[Nth({1}, k)]]
      BY <2>1 DEF At
    <2>6. At(list, {1}) = [k \in 1 .. 1 |-> a]
      <3> HIDE DEF list
      <3> QED BY <1>7, <2>4, <2>5
    <2> QED BY <2>6
  <1> QED BY <1>8, <1>9 DEF list, D, n

\* The provider URL of a YouTube video names it with one identity field.
LEMMA ProviderQuery ==
    ASSUME NEW id \in UrlText, NEW query \in Seq(QueryField),
           \A i \in 1 .. Len(query) : query[i].key # "V"
    PROVE  LET list == YouTubeProviderUrl(id, query).query
           IN  /\ HasVideo(list) /\ Video(list) = id
               /\ Without(list, "v") = Without(query, "v")
  <1> DEFINE field == [key |-> "v", value |-> id]
             rest == Without(query, "v")
             list == <<field>> \o rest
             n == Len(rest)
  <1>1. rest \in Seq(QueryField) /\ n \in Nat
    BY WithoutTyped
  <1>2. field \in QueryField /\ field.key = "v" /\ field.value = id
    <2>1. "v" \in UrlText
      BY DEF UrlText
    <2> QED BY <2>1 DEF QueryField
  <1>3. \A i \in 1 .. n : rest[i].key # "v" /\ rest[i].key # "V"
    BY FieldFacts
  <1>4. YouTubeProviderUrl(id, query).query = list
    BY DEF YouTubeProviderUrl
  <1> HIDE DEF rest, field
  <1>5. /\ Len(list) = n + 1 /\ list[1] = field
        /\ \A i \in 2 .. n + 1 : i - 1 \in 1 .. n /\ list[i] = rest[i - 1]
    BY <1>1, <1>2
  <1>6. /\ At(list, {1}) = <<field>> /\ At(list, 2 .. n + 1) = rest
    BY <1>1, <1>2, AtTail
  <1> HIDE DEF list, n
  <1>7. /\ list[1].key = "v" /\ list[1].key # "V"
        /\ \A i \in 2 .. n + 1 : list[i].key # "v" /\ list[i].key # "V"
    BY <1>2, <1>3, <1>5
  <1>8. \A i \in 1 .. n + 1 : i = 1 \/ i \in 2 .. n + 1
    BY <1>1
  <1>9. 1 \in 1 .. n + 1 /\ 1 \notin 2 .. n + 1 /\ (2 .. n + 1) \subseteq 1 .. n + 1
    BY <1>1
  <1>10. /\ {i \in 1 .. n + 1 : list[i].key = "v"} = {1}
         /\ {i \in 1 .. n + 1 : list[i].key # "v"} = 2 .. n + 1
    BY <1>7, <1>8, <1>9
  <1>11. Values(list) = <<field>> /\ Without(list, "v") = rest
    BY <1>5, <1>6, <1>10 DEF Values, Without, Selected
  <1>12. Len(Values(list)) = 1 /\ Values(list)[1] = field
    BY <1>11
  <1>13. \A i \in 1 .. Len(list) : list[i].key # "V"
    BY <1>5, <1>7, <1>8
  <1>14. HasVideo(list) /\ Video(list) = id
    BY <1>2, <1>12, <1>13 DEF HasVideo, VideoQueryOK, Video
  <1> QED BY <1>4, <1>11, <1>14 DEF rest

\* An accepted URL of platform p: what classification and the canonical URL
\* make of it stays as it is.
Fixed(p, v) == v.host \in HostsOf(p) /\ Verdict(p, v) = Accepted(p, v)
Canonical(p, c) ==
    /\ c.host \in PlatformHosts(p) /\ Verdict(p, c) = Accepted(p, c)
    /\ p = "youtube" => c = YouTubeProviderUrl("id of eleven", <<>>)
    /\ p # "youtube" => CanonicalSocialProviderUrl(p, c) = c

LEMMA YouTubeStable ==
    /\ \A u \in Url : ClassifyYouTube(u).error = "none" =>
         \E v : ClassifyYouTube(u) = Accepted("youtube", v) /\ Fixed("youtube", v)
    /\ Canonical("youtube", YouTubeProviderUrl("id of eleven", <<>>))
  <1> DEFINE id == "id of eleven"
             At11(query) == YouTubeProviderUrl(id, query)
  <1>1. id \in UrlText /\ IsVideoId(id)
    BY DEF UrlText, IsVideoId
  <1> HIDE DEF id
  <1>2. ASSUME NEW query \in Seq(QueryField), \A i \in 1 .. Len(query) : query[i].key # "V"
        PROVE  ClassifyYouTube(At11(query)) = Accepted("youtube", At11(query))
    <2> DEFINE v == At11(query)
    <2>1. HasVideo(v.query) /\ Video(v.query) = id /\ Without(v.query, "v") = Without(query, "v")
      BY <1>1, <1>2, ProviderQuery
    <2>2. v.host = "www.youtube.com" /\ v.path = <<"watch">>
      BY DEF YouTubeProviderUrl
    <2>3. YouTubeProviderUrl(id, v.query) = v
      BY <2>1 DEF YouTubeProviderUrl
    <2> HIDE DEF v
    <2>4. IsSegments(v.path)
      <3>1. Len(v.path) = 1 /\ v.path[1] = "watch" /\ Len(<<>>) = 0
        BY <2>2
      <3>2. v.path # <<>>
        BY <3>1
      <3>3. \A i \in 1 .. Len(v.path) : v.path[i] # ""
        <4>1. \A i \in 1 .. 1 : i = 1
          OBVIOUS
        <4>2. v.path[1] # ""
          BY <3>1
        <4> QED BY <3>1, <4>1, <4>2, Zenon
      <3> QED BY <3>2, <3>3, Zenon DEF IsSegments
    <2>5. YouTubeCandidates(v.host, v.path, v.query) = {id}
      BY <2>1, <2>2 DEF YouTubeCandidates, HasVideo
    <2>6. YouTubeAccepts(v.host, v.path, v.query)
      BY <1>1, <2>5 DEF YouTubeAccepts
    <2> QED BY <2>3, <2>4, <2>6 DEF ClassifyYouTube, id, v
  <1>3. \A query : At11(query).host \in PlatformHosts("youtube") /\ At11(query).host \in HostsOf("youtube")
    BY DEF YouTubeProviderUrl, PlatformHosts, HostsOf, YouTubeHosts
  <1>4. \A v : Verdict("youtube", v) = ClassifyYouTube(v)
    BY DEF Verdict
  <1>5. ASSUME NEW u \in Url, ClassifyYouTube(u).error = "none"
        PROVE  ClassifyYouTube(u) = Accepted("youtube", At11(u.query)) /\ Fixed("youtube", At11(u.query))
    <2>1. YouTubeAccepts(u.host, u.path, u.query) /\ ClassifyYouTube(u) = Accepted("youtube", At11(u.query))
      BY <1>5 DEF ClassifyYouTube, Refused, id
    <2>2. VideoQueryOK(u.query)
      BY <2>1, Zenon DEF YouTubeAccepts, YouTubeCandidates
    <2>3. u.query \in Seq(QueryField) /\ \A i \in 1 .. Len(u.query) : u.query[i].key # "V"
      BY <2>2, UrlFacts DEF VideoQueryOK
    <2> HIDE DEF At11
    <2> QED BY <1>2, <1>3, <1>4, <2>1, <2>3 DEF Fixed
  <1>6. Canonical("youtube", At11(<<>>))
    <2>1. <<>> \in Seq(QueryField) /\ Len(<<>>) = 0
      OBVIOUS
    <2>2. ClassifyYouTube(At11(<<>>)) = Accepted("youtube", At11(<<>>))
      <3> DEFINE none == <<>>
      <3>1. \A i \in 1 .. Len(none) : none[i].key # "V"
        BY <2>1
      <3>2. none \in Seq(QueryField)
        BY <2>1
      <3> HIDE DEF At11, none
      <3>3. ClassifyYouTube(At11(none)) = Accepted("youtube", At11(none))
        BY <1>2, <3>1, <3>2
      <3> QED BY <3>3 DEF none
    <2> QED BY <1>3, <1>4, <2>2 DEF Canonical, id
  <1> QED BY <1>5, <1>6 DEF id

\* Removing a trailing slash leaves proper segments alone.
LEMMA SegmentsFacts ==
    ASSUME NEW path \in Seq(UrlText), IsSegments(path)
    PROVE  Len(path) \in Nat \ {0} /\ RemoveTrailingSlash(path) = path
  <1>1. Len(path) \in Nat
    OBVIOUS
  <1>2. Len(path) # 0
    <2>1. path # <<>>
      BY DEF IsSegments
    <2>2. Len(path) = 0 => path = <<>>
      OBVIOUS
    <2> QED BY <2>1, <2>2
  <1>3. Len(path) \in 1 .. Len(path)
    BY <1>1, <1>2
  <1>4. path[Len(path)] # ""
    BY <1>3 DEF IsSegments
  <1> QED BY <1>1, <1>2, <1>4 DEF RemoveTrailingSlash

\* A record of two or three fields that is changed to what it is.
LEMMA SameUrl ==
    /\ \A u \in Url : [u EXCEPT !.path = u.path] = u
    /\ \A u \in Url : \A path, query :
         LET v == [u EXCEPT !.path = path, !.query = query]
         IN  v.host = u.host /\ v.path = path /\ v.query = query
    /\ \A u \in Url : [u EXCEPT !.path = u.path, !.query = u.query] = u
  BY DEF Url

LEMMA AcceptFacts ==
    \A accepts \in BOOLEAN : \A p, v :
      /\ accepts => AcceptIf(accepts, p, v) = Accepted(p, v)
      /\ AcceptIf(accepts, p, v).error = "none" => accepts
  BY DEF AcceptIf, Accepted, Refused

\* Query fields that do not name the video are dropped.
Stripped(p, u) ==
    IF p = "facebook" /\ u.path \in FacebookQueryPaths THEN Values(u.query) ELSE <<>>

LEMMA SocialFacts ==
    ASSUME NEW p, NEW u \in Url
    PROVE  LET c == CanonicalSocialProviderUrl(p, u)
           IN  /\ c.host = (IF p = "x" THEN "x.com" ELSE u.host) /\ c.path = u.path
               /\ c.query = Stripped(p, u)
               /\ c \in Url
               /\ CanonicalSocialProviderUrl(p, c) = c
  <1> DEFINE c == CanonicalSocialProviderUrl(p, u)
  <1>1. /\ c.host = (IF p = "x" THEN "x.com" ELSE u.host) /\ c.path = u.path
        /\ c.query = Stripped(p, u)
    BY DEF CanonicalSocialProviderUrl, Stripped
  <1>2. u.host \in UrlText /\ u.path \in Seq(UrlText) /\ u.query \in Seq(QueryField)
    BY UrlFacts
  <1>3. Values(u.query) \in Seq(QueryField) /\ Values(Values(u.query)) = Values(u.query)
    <2>1. Values(u.query) \in Seq(QueryField)
      BY <1>2, WithoutTyped
    <2> QED BY <1>2, <2>1, FieldFacts
  <1>4. c \in Url
    <2>1. <<>> \in Seq(QueryField)
      OBVIOUS
    <2>2. "x.com" \in UrlText
      BY DEF UrlText
    <2>3. \A host \in UrlText, query \in Seq(QueryField) :
             [host |-> host, path |-> u.path, query |-> query] \in Url
      BY <1>2, UrlFacts
    <2> QED BY <1>2, <1>3, <2>1, <2>2, <2>3, Zenon DEF CanonicalSocialProviderUrl
  <1>5. CanonicalSocialProviderUrl(p, c) = c
    <2>1. Stripped(p, c) = Stripped(p, u)
      <3> HIDE DEF c
      <3> QED BY <1>1, <1>3 DEF Stripped
    <2>2. \A v : CanonicalSocialProviderUrl(p, v) =
                   [host |-> IF p = "x" THEN "x.com" ELSE v.host, path |-> v.path, query |-> Stripped(p, v)]
      BY DEF CanonicalSocialProviderUrl, Stripped
    <2>3. c = [host |-> IF p = "x" THEN "x.com" ELSE u.host, path |-> u.path, query |-> Stripped(p, u)]
      BY <2>2
    <2> HIDE DEF c
    <2> QED BY <1>1, <2>1, <2>2, <2>3, Zenon
  <1> QED BY <1>1, <1>4, <1>5

\* What an accepted URL of a social platform becomes is accepted again, and
\* so is the canonical URL of a resolved one.
StableFor(p, u, v) ==
    /\ v \in Url /\ v.host = u.host
    /\ Verdict(p, u) = Accepted(p, v) /\ Fixed(p, v)
    /\ u.host \in PlatformHosts(p) => Canonical(p, CanonicalSocialProviderUrl(p, v))

LEMMA InstagramStable ==
    ASSUME NEW u \in Url, u.host \in HostsOf("instagram"), Verdict("instagram", u).error = "none"
    PROVE  \E v : StableFor("instagram", u, v)
  <1> DEFINE path == RemoveTrailingSlash(u.path)
             v == [u EXCEPT !.path = path]
             c == CanonicalSocialProviderUrl("instagram", v)
  <1>1. \A w : Verdict("instagram", w) =
                 LET p == RemoveTrailingSlash(w.path)
                 IN  AcceptIf(IsSegments(p) /\ InstagramAccepts(p), "instagram", [w EXCEPT !.path = p])
    BY DEF Verdict, ClassifyInstagram
  <1>2. path \in Seq(UrlText) /\ v \in Url /\ v.host = u.host /\ v.path = path
    <2>1. path \in Seq(UrlText)
      BY UrlFacts, TrailingSlashTyped
    <2>2. \A p : [u EXCEPT !.path = p].host = u.host /\ [u EXCEPT !.path = p].path = p
      BY DEF Url
    <2> QED BY <2>1, <2>2, UrlFacts
  <1>3. IsSegments(path) /\ InstagramAccepts(path) /\ Verdict("instagram", u) = Accepted("instagram", v)
    BY <1>1, AcceptFacts
  <1> HIDE DEF path, v
  <1>4. RemoveTrailingSlash(path) = path
    BY <1>2, <1>3, SegmentsFacts
  <1>5. ASSUME NEW w \in Url, w.path = path
        PROVE  Verdict("instagram", w) = Accepted("instagram", w)
    <2>1. [w EXCEPT !.path = path] = w
      BY <1>5, SameUrl
    <2>2. Verdict("instagram", w) =
            AcceptIf(IsSegments(path) /\ InstagramAccepts(path), "instagram", w)
      BY <1>1, <1>4, <1>5, <2>1
    <2> QED BY <1>3, <2>2, AcceptFacts
  <1>6. c \in Url /\ c.path = path /\ c.host = u.host /\ CanonicalSocialProviderUrl("instagram", c) = c
    BY <1>2, SocialFacts
  <1> HIDE DEF c
  <1>7. Fixed("instagram", v)
    BY <1>2, <1>5 DEF Fixed
  <1>8. u.host \in PlatformHosts("instagram") => Canonical("instagram", c)
    BY <1>5, <1>6 DEF Canonical
  <1> QED BY <1>2, <1>3, <1>7, <1>8 DEF StableFor, c

LEMMA TikTokStable ==
    ASSUME NEW u \in Url, u.host \in HostsOf("tiktok"), Verdict("tiktok", u).error = "none"
    PROVE  \E v : StableFor("tiktok", u, v)
  <1> DEFINE c == CanonicalSocialProviderUrl("tiktok", u)
  <1>1. \A w : Verdict("tiktok", w) =
                 AcceptIf(IsSegments(w.path) /\ TikTokAccepts(w.host, w.path), "tiktok", w)
    BY DEF Verdict
  <1>2. IsSegments(u.path) /\ TikTokAccepts(u.host, u.path)
    BY <1>1, AcceptFacts
  <1>3. ASSUME NEW w, w.host = u.host, w.path = u.path
        PROVE  Verdict("tiktok", w) = Accepted("tiktok", w)
    BY <1>1, <1>2, <1>3, AcceptFacts
  <1>4. c \in Url /\ c.path = u.path /\ c.host = u.host /\ CanonicalSocialProviderUrl("tiktok", c) = c
    BY SocialFacts
  <1> HIDE DEF c
  <1>5. Fixed("tiktok", u) /\ Verdict("tiktok", u) = Accepted("tiktok", u)
    BY <1>3 DEF Fixed
  <1>6. u.host \in PlatformHosts("tiktok") => Canonical("tiktok", c)
    BY <1>3, <1>4 DEF Canonical
  <1> QED BY <1>5, <1>6 DEF StableFor, c

LEMMA XStable ==
    ASSUME NEW u \in Url, u.host \in HostsOf("x"), Verdict("x", u).error = "none"
    PROVE  \E v : StableFor("x", u, v)
  <1> DEFINE c == CanonicalSocialProviderUrl("x", u)
  <1>1. \A w : Verdict("x", w) = ClassifyX(w)
    BY DEF Verdict
  <1>2. IsSegments(u.path) /\ ~XRaises(u.host, u.path) /\ XAccepts(u.host, u.path)
    <2>1. ClassifyX(u).error = "none"
      BY <1>1
    <2>2. Refused("value error").error # "none"
      BY DEF Refused
    <2>3. ~(IsSegments(u.path) /\ XRaises(u.host, u.path))
      BY <2>1, <2>2, Zenon DEF ClassifyX
    <2>4. ClassifyX(u) = AcceptIf(IsSegments(u.path) /\ XAccepts(u.host, u.path), "x", u)
      BY <2>3, Zenon DEF ClassifyX
    <2> QED BY <2>1, <2>3, <2>4, AcceptFacts
  <1>7. \A w : w.path = u.path /\ ~XRaises(w.host, w.path) /\ XAccepts(w.host, w.path)
               => ClassifyX(w) = Accepted("x", w)
    BY <1>2, AcceptFacts, Zenon DEF ClassifyX
  <1>3. Fixed("x", u) /\ Verdict("x", u) = Accepted("x", u)
    BY <1>1, <1>2, <1>7 DEF Fixed
  <1>4. c \in Url /\ c.path = u.path /\ c.host = "x.com" /\ CanonicalSocialProviderUrl("x", c) = c
    BY SocialFacts
  <1> HIDE DEF c
  <1>5. ASSUME u.host \in PlatformHosts("x") PROVE Canonical("x", c)
    <2>1. "x.com" \in PlatformHosts("x") /\ "x" \in Platforms
      BY DEF PlatformHosts, XHosts, Platforms
    <2>2. u.host \notin ShortHosts("x") /\ "x.com" \notin ShortHosts("x")
      BY <1>5, <2>1, ShortDiffer
    <2>3. XAccepts("x.com", u.path)
      BY <1>2, <2>2, Zenon DEF XAccepts
    <2>4. ~XRaises("x.com", u.path)
      BY <1>2, <2>2, Zenon DEF XRaises
    <2> QED BY <1>1, <1>7, <1>4, <2>1, <2>3, <2>4 DEF Canonical
  <1> QED BY <1>3, <1>5 DEF StableFor, c

\* What ClassifyFacebook makes of a path and a query.
CleanPath(host, path) ==
    IF \/ host \in FacebookHosts /\ Len(path) >= 3 /\ SubSeq(path, 1, 2) = <<"share", "v">>
       \/ host \in FacebookHosts /\ path = <<"watch", "">>
    THEN RemoveTrailingSlash(path) ELSE path
CleanQuery(host, path, query) ==
    IF host \in FacebookHosts /\ path # <<>> /\ path[1] = "share" THEN Without(query, "mibextid") ELSE query

LEMMA FacebookQueries ==
    ASSUME NEW host, NEW path \in Seq(UrlText), NEW query \in Seq(QueryField),
           FacebookAccepts(host, path, query)
    PROVE  /\ FacebookAccepts(host, path, CleanQuery(host, path, query))
           /\ CleanQuery(host, path, query) \in Seq(QueryField)
           /\ CleanQuery(host, path, CleanQuery(host, path, query)) = CleanQuery(host, path, query)
           /\ path \in FacebookQueryPaths =>
                /\ CleanQuery(host, path, query) = query
                /\ FacebookAccepts(host, path, Values(query))
                /\ CleanQuery(host, path, Values(query)) = Values(query)
           /\ path \notin FacebookQueryPaths =>
                FacebookAccepts(host, path, <<>>) /\ CleanQuery(host, path, <<>>) = <<>>
  <1>1. path \notin FacebookQueryPaths => \A q : FacebookAccepts(host, path, q)
    BY Zenon DEF FacebookAccepts
  <1>2. path \in FacebookQueryPaths => path[1] # "share"
    BY DEF FacebookQueryPaths
  <1>3. Without(query, "mibextid") \in Seq(QueryField)
        /\ Without(Without(query, "mibextid"), "mibextid") = Without(query, "mibextid")
    <2>1. Without(query, "mibextid") \in Seq(QueryField)
      BY WithoutTyped
    <2>2. \A i \in 1 .. Len(Without(query, "mibextid")) : Without(query, "mibextid")[i].key # "mibextid"
      BY FieldFacts
    <2> QED BY <2>1, <2>2, FieldFacts
  <1>4. path \in FacebookQueryPaths => \A q : CleanQuery(host, path, q) = q
    BY <1>2 DEF CleanQuery
  <1>5. Without(<<>>, "mibextid") = <<>>
    <2> DEFINE none == <<>>
    <2>1. none \in Seq(QueryField) /\ \A i \in 1 .. Len(none) : none[i].key # "mibextid"
      OBVIOUS
    <2> HIDE DEF none
    <2>2. Without(none, "mibextid") = none
      BY <2>1, FieldFacts
    <2> QED BY <2>2 DEF none
  <1>6. CleanQuery(host, path, <<>>) = <<>>
    BY <1>5, Zenon DEF CleanQuery
  <1>7. ASSUME path \in FacebookQueryPaths PROVE FacebookAccepts(host, path, Values(query))
    <2> DEFINE w == Values(query)
    <2>1. w \in Seq(QueryField) /\ \A i \in 1 .. Len(w) : w[i].key = "v"
      BY WithoutTyped, FieldFacts
    <2>2. Values(w) = w
      BY <2>1, FieldFacts
    <2>3. HasVideo(query) => HasVideo(w) /\ Video(w) = Video(query)
      <3>1. \A i \in 1 .. Len(w) : w[i].key # "V"
        BY <2>1
      <3> QED BY <2>2, <3>1 DEF HasVideo, VideoQueryOK, Video
    <2> HIDE DEF w
    <2>4. FacebookAccepts(host, path, w)
      BY <2>3, Zenon DEF FacebookAccepts
    <2> QED BY <2>4 DEF w
  <1>8. CleanQuery(host, path, query) \in Seq(QueryField)
    BY <1>3, Zenon DEF CleanQuery
  <1>9. CleanQuery(host, path, CleanQuery(host, path, query)) = CleanQuery(host, path, query)
    BY <1>3, Zenon DEF CleanQuery
  <1>10. FacebookAccepts(host, path, CleanQuery(host, path, query))
    BY <1>1, <1>4
  <1> QED BY <1>1, <1>4, <1>6, <1>7, <1>8, <1>9, <1>10

LEMMA FacebookStable ==
    ASSUME NEW u \in Url, u.host \in HostsOf("facebook"), Verdict("facebook", u).error = "none"
    PROVE  \E v : StableFor("facebook", u, v)
  <1> DEFINE path == CleanPath(u.host, u.path)
             query == CleanQuery(u.host, path, u.query)
             v == [u EXCEPT !.path = path, !.query = query]
             c == CanonicalSocialProviderUrl("facebook", v)
  <1>1. \A w : Verdict("facebook", w) =
                 LET p == CleanPath(w.host, w.path)
                 IN  AcceptIf(IsSegments(p) /\ FacebookAccepts(w.host, p, w.query), "facebook",
                              [w EXCEPT !.path = p, !.query = CleanQuery(w.host, p, w.query)])
    BY DEF Verdict, ClassifyFacebook, CleanPath, CleanQuery
  <1>2. u.path \in Seq(UrlText) /\ u.query \in Seq(QueryField) /\ path \in Seq(UrlText)
    <2>1. u.path \in Seq(UrlText) /\ u.query \in Seq(QueryField)
      BY UrlFacts
    <2> QED BY <2>1, TrailingSlashTyped, Zenon DEF CleanPath
  <1>3. /\ IsSegments(path) /\ FacebookAccepts(u.host, path, u.query)
        /\ Verdict("facebook", u) = Accepted("facebook", v)
    BY <1>1, AcceptFacts, ZenonT(60)
  <1> HIDE DEF path
  <1>4. /\ query \in Seq(QueryField) /\ CleanQuery(u.host, path, query) = query
        /\ FacebookAccepts(u.host, path, query)
    BY <1>2, <1>3, FacebookQueries
  <1> HIDE DEF query
  <1>5. v \in Url /\ v.host = u.host /\ v.path = path /\ v.query = query
    <2>1. [u EXCEPT !.path = path, !.query = query] \in Url
      BY <1>2, <1>4, UrlFacts
    <2>2. \A p, q : LET w == [u EXCEPT !.path = p, !.query = q]
                    IN  w.host = u.host /\ w.path = p /\ w.query = q
      BY SameUrl
    <2> QED BY <2>1, <2>2, Zenon
  <1> HIDE DEF v
  <1>6. CleanPath(u.host, path) = path
    BY <1>2, <1>3, SegmentsFacts DEF CleanPath
  <1>7. ASSUME NEW w \in Url, w.host = u.host, w.path = path,
               FacebookAccepts(u.host, path, w.query), CleanQuery(u.host, path, w.query) = w.query
        PROVE  Verdict("facebook", w) = Accepted("facebook", w)
    <2>1. [w EXCEPT !.path = path, !.query = w.query] = w
      BY <1>7, SameUrl
    <2>2. Verdict("facebook", w) =
            AcceptIf(IsSegments(path) /\ FacebookAccepts(u.host, path, w.query), "facebook", w)
      <3>1. CleanPath(w.host, w.path) = path /\ CleanQuery(w.host, path, w.query) = w.query
        BY <1>6, <1>7
      <3>2. Verdict("facebook", w) =
              AcceptIf(IsSegments(path) /\ FacebookAccepts(w.host, path, w.query), "facebook",
                       [w EXCEPT !.path = path, !.query = w.query])
        BY <1>1, <3>1
      <3> QED BY <1>7, <2>1, <3>2
    <2> QED BY <1>3, <1>7, <2>2, AcceptFacts
  <1>8. /\ c \in Url /\ c.host = u.host /\ c.path = path
        /\ c.query = IF path \in FacebookQueryPaths THEN Values(query) ELSE <<>>
        /\ CanonicalSocialProviderUrl("facebook", c) = c
    BY <1>5, SocialFacts DEF Stripped
  <1> HIDE DEF c
  <1>9. FacebookAccepts(u.host, path, c.query) /\ CleanQuery(u.host, path, c.query) = c.query
    BY <1>2, <1>4, <1>8, FacebookQueries
  <1>10. Fixed("facebook", v)
    BY <1>4, <1>5, <1>7 DEF Fixed
  <1>11. u.host \in PlatformHosts("facebook") => Canonical("facebook", c)
    BY <1>7, <1>8, <1>9 DEF Canonical
  <1> QED BY <1>3, <1>5, <1>10, <1>11 DEF StableFor, c

LEMMA SocialStable ==
    ASSUME NEW p \in Platforms, p # "youtube", NEW u \in Url, u.host \in HostsOf(p),
           Verdict(p, u).error = "none"
    PROVE  \E v : StableFor(p, u, v)
  BY InstagramStable, FacebookStable, TikTokStable, XStable DEF Platforms

\* Whoever classifies the URL again, and makes it canonical, gets it back.
Stays(p, c) ==
    ClassifySubmittedUrl(c) = Accepted(p, c) /\ CanonicalUrl(Accepted(p, c), c) = Accepted(p, c)

LEMMA AcceptedFields ==
    \A p, v : /\ Accepted(p, v).error = "none" /\ Accepted(p, v).platform = p /\ Accepted(p, v).url = v
  BY DEF Accepted

LEMMA CanonicalStays ==
    ASSUME NEW p \in Platforms, NEW c, Canonical(p, c)
    PROVE  Stays(p, c)
  <1>1. ClassifySubmittedUrl(c) = Accepted(p, c)
    BY Dispatch DEF Canonical, HostsOf
  <1>2. CASE p = "youtube"
    BY <1>1, <1>2, AcceptedFields DEF Canonical, Stays, CanonicalUrl
  <1>3. CASE p # "youtube"
    <2>1. CanonicalSocialUrl(c, p) = Accepted(p, CanonicalSocialProviderUrl(p, c))
      <3>1. c.host \in PlatformHosts(p) /\ c.host \notin ShortHosts(p)
        BY ShortDiffer DEF Canonical
      <3>2. ClassifySubmittedUrl(c).error = "none" /\ ClassifySubmittedUrl(c).url = c
        BY <1>1, AcceptedFields
      <3> QED BY <3>1, <3>2 DEF CanonicalSocialUrl
    <2> QED BY <1>1, <1>3, <2>1, AcceptedFields DEF Canonical, Stays, CanonicalUrl
  <1> QED BY <1>2, <1>3

\* The canonical URL of a page that is one.
LEMMA PageStays ==
    ASSUME NEW p \in Platforms, NEW source, source.platform = p, NEW page \in Url,
           CanonicalUrl(source, page).error = "none"
    PROVE  LET c == CanonicalUrl(source, page)
           IN  c = Accepted(p, c.url) /\ Stays(p, c.url)
  <1>1. CASE p = "youtube"
    <2>1. CanonicalUrl(source, page) = Accepted(p, YouTubeProviderUrl("id of eleven", <<>>))
      BY <1>1 DEF CanonicalUrl
    <2>2. Stays(p, YouTubeProviderUrl("id of eleven", <<>>))
      BY <1>1, YouTubeStable, CanonicalStays
    <2> QED BY <2>1, <2>2, AcceptedFields
  <1>2. CASE p # "youtube"
    <2>1. CanonicalUrl(source, page) = CanonicalSocialUrl(page, p)
      BY <1>2 DEF CanonicalUrl
    <2>2. \A error : Refused(error).error = error
      BY DEF Refused
    <2>3. /\ page.host \in PlatformHosts(p) /\ ClassifySubmittedUrl(page).error = "none"
          /\ CanonicalSocialUrl(page, p) =
               Accepted(p, CanonicalSocialProviderUrl(p, ClassifySubmittedUrl(page).url))
      BY <2>1, <2>2 DEF CanonicalSocialUrl
    <2>4. page.host \in HostsOf(p) /\ ClassifySubmittedUrl(page) = Verdict(p, page)
      BY <2>3, Dispatch DEF HostsOf
    <2>5. PICK v : StableFor(p, page, v)
      BY <1>2, <2>3, <2>4, SocialStable
    <2>6. ClassifySubmittedUrl(page).url = v /\ Canonical(p, CanonicalSocialProviderUrl(p, v))
      BY <2>3, <2>4, <2>5, AcceptedFields DEF StableFor
    <2> QED BY <2>1, <2>3, <2>6, AcceptedFields, CanonicalStays
  <1> QED BY <1>1, <1>2

\* The provider URL of a submission, and its canonical URL if it is no short
\* link.
LEMMA SubmissionStays ==
    ASSUME NEW u \in Url, ClassifySubmittedUrl(u).error = "none"
    PROVE  LET source == ClassifySubmittedUrl(u)
               canonical == CanonicalUrl(source, source.url)
           IN  /\ ClassifySubmittedUrl(source.url) = source
               /\ u.host \notin ShortHosts(source.platform) =>
                    /\ canonical.error = "none"
                    /\ CanonicalUrl(ClassifySubmittedUrl(canonical.url), canonical.url) = canonical
  <1> DEFINE source == ClassifySubmittedUrl(u)
             canonical == CanonicalUrl(source, source.url)
  <1>1. PICK p \in Platforms : u.host \in HostsOf(p) /\ source = Verdict(p, u)
    BY Dispatch
  <1>2. PICK v \in Url : /\ source = Accepted(p, v) /\ Fixed(p, v)
                         /\ p # "youtube" => StableFor(p, u, v)
    <2>1. CASE p = "youtube"
      <3>1. Verdict(p, u) = ClassifyYouTube(u)
        BY <2>1 DEF Verdict
      <3>2. source.url \in Url
        BY ClassifyTyped DEF Classified
      <3>3. source.error = "none" /\ source = ClassifyYouTube(u)
        BY <1>1, <2>1, <3>1
      <3>4. PICK v : ClassifyYouTube(u) = Accepted("youtube", v) /\ Fixed("youtube", v)
        BY <3>3, YouTubeStable
      <3>5. v = source.url
        BY <3>3, <3>4, AcceptedFields
      <3> HIDE DEF source
      <3> QED BY <2>1, <3>2, <3>3, <3>4, <3>5
    <2>2. CASE p # "youtube"
      <3>1. PICK w : StableFor(p, u, w)
        BY <1>1, <2>2, SocialStable
      <3> QED BY <1>1, <3>1 DEF StableFor
    <2> QED BY <2>1, <2>2
  <1>3. source.error = "none" /\ source.platform = p /\ source.url = v
    BY <1>2, AcceptedFields
  <1> HIDE DEF source
  <1>4. ClassifySubmittedUrl(v) = source
    BY <1>2, Dispatch DEF Fixed
  <1>5. ASSUME u.host \notin ShortHosts(p) PROVE canonical.error = "none"
    <2>1. CASE p = "youtube"
      BY <1>3, <2>1, AcceptedFields DEF CanonicalUrl
    <2>2. CASE p # "youtube"
      <3>1. v.host \in PlatformHosts(p) /\ v.host \notin ShortHosts(p)
        BY <1>1, <1>2, <1>5, <2>2 DEF StableFor, HostsOf
      <3>2. canonical = Accepted(p, CanonicalSocialProviderUrl(p, source.url))
        BY <1>3, <1>4, <2>2, <3>1 DEF CanonicalUrl, CanonicalSocialUrl
      <3> QED BY <3>2, AcceptedFields
    <2> QED BY <2>1, <2>2
  <1>6. ASSUME u.host \notin ShortHosts(p)
        PROVE  CanonicalUrl(ClassifySubmittedUrl(canonical.url), canonical.url) = canonical
    <2>1. canonical = Accepted(p, canonical.url) /\ Stays(p, canonical.url)
      BY <1>3, <1>5, <1>6, PageStays
    <2> QED BY <2>1 DEF Stays
  <1> QED BY <1>3, <1>4, <1>5, <1>6 DEF source

SettledInv == url # NoUrl /\ platform # "none" => Stays(platform, url)

LEMMA SettledStep == ResultInv /\ SettledInv /\ [Next]_vars => SettledInv'
  <1> SUFFICES ASSUME ResultInv, SettledInv, [Next]_vars PROVE SettledInv'
    OBVIOUS
  <1>1. CASE UNCHANGED <<url, platform>>
    BY <1>1 DEF SettledInv
  <1>2. CASE Classify
    <2>1. UNCHANGED <<url, platform>> \/ url' = NoUrl
      BY <1>2 DEF Classify, Leave
    <2> QED BY <1>1, <2>1 DEF SettledInv
  <1>3. CASE MetadataReturns
    <2>1. PICK page \in Pages :
            LET canonical == CanonicalUrl([platform |-> platform], page)
            IN  IF AdmissionError(canonical) # "none" THEN Leave(AdmissionError(canonical))
                ELSE url' = canonical.url /\ platform' = platform
      BY <1>3 DEF MetadataReturns
    <2> DEFINE canonical == CanonicalUrl([platform |-> platform], page)
    <2>2. CASE AdmissionError(canonical) # "none"
      BY <1>1, <2>1, <2>2 DEF Leave
    <2>3. CASE AdmissionError(canonical) = "none"
      <3>1. canonical.error = "none"
        <4> HIDE DEF canonical
        <4> QED BY <2>3, Zenon DEF AdmissionError
      <3>2. platform \in Platforms /\ page \in Url
        BY <1>3, InputsAssumption DEF MetadataReturns, ResultInv, SourceInv
      <3>3. [platform |-> platform].platform = platform
        OBVIOUS
      <3>4. Stays(platform, canonical.url)
        BY <3>1, <3>2, <3>3, PageStays
      <3> QED BY <2>1, <2>3, <3>4 DEF SettledInv
    <2> QED BY <2>2, <2>3
  <1>4. ThreadStep => UNCHANGED <<url, platform>>
    BY DEF ThreadStep, RetrievalStep, CaptionStep, ExtractReturns, PrepareDirectory,
      DurationReturns, Probe, DownloadReturns, job
  <1>5. MetadataFails \/ CaptionsReturn \/ AcquireAudio \/ ValidatePrepared \/ AudioReturns
          \/ NativeReturns \/ Publish => UNCHANGED <<url, platform>>
    BY DEF MetadataFails, CaptionsReturn, AcquireAudio, ValidatePrepared, AudioReturns,
      NativeReturns, Publish, Leave, Transcribed
  <1>6. UNCHANGED vars \/ TimesOut \/ RequestCancellation \/ DeadlinePasses =>
          UNCHANGED <<url, platform>>
    BY DEF vars, job, TimesOut, RequestCancellation, DeadlinePasses
  <1> QED BY <1>1, <1>2, <1>3, <1>4, <1>5, <1>6 DEF Next, CoroutineStep

-----------------------------------------------------------------------------
(* The theorems. *)

LEMMA InitHolds == Init => CoreInv /\ SearchInv
  <1> SUFFICES ASSUME Init PROVE CoreInv /\ SearchInv
    OBVIOUS
  <1>1. ControlTypeOK /\ DataTypeOK /\ ThreadInv /\ DirsInv /\ MediaInv
    BY DataFacts DEF Init, ControlTypeOK, Stages, Works, Calls, Searches, DataTypeOK, ThreadInv,
      DirsInv, Empty, MediaInv
  <1>2. EventTypeOK /\ CancelInv
    BY DEF Init, EventTypeOK, CancelInv
  <1>3. LateInv
    BY DEF Init, LateInv
  <1>4. SearchInv
    <2>1. tracks \in Seq(Captions!Track) /\ Len(ranked) = 0
      BY DEF Init
    <2> QED BY <2>1, NoTracks DEF Init, SearchInv, RankedInv, TriedInv, PlaceInv
  <1> QED BY <1>1, <1>2, <1>3, <1>4 DEF CoreInv

\* The inductive invariant: where the coroutine, the provider thread, the
\* retry loop and the caption search can be at a time, which directories and
\* audio exist then, and what a late provider call can still bring.
THEOREM SourceWorkInvariant == Spec => [](CoreInv /\ SearchInv)
  <1>1. CoreInv /\ SearchInv /\ [Next]_vars => (CoreInv /\ SearchInv)'
    BY CoreStep, SearchKept
  <1> QED BY <1>1, InitHolds, PTL DEF Spec

\* However much audio a provider sends and whatever it declared, audio over
\* the byte limit never reaches inference and no result describes a source
\* over the duration limit, for every value of the limits.
THEOREM NoMediaOverLimit == Spec => []OverLimitNeverUsed
  <1>1. CoreInv => OverLimitNeverUsed
    <2> SUFFICES ASSUME CoreInv PROVE OverLimitNeverUsed
      OBVIOUS
    <2>1. stage \in {"native", "publish"} => duration \in 1 .. MaxDuration
      BY DEF CoreInv, MediaInv
    <2>2. ASSUME stage = "native"
          PROVE  file.bytes \in 1 .. MaxMediaBytes /\ WholeSeconds(file.halves) <= MaxDuration
      <3>1. WithinLimits /\ file.halves \in Nat
        BY <2>2, DataFacts, RecordFacts DEF CoreInv, MediaInv, DataTypeOK
      <3> QED BY <3>1, SecondsFacts DEF WithinLimits
    <2> QED BY <2>1, <2>2 DEF OverLimitNeverUsed
  <1> QED BY <1>1, SourceWorkInvariant, PTL

\* A decided job has left no private media directory that could be removed,
\* whichever step failed, was cancelled or timed out, and never had two.
THEOREM MediaIsRemoved == Spec => []NothingLeftBehind
  <1>1. CoreInv => NothingLeftBehind
    <2> SUFFICES ASSUME CoreInv PROVE NothingLeftBehind
      OBVIOUS
    <2>1. dirs # {"inspection", "request"}
      BY DEF CoreInv, DirsInv
    <2>2. ASSUME stage = "ended", ~stuck PROVE dirs = {}
      BY <2>2 DEF CoreInv, DirsInv, Empty
    <2> QED BY <2>1, <2>2 DEF NothingLeftBehind
  <1> QED BY <1>1, SourceWorkInvariant, PTL

\* At most one provider call begins after a cancellation or a deadline, in
\* any interleaving of the loop, the thread and the clock and for every
\* number of attempts and tracks, and nothing it brings is used.
THEOREM LateAnswerIsDropped == Spec => []LateAnswerDropped
  <1>1. CoreInv => LateAnswerDropped
    <2> SUFFICES ASSUME CoreInv PROVE LateAnswerDropped
      OBVIOUS
    <2>1. late \in {0, 1} /\ (late = 1 => outcome # "succeeded")
      BY DEF CoreInv, LateInv
    <2>2. late = 1 => stage \notin {"native", "publish"}
      BY DEF CoreInv, LateInv
    <2> QED BY <2>1, <2>2 DEF LateAnswerDropped
  <1> QED BY <1>1, SourceWorkInvariant, PTL

\* For every list of tracks a provider can send, the transcript that is used
\* comes from a track no usable untried one is preferred to, and the search
\* gives captions up only when every usable track was fetched in vain.
THEOREM BestTrackIsUsed == Spec => []BestUsableTrack
  BY SourceWorkInvariant, SearchFindsBest, PTL

\* The inductive invariant of the result: URLs, durations and transcripts
\* are of their types, a transcript satisfies the constructors, and stored
\* rows read back as the response they were made from.
THEOREM ResultInvariant == Spec => []ResultInv
  <1>1. Init => ResultInv
    <2> SUFFICES ASSUME Init PROVE ResultInv
      OBVIOUS
    <2>1. SourceInv
      BY InputsAssumption DEF Init, SourceInv
    <2>2. DOMAIN result = {"transcript", "excluded", "row", "segments"} /\ result.transcript = Null
      BY DEF Init, NoResult
    <2> QED BY <2>1, <2>2 DEF Init, ResultInv
  <1> QED BY <1>1, ResultStep, SourceWorkInvariant, PTL DEF Spec

\* What a client reads of a succeeded job is the response that was projected,
\* for every list of acceptable raw segments, with words and blanks in any
\* order and times in any order, and every excluded set of fields: the
\* normalised transcript satisfies the constructors, the rows agree with the
\* exclusions and are numbered without a gap, and no projection fails.
THEOREM ResultIsReadBack == Spec => []ResultReadsBack
  <1>1. ResultInv => ResultReadsBack
    BY DEF ResultInv, ResultReadsBack, StoredOK, TranscriptOK
  <1> QED BY <1>1, ResultInvariant, PTL

\* For every URL that can be submitted and every page a provider can name,
\* of any host, path and query: the provider URL of an accepted submission is
\* accepted for the same platform and is its own provider URL, the canonical
\* URL of one that is no short link is accepted too and is its own canonical
\* URL, and so is the canonical URL a job shows.
THEOREM CanonicalUrlStays == Spec => []CanonicalUrlStable
  <1>1. Init => SettledInv
    BY DEF Init, SettledInv
  <1>2. ResultInv /\ SettledInv => CanonicalUrlStable
    <2> SUFFICES ASSUME ResultInv, SettledInv PROVE CanonicalUrlStable
      OBVIOUS
    <2>1. stage = "submitted" => url \in Url
      BY DEF ResultInv, SourceInv
    <2>2. Stays(platform, url) =>
            LET source == ClassifySubmittedUrl(url)
            IN  source = Accepted(platform, url) /\ CanonicalUrl(source, source.url) = source
      BY AcceptedFields DEF Stays
    <2> QED BY <2>1, <2>2, SubmissionStays DEF CanonicalUrlStable, SettledInv
  <1> QED BY <1>1, <1>2, SettledStep, ResultInvariant, PTL DEF Spec

=============================================================================
