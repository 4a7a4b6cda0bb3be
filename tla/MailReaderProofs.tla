-------------------------- MODULE MailReaderProofs --------------------------
(***************************************************************************)
(* The pages of a walk are the listing, and disabled sources stay hidden,  *)
(* for every archive, page size and scan window.  A page holds the first   *)
(* rows after its cursor, whichever query found them: the recency window   *)
(* is a beginning of everything live, so what it has of the representatives *)
(* is a beginning of them.  A cursor is honoured only where its walk's     *)
(* listing still is what the snapshot has.                                 *)
(***************************************************************************)
EXTENDS MailReader, ThreadDetailProofs

-----------------------------------------------------------------------------
(* The first n of a finite set in the order of the listing.                *)

Timed(a) == \A m \in Messages : Time(a, m) \in Nat

Preds(a, S, m) == {x \in S : Before(a, x, m)}
Rank(a, S, m) == Cardinality(Preds(a, S, m))

(* A beginning of S.                                                       *)
Begins(a, A, S) == A \subseteq S /\ \A m \in A, x \in S : Before(a, x, m) => x \in A

LEMMA FirstIs == \A a, S, n : First(a, S, n) = {m \in S : Rank(a, S, m) < n}
BY DEF First, Rank, Preds

LEMMA ArchivesAreTimed == \A a \in Archive : Timed(a)
<1> SUFFICES ASSUME NEW a \in Archive, NEW m \in Messages PROVE Time(a, m) \in Nat
  BY DEF Timed
<1>1. a.mail[m] \in Message
  BY DEF Archive
<1>2. a.mail[m].sent \in Times \cup {NoTime} /\ a.mail[m].received \in Times \cup {NoTime}
  BY <1>1 DEF Message
<1>3. Times \cup {NoTime} \subseteq Nat
  BY IdsAreNumbers DEF NoTime
<1> QED BY <1>2, <1>3 DEF Time

LEMMA Ordered ==
  ASSUME NEW a, Timed(a), NEW m \in Messages, NEW n \in Messages
  PROVE  /\ ~Before(a, m, m)
         /\ m # n => Before(a, m, n) \/ Before(a, n, m)
         /\ ~(Before(a, m, n) /\ Before(a, n, m))
         /\ \A k \in Messages : Before(a, m, n) /\ Before(a, n, k) => Before(a, m, k)
<1>1. m \in Nat /\ n \in Nat /\ \A k \in Messages : k \in Nat /\ Time(a, k) \in Nat
  BY IdsAreNumbers DEF Timed
<1> QED BY <1>1 DEF Before

LEMMA SubsetsAreFinite == \A S \in SUBSET Messages : IsFiniteSet(S) /\ Cardinality(S) \in Nat
BY IdsAreNumbers, FS_Subset, FS_CardinalityType

LEMMA Ranks ==
  ASSUME NEW a, Timed(a), NEW S \in SUBSET Messages, NEW m \in S
  PROVE  /\ Rank(a, S, m) \in Nat /\ Rank(a, S, m) < Cardinality(S)
         /\ \A n \in S : Before(a, m, n) => Rank(a, S, m) < Rank(a, S, n)
<1>1. \A n \in S : /\ Preds(a, S, n) \in SUBSET S /\ n \notin Preds(a, S, n)
                   /\ IsFiniteSet(Preds(a, S, n)) /\ Rank(a, S, n) \in Nat
  BY Ordered, SubsetsAreFinite DEF Preds, Rank
<1>2. Rank(a, S, m) < Cardinality(S)
  <2>1. Cardinality(Preds(a, S, m)) <= Cardinality(S) /\ Cardinality(Preds(a, S, m)) # Cardinality(S)
    BY <1>1, SubsetsAreFinite, FS_Subset
  <2> QED BY <1>1, <2>1, SubsetsAreFinite DEF Rank
<1>3. ASSUME NEW n \in S, Before(a, m, n) PROVE Rank(a, S, m) < Rank(a, S, n)
  <2>1. Preds(a, S, m) \in SUBSET Preds(a, S, n)
    BY <1>3, Ordered DEF Preds
  <2>2. m \in Preds(a, S, n)
    BY <1>3 DEF Preds
  <2>3. Cardinality(Preds(a, S, m)) <= Cardinality(Preds(a, S, n))
        /\ Cardinality(Preds(a, S, m)) # Cardinality(Preds(a, S, n))
    BY <1>1, <2>1, <2>2, FS_Subset
  <2> QED BY <1>1, <2>3 DEF Rank
<1> QED BY <1>1, <1>2, <1>3

(* Every place up to the last is taken once.                               *)
LEMMA RanksAreAll ==
  ASSUME NEW a, Timed(a), NEW S \in SUBSET Messages
  PROVE  [m \in S |-> Rank(a, S, m)] \in Bijection(S, 0 .. Cardinality(S) - 1)
<1> DEFINE f == [m \in S |-> Rank(a, S, m)]
           T == 0 .. Cardinality(S) - 1
<1>1. Cardinality(S) \in Nat
  BY SubsetsAreFinite
<1>2. f \in [S -> T]
  BY <1>1, Ranks
<1>3. \A m, n \in S : f[m] = f[n] => m = n
  BY Ranks, Ordered
<1>4. f \in Injection(S, T)
  BY <1>2, <1>3 DEF Injection, IsInjective
<1>5. IsFiniteSet(T) /\ Cardinality(T) = Cardinality(S)
  <2>1. 0 \in Int /\ Cardinality(S) - 1 \in Int
    BY <1>1
  <2>2. /\ IsFiniteSet(T)
        /\ Cardinality(T) = IF 0 > Cardinality(S) - 1 THEN 0 ELSE (Cardinality(S) - 1) - 0 + 1
    BY <2>1, FS_Interval, Zenon
  <2> HIDE DEF T
  <2> QED BY <1>1, <2>2
<1>6. f \in Surjection(S, T)
  <2> HIDE DEF f, T
  <2> QED BY <1>4, <1>5, FS_Injection
<1> QED BY <1>4, <1>6 DEF Bijection

LEMMA FirstSize ==
  ASSUME NEW a, Timed(a), NEW S \in SUBSET Messages, NEW n \in Nat
  PROVE  /\ First(a, S, n) \in SUBSET S /\ IsFiniteSet(First(a, S, n))
         /\ Cardinality(S) >= n => Cardinality(First(a, S, n)) = n
         /\ Cardinality(S) <= n => First(a, S, n) = S
<1> DEFINE f == [m \in S |-> Rank(a, S, m)]
           F == First(a, S, n)
           g == [m \in F |-> Rank(a, S, m)]
<1>1. Cardinality(S) \in Nat
  BY SubsetsAreFinite
<1>2. F = {m \in S : Rank(a, S, m) < n}
  BY FirstIs
<1>3. F \in SUBSET S /\ IsFiniteSet(F)
  BY <1>2, SubsetsAreFinite
<1>4. Cardinality(S) <= n => F = S
  BY <1>1, <1>2, Ranks
<1>5. ASSUME Cardinality(S) >= n PROVE Cardinality(F) = n
  <2>1. f \in Bijection(S, 0 .. Cardinality(S) - 1)
    BY RanksAreAll
  <2>2. g \in [F -> 0 .. n - 1]
    BY <1>2, Ranks
  <2>3. \A m, k \in F : g[m] = g[k] => m = k
    <3>1. \A m, k \in S : f[m] = f[k] => m = k
      BY <2>1 DEF Bijection, Injection, IsInjective
    <3> QED BY <1>3, <3>1
  <2>4. \A i \in 0 .. n - 1 : \E m \in F : g[m] = i
    <3> SUFFICES ASSUME NEW i \in 0 .. n - 1 PROVE \E m \in F : g[m] = i
      OBVIOUS
    <3>1. i \in 0 .. Cardinality(S) - 1
      BY <1>1, <1>5
    <3>2. PICK m \in S : f[m] = i
      <4> HIDE DEF f
      <4> QED BY <2>1, <3>1 DEF Bijection, Surjection
    <3>3. m \in F /\ g[m] = i
      BY <1>2, <3>2
    <3> QED BY <3>3
  <2>5. g \in Bijection(F, 0 .. n - 1)
    <3> HIDE DEF g, F
    <3> QED BY <2>2, <2>3, <2>4 DEF Bijection, Injection, IsInjective, Surjection
  <2>6. Cardinality(0 .. n - 1) = n
    BY FS_Interval
  <2>7. ExistsBijection(F, 0 .. n - 1)
    <3> HIDE DEF g, F
    <3> QED BY <2>5 DEF ExistsBijection
  <2>8. Cardinality(0 .. n - 1) = Cardinality(F)
    <3> HIDE DEF F
    <3> QED BY <1>3, <2>7, FS_Bijection
  <2> QED BY <2>6, <2>8
<1> QED BY <1>3, <1>4, <1>5

LEMMA FirstBegins ==
  ASSUME NEW a, Timed(a), NEW S \in SUBSET Messages, NEW n \in Nat
  PROVE  Begins(a, First(a, S, n), S)
<1> SUFFICES ASSUME NEW m \in First(a, S, n), NEW x \in S, Before(a, x, m) PROVE x \in First(a, S, n)
  BY FirstIs DEF Begins
<1>1. m \in S /\ Rank(a, S, m) < n
  BY FirstIs
<1>2. Rank(a, S, x) < Rank(a, S, m) /\ Rank(a, S, x) \in Nat /\ Rank(a, S, m) \in Nat
  BY <1>1, Ranks
<1>3. Rank(a, S, x) < n
  BY <1>1, <1>2
<1> QED BY <1>3, FirstIs

(* In a beginning of S a row has the place it has in S.                    *)
LEMMA FirstOfBeginning ==
  ASSUME NEW a, NEW S \in SUBSET Messages, NEW A, Begins(a, A, S), NEW n
  PROVE  First(a, A, n) = First(a, S, n) \cap A
<1>1. \A m \in A : Preds(a, A, m) = Preds(a, S, m)
  BY DEF Begins, Preds
<1>2. \A m \in A : Rank(a, A, m) = Rank(a, S, m) /\ m \in S
  BY <1>1 DEF Rank, Begins
<1> QED BY <1>2, FirstIs

LEMMA FirstTwice ==
  ASSUME NEW a, Timed(a), NEW S \in SUBSET Messages, NEW n \in Nat, NEW k \in Nat, n <= k
  PROVE  First(a, First(a, S, k), n) = First(a, S, n)
<1>1. First(a, First(a, S, k), n) = First(a, S, n) \cap First(a, S, k)
  BY FirstBegins, FirstOfBeginning
<1>2. First(a, S, n) \subseteq First(a, S, k)
  <2> SUFFICES ASSUME NEW m \in First(a, S, n) PROVE m \in First(a, S, k)
    OBVIOUS
  <2>1. m \in S /\ Rank(a, S, m) < n
    BY FirstIs
  <2>2. Rank(a, S, m) \in Nat
    BY <2>1, Ranks
  <2>3. Rank(a, S, m) < k
    BY <2>1, <2>2
  <2> QED BY <2>1, <2>3, FirstIs
<1> QED BY <1>1, <1>2

-----------------------------------------------------------------------------
(* A query finds the first rows it was asked for, by either way.           *)

LEMMA CopiesAreShared ==
  ASSUME NEW a, NEW E, NEW m \in Messages, NEW p \in Best(a, E, Copies(a, E, m))
  PROVE  p \in Representatives(a, E)
<1>1. p \in Eligible(a, E) /\ Correlated(a, m, p) /\ p \in Messages
  BY DEF Best, Copies, Eligible
<1>2. \A n : Correlated(a, m, n) <=> Correlated(a, p, n)
  BY <1>1 DEF Correlated
<1>3. Copies(a, E, m) = Copies(a, E, p)
  BY <1>2 DEF Copies
<1> QED BY <1>1, <1>3 DEF Representatives

LEMMA RepresentativesAre ==
  \A a, E : Representatives(a, E) \subseteq Eligible(a, E) /\ Eligible(a, E) \subseteq Messages \cap a.live
BY DEF Representatives, Eligible, Replyable

(* What the window selects are the representatives in it.                  *)
LEMMA WindowSelects ==
  ASSUME NEW a, NEW E, NEW W
  PROVE  {p \in W \cap Eligible(a, E) : \E m \in W \cap Eligible(a, E) : p \in Best(a, E, Copies(a, E, m))}
           = W \cap Representatives(a, E)
<1>1. ASSUME NEW p \in W \cap Eligible(a, E), NEW m \in W \cap Eligible(a, E),
             p \in Best(a, E, Copies(a, E, m))
      PROVE  p \in Representatives(a, E)
  BY <1>1, CopiesAreShared, RepresentativesAre
<1>2. ASSUME NEW p \in W \cap Representatives(a, E)
      PROVE  p \in Eligible(a, E) /\ p \in Best(a, E, Copies(a, E, p))
  BY DEF Representatives
<1> QED BY <1>1, <1>2

LEMMA ScanIs == \A n \in Nat : Scan(n) \in Nat
BY ScanIsBounded DEF Scan

LEMMA WindowIsABeginning ==
  ASSUME NEW a \in Archive, NEW E, NEW mode, NEW key, NEW wanted \in Nat,
         Cardinality(RecentWindow(a, E, mode, key, wanted)) >= wanted
  PROVE  RecentWindow(a, E, mode, key, wanted)
           = First(a, {m \in Representatives(a, E) : Keyset(a, mode, key, m)}, wanted)
<1> DEFINE L == {m \in a.live : Keyset(a, mode, key, m)}
           R == {m \in Representatives(a, E) : Keyset(a, mode, key, m)}
           W == First(a, L, Scan(wanted))
<1>1. Timed(a) /\ L \in SUBSET Messages /\ R \in SUBSET L /\ R \in SUBSET Messages
  BY ArchivesAreTimed, RepresentativesAre DEF Archive
<1>2. Begins(a, W, L)
  <2> HIDE DEF L
  <2> QED BY <1>1, FirstBegins, ScanIs
<1>3. W \cap Representatives(a, E) = R \cap W
  BY FirstIs
<1>4. Begins(a, R \cap W, R)
  <2> HIDE DEF W, R, L
  <2> QED BY <1>1, <1>2 DEF Begins
<1>5. RecentWindow(a, E, mode, key, wanted) \in {{}, First(a, R \cap W, wanted)}
  <2>1. {p \in W \cap Eligible(a, E) : \E m \in W \cap Eligible(a, E) : p \in Best(a, E, Copies(a, E, m))}
          = R \cap W
    <3> HIDE DEF W, R, L
    <3> QED BY <1>3, WindowSelects
  <2> QED BY <2>1 DEF RecentWindow
<1>6. First(a, R \cap W, wanted) = First(a, R, wanted) \cap W
  <2>1. First(a, R \cap W, wanted) = First(a, R, wanted) \cap (R \cap W)
    <3> HIDE DEF W, R, L
    <3> QED BY <1>1, <1>4, FirstOfBeginning
  <2> HIDE DEF W, R, L
  <2>2. First(a, R, wanted) \subseteq R
    BY FirstIs
  <2> QED BY <2>1, <2>2
<1> HIDE DEF L, R, W
<1>7. /\ First(a, R, wanted) \in SUBSET R /\ IsFiniteSet(First(a, R, wanted))
      /\ Cardinality(First(a, R, wanted)) <= wanted /\ Cardinality(First(a, R, wanted)) \in Nat
  <2>1. First(a, R, wanted) \in SUBSET R /\ Cardinality(R) \in Nat /\ IsFiniteSet(First(a, R, wanted))
    BY <1>1, FirstSize, SubsetsAreFinite
  <2>2. Cardinality(First(a, R, wanted)) <= wanted
    BY <1>1, <2>1, FirstSize
  <2> QED BY <1>1, <2>1, <2>2, SubsetsAreFinite
<1>8. RecentWindow(a, E, mode, key, wanted) \in SUBSET First(a, R, wanted)
  BY <1>5, <1>6
<1>9. RecentWindow(a, E, mode, key, wanted) = First(a, R, wanted)
  <2>1. /\ Cardinality(RecentWindow(a, E, mode, key, wanted)) <= Cardinality(First(a, R, wanted))
        /\ Cardinality(RecentWindow(a, E, mode, key, wanted)) \in Nat
    BY <1>7, <1>8, FS_Subset, FS_CardinalityType
  <2>2. Cardinality(First(a, R, wanted)) = Cardinality(RecentWindow(a, E, mode, key, wanted))
    BY <1>7, <2>1
  <2> QED BY <1>7, <1>8, <2>2, FS_Subset
<1> QED BY <1>9 DEF R

(* queryRecentInboxWindow never changes what a page shows: whenever the    *)
(* bounded window fills the page, it holds what querySourceFallback would  *)
(* find, whatever copies, chats and other sources' rows take its places.   *)
THEOREM QueriesAgree ==
  ASSUME NEW a \in Archive, NEW E, NEW mode, NEW key, NEW wanted \in Nat
  PROVE  Adaptive(a, E, mode, key, wanted)
           = First(a, {m \in Representatives(a, E) : Keyset(a, mode, key, m)}, wanted)
BY WindowIsABeginning DEF Adaptive, SourceFallback

-----------------------------------------------------------------------------
(* A page: the first rows after the cursor, of those with a time and those *)
(* without.                                                                *)

KeyIs(key) == key # None => key.time \in Nat /\ key.id \in Messages

LEMMA TwoPhases ==
  ASSUME NEW a, Timed(a), NEW T \in SUBSET Messages, NEW N \in SUBSET Messages, NEW n \in Nat,
         \A m \in T, x \in N : Before(a, m, x)
  PROVE  First(a, T \cup N, n) =
           IF n - Cardinality(First(a, T, n)) > 0
           THEN First(a, T, n) \cup First(a, N, n - Cardinality(First(a, T, n)))
           ELSE First(a, T, n)
<1> DEFINE F == First(a, T, n)
<1>1. IsFiniteSet(T) /\ Cardinality(T) \in Nat /\ Cardinality(T \cup N) \in Nat
  BY SubsetsAreFinite
<1>2. /\ F \in SUBSET T /\ IsFiniteSet(F)
      /\ Cardinality(T) >= n => Cardinality(F) = n
      /\ Cardinality(T) <= n => F = T
  BY FirstSize
<1>3. T \cap N = {}
  BY Ordered
<1>4. Begins(a, T, T \cup N)
  BY Ordered DEF Begins
<1>5. First(a, T \cup N, n) \cap T = F
  BY <1>4, FirstOfBeginning
<1>6. \A m \in N : Rank(a, T \cup N, m) = Cardinality(T) + Rank(a, N, m) /\ Rank(a, N, m) \in Nat
  <2> SUFFICES ASSUME NEW m \in N
               PROVE  Rank(a, T \cup N, m) = Cardinality(T) + Rank(a, N, m) /\ Rank(a, N, m) \in Nat
    OBVIOUS
  <2>1. Preds(a, T \cup N, m) = T \cup Preds(a, N, m) /\ T \cap Preds(a, N, m) = {}
    BY <1>3 DEF Preds
  <2>2. Preds(a, N, m) \in SUBSET Messages
    BY DEF Preds
  <2>3. Cardinality(T \cup Preds(a, N, m)) = Cardinality(T) + Cardinality(Preds(a, N, m)) - Cardinality({})
    BY <1>1, <2>1, <2>2, SubsetsAreFinite, FS_Union
  <2>4. Cardinality({}) = 0 /\ Cardinality(Preds(a, N, m)) \in Nat
    BY <2>2, SubsetsAreFinite, FS_EmptySet
  <2>5. Cardinality(T \cup Preds(a, N, m)) = Cardinality(T) + Cardinality(Preds(a, N, m))
    BY <1>1, <2>3, <2>4
  <2> QED BY <2>1, <2>4, <2>5 DEF Rank
<1>7. First(a, T \cup N, n) = F \cup {m \in N : Rank(a, T \cup N, m) < n}
  BY <1>5, FirstIs
<1>8. CASE n <= Cardinality(T)
  <2>1. ~(n - Cardinality(F) > 0)
    BY <1>1, <1>2, <1>8
  <2>2. \A m \in N : ~(Rank(a, T \cup N, m) < n)
    BY <1>1, <1>6, <1>8
  <2> QED BY <1>7, <2>1, <2>2
<1>9. CASE n > Cardinality(T)
  <2>1. F = T
    BY <1>1, <1>2, <1>9
  <2>2. n - Cardinality(F) > 0
    BY <1>1, <1>9, <2>1
  <2>3. \A m \in N : Rank(a, T \cup N, m) < n <=> Rank(a, N, m) < n - Cardinality(F)
    BY <1>1, <1>6, <2>1
  <2>4. {m \in N : Rank(a, T \cup N, m) < n} = First(a, N, n - Cardinality(F))
    BY <2>3, FirstIs
  <2> QED BY <1>7, <2>2, <2>4
<1> QED BY <1>1, <1>8, <1>9

(* A page is the first rows after its cursor, over the boundary between    *)
(* the rows with a timestamp and those without, for every page size.       *)
THEOREM PagesAreFirst ==
  ASSUME NEW a \in Archive, NEW E, NEW key, KeyIs(key), NEW wanted \in Nat
  PROVE  PageRows(a, E, key, wanted) = First(a, After(a, E, key), wanted)
<1> DEFINE Of(mode) == {m \in Representatives(a, E) : Keyset(a, mode, key, m)}
<1>1. Timed(a) /\ Representatives(a, E) \in SUBSET Messages
  BY ArchivesAreTimed, RepresentativesAre
<1>2. CASE key = None
  <2>1. Of("all") = After(a, E, key)
    BY <1>2 DEF After, Keyset
  <2> QED BY <1>2, <2>1, QueriesAgree DEF PageRows
<1>3. CASE key # None /\ key.time = NoTime
  <2>1. \A m \in Representatives(a, E) :
          Keyset(a, "before-null", key, m) <=> \/ key = None \/ key.time > Time(a, m)
                                              \/ (key.time = Time(a, m) /\ key.id > m)
    <3> SUFFICES ASSUME NEW m \in Representatives(a, E)
                 PROVE  Keyset(a, "before-null", key, m) <=>
                          \/ key = None \/ key.time > Time(a, m)
                          \/ (key.time = Time(a, m) /\ key.id > m)
      OBVIOUS
    <3>1. Time(a, m) \in Nat /\ m \in Nat /\ key.id \in Nat
      BY <1>1, <1>3, IdsAreNumbers DEF Timed, KeyIs
    <3>2. Keyset(a, "before-null", key, m) <=> Time(a, m) = NoTime /\ m < key.id
      BY DEF Keyset
    <3> QED BY <1>3, <3>1, <3>2 DEF NoTime
  <2>2. Of("before-null") = After(a, E, key)
    BY <2>1 DEF After
  <2> QED BY <1>3, <2>2, QueriesAgree DEF PageRows
<1>4. CASE key # None /\ key.time # NoTime
  <2> DEFINE T == Of("before-timestamp")
             N == Of("all-null")
  <2>1. \A m \in Representatives(a, E) :
          /\ Keyset(a, "before-timestamp", key, m) <=>
               Time(a, m) # NoTime /\ (key.time > Time(a, m) \/ (key.time = Time(a, m) /\ key.id > m))
          /\ Keyset(a, "all-null", key, m) <=> Time(a, m) = NoTime
          /\ Time(a, m) = NoTime => key.time > Time(a, m)
    <3> SUFFICES ASSUME NEW m \in Representatives(a, E)
                 PROVE  /\ Keyset(a, "before-timestamp", key, m) <=>
                             Time(a, m) # NoTime /\ (key.time > Time(a, m) \/ (key.time = Time(a, m) /\ key.id > m))
                        /\ Keyset(a, "all-null", key, m) <=> Time(a, m) = NoTime
                        /\ Time(a, m) = NoTime => key.time > Time(a, m)
      OBVIOUS
    <3>1. Time(a, m) \in Nat /\ m \in Nat /\ key.id \in Nat /\ key.time \in Nat
      BY <1>1, <1>4, IdsAreNumbers DEF Timed, KeyIs
    <3>2. Keyset(a, "before-timestamp", key, m) <=>
            Time(a, m) # NoTime /\ Time(a, m) <= key.time /\ (Time(a, m) < key.time \/ m < key.id)
      BY DEF Keyset
    <3>3. Keyset(a, "all-null", key, m) <=> Time(a, m) = NoTime
      BY DEF Keyset
    <3> QED BY <1>4, <3>1, <3>2, <3>3 DEF NoTime
  <2>2. T \cup N = After(a, E, key)
    BY <1>4, <2>1 DEF After
  <2>3. \A m \in T, x \in N : Before(a, m, x)
    BY <1>1, <2>1 DEF Before, Timed, NoTime
  <2>4. T \in SUBSET Messages /\ N \in SUBSET Messages
    BY <1>1
  <2>5. Adaptive(a, E, "before-timestamp", key, wanted) = First(a, T, wanted)
    BY QueriesAgree
  <2>6. \A n : SourceFallback(a, E, "all-null", key, n) = First(a, N, n)
    BY DEF SourceFallback
  <2> HIDE DEF T, N, Of
  <2>7. PageRows(a, E, key, wanted) =
          IF wanted - Cardinality(First(a, T, wanted)) > 0
          THEN First(a, T, wanted) \cup First(a, N, wanted - Cardinality(First(a, T, wanted)))
          ELSE First(a, T, wanted)
    BY <1>4, <2>5, <2>6 DEF PageRows
  <2>8. First(a, T \cup N, wanted) =
          IF wanted - Cardinality(First(a, T, wanted)) > 0
          THEN First(a, T, wanted) \cup First(a, N, wanted - Cardinality(First(a, T, wanted)))
          ELSE First(a, T, wanted)
    BY <1>1, <2>3, <2>4, TwoPhases
  <2> QED BY <2>2, <2>7, <2>8
<1> QED BY <1>2, <1>3, <1>4

-----------------------------------------------------------------------------
(* One more page of a walk that has served a beginning of the listing.     *)

LEMMA LastExists ==
  ASSUME NEW a, Timed(a), NEW S \in SUBSET Messages, S # {}
  PROVE  \E m \in S : \A n \in S \ {m} : Before(a, n, m)
<1> DEFINE f == [m \in S |-> Rank(a, S, m)]
<1>1. Cardinality(S) \in Nat /\ Cardinality(S) # 0
  BY SubsetsAreFinite, FS_EmptySet
<1>2. f \in Surjection(S, 0 .. Cardinality(S) - 1)
  BY RanksAreAll DEF Bijection
<1>3. Cardinality(S) - 1 \in 0 .. Cardinality(S) - 1
  BY <1>1
<1>4. PICK m \in S : f[m] = Cardinality(S) - 1
  <2> HIDE DEF f
  <2> QED BY <1>2, <1>3 DEF Surjection
<1>5. ASSUME NEW n \in S \ {m} PROVE Before(a, n, m)
  <2>1. Before(a, n, m) \/ Before(a, m, n)
    BY Ordered
  <2>2. ~Before(a, m, n)
    BY <1>1, <1>4, Ranks
  <2> QED BY <2>1, <2>2
<1> QED BY <1>5

(* The key of a row says what comes after it.                              *)
Beyond(a, key, m) == key.time > Time(a, m) \/ (key.time = Time(a, m) /\ key.id > m)
KeyOf(a, m) == [time |-> Time(a, m), id |-> m]

LEMMA KeysSayAfter ==
  ASSUME NEW a, Timed(a), NEW m \in Messages, NEW n \in Messages
  PROVE  /\ KeyIs(KeyOf(a, m))
         /\ Beyond(a, KeyOf(a, m), n) <=> Before(a, m, n)
BY DEF KeyIs, KeyOf, Beyond, Before, Timed

PageOf(a, E, key, limit) == IF DOMAIN E = {} THEN {} ELSE PageRows(a, E, key, limit + 1)

LEMMA PageIs ==
  ASSUME NEW a \in Archive, NEW E, NEW key, KeyIs(key), NEW limit \in Nat
  PROVE  PageOf(a, E, key, limit) = First(a, After(a, E, key), limit + 1)
<1>1. CASE DOMAIN E = {}
  <2>1. After(a, E, key) = {}
    BY <1>1, RepresentativesAre DEF After, Eligible
  <2>2. First(a, {}, limit + 1) = {}
    BY FirstIs
  <2> QED BY <1>1, <2>1, <2>2 DEF PageOf
<1>2. CASE DOMAIN E # {}
  BY <1>2, PagesAreFirst DEF PageOf
<1> QED BY <1>1, <1>2

LEMMA NextPage ==
  ASSUME NEW a \in Archive, NEW E, NEW key, KeyIs(key), NEW limit \in Nat \ {0},
         NEW got, Begins(a, got, Representatives(a, E)),
         After(a, E, key) = Representatives(a, E) \ got,
         NEW rows, rows = PageOf(a, E, key, limit),
         NEW items, items = First(a, rows, limit)
  PROVE  /\ items \subseteq Representatives(a, E)
         /\ Begins(a, got \cup items, Representatives(a, E))
         /\ Cardinality(got \cup items) = Cardinality(got) + Cardinality(items)
         /\ ~(Cardinality(rows) > limit) => got \cup items = Representatives(a, E)
         /\ Cardinality(rows) > limit =>
              /\ \E m \in items : \A n \in items \ {m} : Before(a, n, m)
              /\ \A m \in items : (\A n \in items \ {m} : Before(a, n, m)) =>
                   \A x \in Representatives(a, E) : x \notin got \cup items <=> Before(a, m, x)
<1> DEFINE R == Representatives(a, E)
           A == R \ got
<1>1. Timed(a) /\ R \in SUBSET Messages /\ A \in SUBSET Messages /\ got \in SUBSET R
  BY ArchivesAreTimed, RepresentativesAre DEF Begins
<1>2. rows = First(a, A, limit + 1)
  BY PageIs
<1>3. items = First(a, A, limit)
  <2> HIDE DEF A, R
  <2> QED BY <1>1, <1>2, FirstTwice
<1> HIDE DEF A
<1>4. items \in SUBSET A /\ Begins(a, items, A)
  BY <1>1, <1>3, FirstSize, FirstBegins
<1>5. items \subseteq R /\ items \cap got = {}
  BY <1>4 DEF A
<1>6. Begins(a, got \cup items, R)
  BY <1>4 DEF Begins, A
<1>7. Cardinality(got \cup items) = Cardinality(got) + Cardinality(items)
  <2>1. /\ IsFiniteSet(got) /\ Cardinality(got) \in Nat
        /\ IsFiniteSet(items) /\ Cardinality(items) \in Nat
    BY <1>1, <1>5, SubsetsAreFinite
  <2>2. Cardinality(got \cup items) = Cardinality(got) + Cardinality(items) - Cardinality(got \cap items)
    BY <2>1, FS_Union
  <2>3. got \cap items = {} /\ Cardinality({}) = 0
    BY <1>5, FS_EmptySet
  <2>4. Cardinality(got \cap items) = 0
    BY <2>3
  <2> QED BY <2>1, <2>2, <2>4
<1>8. Cardinality(A) \in Nat
  BY <1>1, SubsetsAreFinite
<1>9. ASSUME ~(Cardinality(rows) > limit) PROVE got \cup items = R
  <2>1. Cardinality(A) <= limit
    <3>1. Cardinality(A) >= limit + 1 => Cardinality(rows) = limit + 1
      BY <1>1, <1>2, FirstSize
    <3> QED BY <1>8, <1>9, <3>1
  <2>2. items = A
    BY <1>1, <1>3, <2>1, FirstSize
  <2> QED BY <1>1, <2>2 DEF A
<1>10. ASSUME Cardinality(rows) > limit
       PROVE  \E m \in items : \A n \in items \ {m} : Before(a, n, m)
  <2>1. Cardinality(A) > limit
    <3>1. Cardinality(A) <= limit + 1 => rows = A
      BY <1>1, <1>2, FirstSize
    <3> QED BY <1>8, <1>10, <3>1
  <2>2. Cardinality(items) = limit
    BY <1>1, <1>3, <1>8, <2>1, FirstSize
  <2>3. items # {}
    BY <2>2, FS_EmptySet
  <2> QED BY <1>1, <1>5, <2>3, LastExists
<1>11. ASSUME NEW m \in items, \A n \in items \ {m} : Before(a, n, m), NEW x \in R
       PROVE  x \notin got \cup items <=> Before(a, m, x)
  <2>1. m \in Messages /\ x \in Messages /\ m \in R /\ m \notin got
    BY <1>1, <1>5
  <2>2. ASSUME x \notin got, x \notin items PROVE Before(a, m, x)
    <3>1. ~Before(a, x, m)
      BY <1>4, <2>2 DEF Begins, A
    <3> QED BY <1>1, <2>1, <2>2, <3>1, Ordered
  <2>3. ASSUME Before(a, m, x) PROVE x \notin got \cup items
    <3>1. x \notin items
      BY <1>1, <1>11, <2>1, <2>3, Ordered
    <3>2. x \notin got
      BY <2>1, <2>3 DEF Begins
    <3> QED BY <3>1, <3>2
  <2> QED BY <2>2, <2>3
<1> QED BY <1>5, <1>6, <1>7, <1>9, <1>10, <1>11

-----------------------------------------------------------------------------
(* The inductive invariant.  What a request will answer from is what the   *)
(* archive has, unless a commit has given it another version; and a cursor *)
(* made here and now divides the listing of its walk.                      *)

ArchiveFact == archive \in Archive /\ version \in Nat /\ scope \in Nat

CatalogFact ==
  /\ catalog \in [Sources -> ReadSource] /\ choice \in [Sources -> BOOLEAN]
  /\ \A s \in Sources : catalog[s].enabled = choice[s]

RequestFact ==
  request # None =>
    /\ request.snapshot \in Archive /\ request.snapshot.mail = archive.mail
    /\ request.version \in Nat /\ request.version <= version
    /\ request.version = version => request.snapshot = archive
    /\ request.kind = "list" =>
         /\ request.limit \in Limits
         /\ request.cursor = walk.cursor
         /\ request.cursor = None => walk.got = {} /\ walk.rows = 0 /\ ~walk.begun
    /\ request.kind = "open" => request.message \in Messages

ServedFact ==
  /\ walk.listing \in SUBSET Messages
  /\ Begins(archive, walk.got, walk.listing)
  /\ walk.rows = Cardinality(walk.got)
  /\ walk.complete => walk.got = walk.listing

CursorFact ==
  walk.cursor # None =>
    /\ walk.begun
    /\ walk.cursor.scope \in Nat /\ walk.cursor.scope <= scope
    /\ walk.cursor.version \in Nat
    /\ walk.cursor.scope = scope => walk.cursor.version <= version
    /\ walk.cursor.scope = scope /\ walk.cursor.version = version
         => Representatives(archive, walk.cursor.digest) = walk.listing
    /\ walk.cursor.key # None /\ KeyIs(walk.cursor.key)
    /\ \A m \in walk.listing : m \notin walk.got <=> Beyond(archive, walk.cursor.key, m)

IInv == ArchiveFact /\ CatalogFact /\ RequestFact /\ ServedFact /\ CursorFact

LEMMA MailSaysWhen ==
  ASSUME NEW a, NEW b, a.mail = b.mail
  PROVE  /\ \A m : Time(a, m) = Time(b, m)
         /\ \A m, n : Before(a, m, n) <=> Before(b, m, n)
         /\ \A A, S : Begins(a, A, S) <=> Begins(b, A, S)
         /\ \A key, m : Beyond(a, key, m) <=> Beyond(b, key, m)
<1>1. \A m : Time(a, m) = Time(b, m)
  BY DEF Time
<1>2. \A m, n : Before(a, m, n) <=> Before(b, m, n)
  BY <1>1 DEF Before
<1>3. \A A, S : Begins(a, A, S) <=> Begins(b, A, S)
  BY <1>2 DEF Begins
<1>4. \A key, m : Beyond(a, key, m) <=> Beyond(b, key, m)
  BY <1>1 DEF Beyond
<1> QED BY <1>1, <1>2, <1>3, <1>4

(* A commit makes every cursor and every snapshot old.                     *)
LEMMA Committed ==
  ASSUME IInv, NEW next \in Archive, next.mail = archive.mail, Commit(next)
  PROVE  IInv'
<1>1. /\ archive' = next /\ version' = version + 1
      /\ UNCHANGED <<scope, catalog, request, walk, choice>>
  BY DEF Commit
<1>2. ArchiveFact' /\ CatalogFact'
  BY <1>1 DEF IInv, ArchiveFact, CatalogFact
<1>3. RequestFact'
  BY <1>1 DEF IInv, ArchiveFact, RequestFact
<1>4. ServedFact'
  <2>1. Begins(next, walk.got, walk.listing)
    BY MailSaysWhen DEF IInv, ServedFact
  <2> QED BY <1>1, <2>1 DEF IInv, ServedFact
<1>5. CursorFact'
  <2>1. \A m : Beyond(next, walk.cursor.key, m) <=> Beyond(archive, walk.cursor.key, m)
    BY MailSaysWhen
  <2>2. walk.cursor # None /\ walk.cursor.scope = scope => walk.cursor.version < version + 1
    BY DEF IInv, ArchiveFact, CursorFact
  <2> QED BY <1>1, <2>1, <2>2 DEF IInv, ArchiveFact, CursorFact
<1> QED BY <1>2, <1>3, <1>4, <1>5 DEF IInv

LEMMA ArchiveMoves ==
  ASSUME IInv
  PROVE  /\ \A m \in Messages : SyncMessage(m) => IInv'
         /\ \A s \in Sources, addresses \in SUBSET Addresses : ChangeSource(s, addresses) => IInv'
<1>1. archive \in Archive
  BY DEF IInv, ArchiveFact
<1>2. ASSUME NEW m \in Messages, SyncMessage(m) PROVE IInv'
  <2> DEFINE live == IF m \in archive.live THEN archive.live \ {m} ELSE archive.live \cup {m}
             next == [archive EXCEPT !.live = live]
  <2>1. next \in Archive /\ next.mail = archive.mail
    BY <1>1 DEF Archive
  <2>2. Commit(next)
    BY <1>2 DEF SyncMessage
  <2> HIDE DEF next
  <2> QED BY <2>1, <2>2, Committed
<1>3. ASSUME NEW s \in Sources, NEW addresses \in SUBSET Addresses, ChangeSource(s, addresses) PROVE IInv'
  <2> DEFINE next == [archive EXCEPT !.sources[s] = addresses]
  <2>1. next \in Archive /\ next.mail = archive.mail
    BY <1>1 DEF Archive
  <2>2. Commit(next)
    BY <1>3 DEF ChangeSource
  <2> HIDE DEF next
  <2> QED BY <2>1, <2>2, Committed
<1> QED BY <1>2, <1>3

LEMMA UserChooses ==
  ASSUME IInv, NEW s \in Sources, NEW enabled \in BOOLEAN, SetEnabled(s, enabled)
  PROVE  IInv'
<1>1. UNCHANGED <<archive, version, scope, request, walk>>
  BY DEF SetEnabled
<1>2. CatalogFact'
  BY DEF SetEnabled, IInv, CatalogFact, ReadSource
<1> QED BY <1>1, <1>2 DEF IInv, ArchiveFact, RequestFact, ServedFact, CursorFact

(* Begin takes the snapshot; nothing it answers from can be older.         *)
LEMMA RequestsBegin ==
  ASSUME IInv
  PROVE  /\ \A limit \in Limits : BeginFirstPage(limit) \/ BeginNextPage(limit) => IInv'
         /\ \A m \in Messages : BeginOpen(m) => IInv'
         /\ BeginReconcile => IInv'
<1>1. ASSUME NEW kind, NEW limit, NEW cursor, NEW m, Begin(kind, limit, cursor, m)
      PROVE  /\ ArchiveFact' /\ CatalogFact'
             /\ request'.snapshot = archive /\ request'.version = version
             /\ request'.kind = kind /\ request'.limit = limit /\ request'.cursor = cursor
             /\ request'.message = m
             /\ UNCHANGED <<archive, version, scope>>
  BY <1>1 DEF IInv, ArchiveFact, CatalogFact, Begin
<1>2. ASSUME NEW limit \in Limits, BeginFirstPage(limit) PROVE IInv'
  <2>1. Begin("list", limit, None, None) /\ walk' = FreshWalk
    BY <1>2 DEF BeginFirstPage
  <2>2. RequestFact'
    BY <1>1, <2>1 DEF IInv, ArchiveFact, RequestFact, FreshWalk
  <2>3. ServedFact'
    BY <2>1, FS_EmptySet DEF ServedFact, FreshWalk, Begins
  <2>4. CursorFact'
    BY <2>1 DEF CursorFact, FreshWalk
  <2> QED BY <1>1, <2>1, <2>2, <2>3, <2>4 DEF IInv
<1>3. ASSUME NEW limit \in Limits, BeginNextPage(limit) PROVE IInv'
  <2>1. Begin("list", limit, walk.cursor, None) /\ walk' = walk /\ walk.cursor # None
    BY <1>3 DEF BeginNextPage
  <2>2. RequestFact'
    BY <1>1, <2>1 DEF IInv, ArchiveFact, RequestFact
  <2>3. ServedFact' /\ CursorFact'
    BY <1>1, <2>1 DEF IInv, ServedFact, CursorFact
  <2> QED BY <1>1, <2>1, <2>2, <2>3 DEF IInv
<1>4. ASSUME NEW kind, NEW m, kind # "list", kind = "open" => m \in Messages,
             Begin(kind, None, None, m), walk' = walk
      PROVE  IInv'
  <2>1. RequestFact'
    BY <1>1, <1>4 DEF IInv, ArchiveFact, RequestFact
  <2>2. ServedFact' /\ CursorFact'
    BY <1>1, <1>4 DEF IInv, ServedFact, CursorFact
  <2> QED BY <1>1, <1>4, <2>1, <2>2 DEF IInv
<1> QED BY <1>2, <1>3, <1>4 DEF BeginOpen, BeginReconcile

(* The catalog a request leaves connects only what the user left enabled.  *)
LEMMA CatalogIs ==
  ASSUME IInv, request # None
  PROVE  /\ CatalogNow \in [Sources -> ReadSource]
         /\ \A s \in Sources : CatalogNow[s].enabled = choice[s]
         /\ Connected(CatalogNow) \in Catalog
         /\ \A s \in DOMAIN Connected(CatalogNow) : choice[s]
<1> DEFINE c == CatalogNow
<1>1. /\ catalog \in [Sources -> ReadSource]
      /\ \A s \in Sources : catalog[s].enabled = choice[s]
      /\ request.snapshot \in Archive
  BY DEF IInv, CatalogFact, RequestFact
<1>2. \A s \in Sources : request.snapshot.sources[s] \in SUBSET Addresses
  BY <1>1 DEF Archive
<1>3. c \in [Sources -> ReadSource] /\ \A s \in Sources : c[s].enabled = choice[s]
  <2>1. CASE Collides(request.snapshot)
    BY <1>1, <2>1 DEF CatalogNow
  <2>2. CASE ~Collides(request.snapshot)
    <3>1. c = Reconciled(request.snapshot)
      BY <2>2 DEF CatalogNow
    <3>2. ASSUME NEW s \in Sources PROVE c[s] \in ReadSource /\ c[s].enabled = choice[s]
      <4>1. catalog[s] \in ReadSource /\ catalog[s].enabled = choice[s]
            /\ request.snapshot.sources[s] \in SUBSET Addresses
        BY <1>1, <1>2
      <4>2. CASE request.snapshot.sources[s] # {}
        <5>1. c[s] = [known |-> TRUE, enabled |-> catalog[s].enabled, present |-> TRUE,
                      identities |-> request.snapshot.sources[s]]
          BY <3>1, <4>2 DEF Reconciled
        <5> QED BY <4>1, <5>1 DEF ReadSource
      <4>3. CASE request.snapshot.sources[s] = {}
        <5>1. c[s] = [catalog[s] EXCEPT !.present = FALSE]
          BY <3>1, <4>3 DEF Reconciled
        <5> QED BY <4>1, <5>1 DEF ReadSource
      <4> QED BY <4>2, <4>3
    <3>3. c = [s \in Sources |-> c[s]]
      BY <3>1 DEF Reconciled
    <3> QED BY <3>2, <3>3
  <2> QED BY <2>1, <2>2
<1> HIDE DEF c
<1>4. /\ DOMAIN Connected(c) \in SUBSET Sources
      /\ \A s \in DOMAIN Connected(c) : c[s].enabled /\ Connected(c)[s] \in SUBSET Addresses
  BY <1>3 DEF Connected, ReadSource
<1>5. Connected(c) = [s \in DOMAIN Connected(c) |-> Connected(c)[s]]
  BY DEF Connected
<1>6. Connected(c) \in [DOMAIN Connected(c) -> SUBSET Addresses]
  BY <1>4, <1>5
<1>7. Connected(c) \in Catalog
  BY <1>4, <1>6 DEF Catalog
<1>8. \A s \in DOMAIN Connected(c) : choice[s]
  BY <1>3, <1>4
<1> QED BY <1>3, <1>7, <1>8 DEF c

LEMMA CapturesKeep ==
  ASSUME IInv, NEW kind, Capture(kind)
  PROVE  /\ ArchiveFact' /\ CatalogFact' /\ RequestFact'
         /\ UNCHANGED <<archive, version, scope, choice>>
<1>1. /\ request # None /\ request' = None /\ catalog' = CatalogNow
      /\ UNCHANGED <<archive, version, scope, choice>>
  BY DEF Capture
<1>2. ArchiveFact' /\ RequestFact'
  BY <1>1 DEF IInv, ArchiveFact, RequestFact
<1>3. CatalogFact'
  BY <1>1, CatalogIs DEF IInv, CatalogFact
<1> QED BY <1>1, <1>2, <1>3

(* A page served is the next one of the listing of its walk.               *)
LEMMA PagesGoOn ==
  ASSUME IInv, FinishList PROVE IInv'
<1> DEFINE E == Connected(CatalogNow)
           key == IF request.cursor = None THEN None ELSE request.cursor.key
           rows == ListRows(E)
           items == ListItems(E)
           next == NextCursor(E)
<1>1. /\ Capture("list") /\ request # None /\ request.kind = "list"
      /\ IF ListFails(E)
         THEN walk' = walk
         ELSE walk' = [cursor |-> next, begun |-> TRUE, complete |-> next = None, at |-> Here(E),
                       got |-> walk.got \cup items, rows |-> walk.rows + Cardinality(items),
                       listing |-> IF walk.begun THEN walk.listing
                                   ELSE Representatives(request.snapshot, E)]
  BY DEF FinishList, Capture
<1>2. /\ ArchiveFact' /\ CatalogFact' /\ RequestFact'
      /\ UNCHANGED <<archive, version, scope>>
  BY <1>1, CapturesKeep
<1>3. CASE ListFails(E)
  BY <1>1, <1>2, <1>3 DEF IInv, ServedFact, CursorFact
<1>4. CASE ~ListFails(E)
  <2>1. /\ request.version = version /\ request.snapshot = archive /\ archive \in Archive
        /\ request.cursor = walk.cursor /\ request.limit \in Nat \ {0}
        /\ request.cursor = None => walk.got = {} /\ walk.rows = 0 /\ ~walk.begun
        /\ ~Stale(E)
    BY <1>1, <1>4, InputsAreTyped DEF ListFails, Disturbed, IInv, ArchiveFact, RequestFact
  <2>2. request.cursor # None =>
          /\ walk.cursor.scope = scope /\ walk.cursor.version = version /\ walk.cursor.digest = E
    <3> SUFFICES ASSUME request.cursor # None
                 PROVE  /\ request.cursor.scope = scope /\ request.cursor.version = version
                        /\ request.cursor.digest = E
      BY <2>1
    <3> HIDE DEF E
    <3>1. [scope |-> scope, version |-> request.version, digest |-> E]
            = [f \in {"scope", "version", "digest"} |-> request.cursor[f]]
      BY <2>1 DEF Stale, Here
    <3> QED BY <2>1, <3>1
  <2> HIDE DEF E
  <2> DEFINE R == Representatives(archive, E)
             listing == IF walk.begun THEN walk.listing ELSE R
  <2>3. /\ listing = R /\ Begins(archive, walk.got, R) /\ KeyIs(key)
        /\ After(archive, E, key) = R \ walk.got
    <3>1. CASE request.cursor = None
      BY <2>1, <3>1 DEF Begins, KeyIs, After
    <3>2. CASE request.cursor # None
      <4>1. /\ walk.begun /\ walk.listing = R /\ KeyIs(walk.cursor.key)
            /\ \A m \in R : m \notin walk.got <=> Beyond(archive, walk.cursor.key, m)
            /\ walk.cursor.key # None
        BY <2>1, <2>2, <3>2 DEF IInv, CursorFact
      <4>2. Begins(archive, walk.got, R)
        BY <4>1 DEF IInv, ServedFact
      <4>3. key = walk.cursor.key
        BY <2>1, <3>2
      <4> HIDE DEF R, key
      <4>4. After(archive, E, key) = {m \in R : Beyond(archive, key, m)}
        BY <4>1, <4>3 DEF After, Beyond, R
      <4>5. After(archive, E, key) = R \ walk.got
        BY <4>1, <4>3, <4>4
      <4>6. listing = R
        BY <4>1
      <4> QED BY <4>1, <4>2, <4>3, <4>5, <4>6
    <3> QED BY <3>1, <3>2
  <2>4. rows = PageOf(archive, E, key, request.limit) /\ items = First(archive, rows, request.limit)
    BY <2>1 DEF ListRows, ListItems, PageOf
  <2> HIDE DEF key, rows, items
  <2>5. /\ items \subseteq R
        /\ Begins(archive, walk.got \cup items, R)
        /\ Cardinality(walk.got \cup items) = Cardinality(walk.got) + Cardinality(items)
        /\ ~(Cardinality(rows) > request.limit) => walk.got \cup items = R
        /\ Cardinality(rows) > request.limit =>
             /\ \E m \in items : \A n \in items \ {m} : Before(archive, n, m)
             /\ \A m \in items : (\A n \in items \ {m} : Before(archive, n, m)) =>
                  \A x \in R : x \notin walk.got \cup items <=> Before(archive, m, x)
    BY <2>1, <2>3, <2>4, NextPage
  <2>6. R \in SUBSET Messages
    BY RepresentativesAre
  <2> HIDE DEF R, next
  <2>7. /\ walk'.cursor = next /\ walk'.begun = TRUE /\ walk'.complete = (next = None)
        /\ walk'.got = walk.got \cup items /\ walk'.rows = walk.rows + Cardinality(items)
        /\ walk'.listing = R
    BY <1>1, <1>4, <2>1, <2>3 DEF R
  <2>8. CASE ~(Cardinality(rows) > request.limit)
    <3>1. next = None
      BY <2>8 DEF next, NextCursor, rows
    <3>2. ServedFact'
      BY <1>2, <2>5, <2>6, <2>7, <2>8 DEF ServedFact, IInv
    <3>3. CursorFact'
      BY <2>7, <3>1 DEF CursorFact
    <3> QED BY <1>2, <3>2, <3>3 DEF IInv
  <2>9. CASE Cardinality(rows) > request.limit
    <3> DEFINE last == CHOOSE m \in items : \A n \in items \ {m} : Before(archive, n, m)
    <3>1. last \in items /\ \A n \in items \ {last} : Before(archive, n, last)
      BY <2>5, <2>9
    <3>2. next = [scope |-> scope, version |-> version, digest |-> E, key |-> KeyOf(archive, last)]
      BY <2>1, <2>9 DEF next, NextCursor, rows, items, KeyOf
    <3> HIDE DEF last
    <3>3. last \in Messages
      BY <2>5, <2>6, <3>1
    <3>4. KeyOf(archive, last) \in Key
      <4>1. archive.mail[last] \in Message
        BY <2>1, <3>3 DEF Archive
      <4>2. Time(archive, last) \in Times \cup {NoTime}
        BY <4>1 DEF Message, Time
      <4> QED BY <3>3, <4>2 DEF KeyOf, Key
    <3>5. next \in Cursor
      BY <1>1, <3>2, <3>4, CatalogIs DEF IInv, ArchiveFact, Cursor, E
    <3>6. next # None /\ next.key # None
      BY <3>2, <3>4, <3>5, NoneIsNoCursor
    <3>7. \A m \in R : m \notin walk.got \cup items <=> Beyond(archive, next.key, m)
      <4>1. \A m \in R : m \notin walk.got \cup items <=> Before(archive, last, m)
        BY <2>5, <2>9, <3>1
      <4>2. \A m \in R : Beyond(archive, KeyOf(archive, last), m) <=> Before(archive, last, m)
        BY <2>1, <2>6, <3>3, ArchivesAreTimed, KeysSayAfter
      <4> QED BY <3>2, <4>1, <4>2
    <3>8. KeyIs(next.key)
      BY <2>1, <3>2, <3>3, ArchivesAreTimed, KeysSayAfter
    <3>9. ServedFact'
      BY <1>2, <2>5, <2>6, <2>7, <3>6 DEF ServedFact, IInv
    <3>10. CursorFact'
      <4>1. next.scope = scope /\ next.version = version /\ next.digest = E
        BY <3>2
      <4>2. scope \in Nat /\ version \in Nat
        BY DEF IInv, ArchiveFact
      <4>3. Representatives(archive, next.digest) = R
        BY <4>1 DEF R
      <4> QED BY <1>2, <2>7, <3>6, <3>7, <3>8, <4>1, <4>2, <4>3 DEF CursorFact
    <3> QED BY <1>2, <3>9, <3>10 DEF IInv
  <2> QED BY <2>8, <2>9
<1> QED BY <1>3, <1>4

LEMMA OthersFinish ==
  ASSUME IInv PROVE FinishOpen \/ FinishReconcile => IInv'
<1> SUFFICES ASSUME NEW kind, Capture(kind), walk' = walk PROVE IInv'
  BY DEF FinishOpen, FinishReconcile
<1>1. /\ ArchiveFact' /\ CatalogFact' /\ RequestFact' /\ UNCHANGED <<archive, version, scope>>
  BY CapturesKeep
<1> QED BY <1>1 DEF IInv, ServedFact, CursorFact

(* A restart makes every cursor old: its scope is gone.                    *)
LEMMA ReaderRestarts ==
  ASSUME IInv, Restart PROVE IInv'
<1>1. /\ scope' = scope + 1 /\ version' = 1 /\ request' = None
      /\ UNCHANGED <<archive, catalog, walk, choice>>
  BY DEF Restart
<1>2. ArchiveFact' /\ CatalogFact' /\ RequestFact' /\ ServedFact'
  BY <1>1 DEF IInv, ArchiveFact, CatalogFact, RequestFact, ServedFact
<1>3. CursorFact'
  BY <1>1 DEF IInv, ArchiveFact, CursorFact
<1> QED BY <1>2, <1>3 DEF IInv

(* The walk and the user's choices are what IInv says, in every state.     *)
THEOREM Invariant == Spec => []IInv
<1>1. ASSUME Init PROVE IInv
  <2>1. ArchiveFact /\ RequestFact
    BY <1>1, InputsAreTyped DEF Init, ArchiveFact, RequestFact
  <2>2. CatalogFact
    BY <1>1 DEF Init, CatalogFact, Unknown, ReadSource
  <2>3. ServedFact
    BY <1>1, FS_EmptySet DEF Init, ServedFact, FreshWalk, Begins
  <2>4. CursorFact
    BY <1>1 DEF Init, CursorFact, FreshWalk
  <2> QED BY <2>1, <2>2, <2>3, <2>4 DEF IInv
<1>2. ASSUME IInv, [Next]_vars PROVE IInv'
  <2>1. ASSUME UNCHANGED vars PROVE IInv'
    BY <1>2, <2>1 DEF vars, IInv, ArchiveFact, CatalogFact, RequestFact, ServedFact, CursorFact
  <2>2. ASSUME Next PROVE IInv'
    BY <1>2, <2>2, ArchiveMoves, UserChooses, RequestsBegin, PagesGoOn, OthersFinish, ReaderRestarts
    DEF Next
  <2> QED BY <1>2, <2>1, <2>2
<1> QED BY <1>1, <1>2, PTL DEF Spec

(* The pages of one walk, put together, are a beginning of the listing     *)
(* that existed when it began, and all of it when the last page says so:   *)
(* loadPage's windows, phases and cursors, for every archive and limit.    *)
THEOREM WalksAreTheListing == Spec => []WalkIsTheListing
<1>1. IInv => WalkIsTheListing
  BY DEF IInv, ServedFact, WalkIsTheListing, Begins
<1> QED BY <1>1, Invariant, PTL

-----------------------------------------------------------------------------
(* What is shown comes from sources the user left enabled.                 *)

ShownIn(thread) == {archive.mail[m].source : m \in DOMAIN thread.messages}

LEMMA WindowsShowTheBest ==
  \A a, E, W : {p \in W \cap Eligible(a, E) :
                 \E m \in W \cap Eligible(a, E) : p \in Best(a, E, Copies(a, E, m))}
               \subseteq Representatives(a, E)
BY WindowSelects

LEMMA RowsAreEligible ==
  ASSUME NEW E PROVE ListRows(E) \subseteq Representatives(request.snapshot, E)
<1>1. \A key, n : PageRows(request.snapshot, E, key, n) \subseteq Representatives(request.snapshot, E)
  <2>1. \A mode, key, n :
          Adaptive(request.snapshot, E, mode, key, n) \subseteq Representatives(request.snapshot, E)
    <3>1. \A mode, key, n :
            RecentWindow(request.snapshot, E, mode, key, n) \subseteq Representatives(request.snapshot, E)
      BY FirstIs, WindowsShowTheBest DEF RecentWindow
    <3>2. \A mode, key, n :
            SourceFallback(request.snapshot, E, mode, key, n) \subseteq Representatives(request.snapshot, E)
      BY FirstIs DEF SourceFallback
    <3> QED BY <3>1, <3>2 DEF Adaptive
  <2>2. \A mode, key, n :
          SourceFallback(request.snapshot, E, mode, key, n) \subseteq Representatives(request.snapshot, E)
    BY FirstIs DEF SourceFallback
  <2> QED BY <2>1, <2>2 DEF PageRows
<1> QED BY <1>1 DEF ListRows

LEMMA ItemsAreEligible ==
  ASSUME NEW E PROVE ListItems(E) \subseteq Eligible(request.snapshot, E)
<1>1. ListItems(E) \subseteq ListRows(E)
  BY FirstIs DEF ListItems
<1> QED BY <1>1, RowsAreEligible, RepresentativesAre

LEMMA PagesShowTheChosen ==
  ASSUME IInv, FinishList PROVE \A s \in ShownSources(answer') : choice[s]
<1> DEFINE E == Connected(CatalogNow)
           items == ListItems(E)
<1>1. /\ Capture("list") /\ request # None
      /\ answer' = IF ListFails(E) THEN [kind |-> "page", status |-> "failed"]
                   ELSE [kind |-> "page", status |-> "ok", items |-> items]
  BY DEF FinishList, Capture
<1>2. CASE ListFails(E)
  <2>1. answer'.kind = "page" /\ answer'.status = "failed"
    BY <1>1, <1>2
  <2> QED BY <2>1 DEF ShownSources
<1>3. CASE ~ListFails(E)
  <2>1. answer'.kind = "page" /\ answer'.status = "ok" /\ answer'.items = items
    BY <1>1, <1>3
  <2> HIDE DEF E, items
  <2>2. items \subseteq Eligible(request.snapshot, E)
    BY ItemsAreEligible DEF items
  <2>3. \A m \in items : archive.mail[m].source \in DOMAIN E
    BY <1>1, <2>2 DEF Eligible, IInv, RequestFact
  <2>4. \A s \in DOMAIN E : choice[s]
    BY <1>1, CatalogIs DEF E
  <2>5. ShownSources(answer') = {archive.mail[m].source : m \in items}
    BY <2>1 DEF ShownSources
  <2> QED BY <2>3, <2>4, <2>5
<1> QED BY <1>2, <1>3

LEMMA ThreadsAreOfOneSource ==
  ASSUME NEW a, NEW sel, NEW m \in Retained(a, sel)
  PROVE  a.mail[m].source = a.mail[sel].source
BY DEF Retained, Recent, Newest, Inspected

(* What an open answers: never that the budgets are exceeded, and not      *)
(* found only what may not be selected.                                    *)
LEMMA Opened ==
  ASSUME IInv, FinishOpen
  PROVE  LET E == Connected(CatalogNow)  sel == request.message  a == request.snapshot IN
         /\ request # None /\ a \in Archive /\ sel \in Messages /\ a.mail = archive.mail
         /\ answer'.kind = "thread" /\ answer'.message = sel /\ answer'.at = Here(E)
         /\ answer'.status # "over_budget"
         /\ answer'.status = "not_found" => ~Disturbed /\ ~Selectable(a, E, sel)
         /\ answer'.status = "ok" => /\ ~Disturbed /\ Selectable(a, E, sel)
                                    /\ answer'.thread = Trimmed(a, Detail(a, sel))
<1> DEFINE E == Connected(CatalogNow)
           sel == request.message
           a == request.snapshot
           told == ThreadAnswer(a, E, sel)
           ans == IF Disturbed THEN [status |-> "failed"] ELSE told
<1>1. /\ request # None /\ request.kind = "open"
      /\ answer' = [kind |-> "thread", message |-> sel, at |-> Here(E), status |-> ans.status,
                    thread |-> IF ans.status = "ok" THEN ans.thread ELSE None]
  BY DEF FinishOpen, Capture
<1>2. a \in Archive /\ sel \in Messages /\ a.mail = archive.mail
  BY <1>1 DEF IInv, RequestFact
<1> HIDE DEF E, sel, a
<1>3. told.status = "ok" => Selectable(a, E, sel)
  BY DEF ThreadAnswer
<1>4. /\ told.status # "over_budget"
      /\ (Selectable(a, E, sel) => told.status # "not_found")
      /\ (told.status = "ok" => told.thread = Trimmed(a, Detail(a, sel)))
  BY <1>2, ThreadsOpen
<1> HIDE DEF told
<1>5. /\ ans.status # "over_budget"
      /\ ans.status = "not_found" => ~Disturbed /\ ~Selectable(a, E, sel)
      /\ ans.status = "ok" => /\ ~Disturbed /\ Selectable(a, E, sel)
                             /\ ans.thread = Trimmed(a, Detail(a, sel))
  <2>1. CASE Disturbed
    <3>1. ans.status = "failed"
      BY <2>1
    <3> HIDE DEF ans
    <3> QED BY <3>1
  <2>2. CASE ~Disturbed
    <3>1. ans = told
      BY <2>2
    <3>2. ans.status # "over_budget"
      BY <1>4, <3>1
    <3> HIDE DEF ans
    <3>3. ans.status = "not_found" => ~Selectable(a, E, sel)
      BY <1>4, <3>1
    <3>4. ans.status = "ok" => Selectable(a, E, sel) /\ ans.thread = Trimmed(a, Detail(a, sel))
      BY <1>3, <1>4, <3>1
    <3> QED BY <2>2, <3>2, <3>3, <3>4
  <2> QED BY <2>1, <2>2
<1> HIDE DEF ans
<1>6. /\ answer'.kind = "thread" /\ answer'.message = sel /\ answer'.at = Here(E)
      /\ answer'.status = ans.status /\ (ans.status = "ok" => answer'.thread = ans.thread)
  BY <1>1
<1> QED BY <1>1, <1>2, <1>5, <1>6 DEF E, sel, a

LEMMA ThreadsShowTheChosen ==
  ASSUME IInv, FinishOpen PROVE \A s \in ShownSources(answer') : choice[s]
<1> DEFINE E == Connected(CatalogNow)
           sel == request.message
           a == request.snapshot
<1>1. /\ request # None /\ a \in Archive /\ sel \in Messages /\ a.mail = archive.mail
      /\ answer'.kind = "thread"
      /\ answer'.status = "ok" => Selectable(a, E, sel) /\ answer'.thread = Trimmed(a, Detail(a, sel))
  BY Opened
<1> HIDE DEF E, sel, a
<1>2. CASE answer'.status # "ok"
  BY <1>1, <1>2 DEF ShownSources
<1>3. CASE answer'.status = "ok"
  <2> DEFINE shown == DOMAIN answer'.thread.messages
  <2>1. shown \subseteq Retained(a, sel)
    BY <1>1, <1>3, ThreadsTell
  <2>2. \A m \in shown : archive.mail[m].source \in DOMAIN E
    BY <1>1, <1>3, <2>1, ThreadsAreOfOneSource DEF Selectable
  <2>3. \A s \in DOMAIN E : choice[s]
    BY <1>1, CatalogIs DEF E
  <2>4. ShownSources(answer') = {archive.mail[m].source : m \in shown}
    BY <1>1, <1>3 DEF ShownSources
  <2> HIDE DEF shown
  <2> QED BY <2>2, <2>3, <2>4
<1> QED BY <1>2, <1>3

(* No page and no thread shows mail of a source the user disabled,         *)
(* whatever reconcileReadSources made of the sources in between.           *)
THEOREM HiddenSourcesStayHidden == Spec => HiddenStaysHidden
<1>1. ASSUME IInv, [Next]_vars
      PROVE  [answer' # answer => \A s \in ShownSources(answer') : choice[s]]_vars
  <2> SUFFICES ASSUME Next, answer' # answer PROVE \A s \in ShownSources(answer') : choice[s]
    BY <1>1
  <2>1. CASE answer' = NoAnswer
    BY <2>1 DEF NoAnswer, ShownSources
  <2>2. CASE FinishList
    BY <1>1, <2>2, PagesShowTheChosen
  <2>3. CASE FinishOpen
    BY <1>1, <2>3, ThreadsShowTheChosen
  <2> QED BY <2>1, <2>2, <2>3 DEF Next, SyncMessage, ChangeSource, Commit, SetEnabled, BeginFirstPage,
             BeginNextPage, BeginOpen, BeginReconcile, Begin, FinishReconcile, Restart
<1> QED BY <1>1, Invariant, PTL DEF Spec, HiddenStaysHidden

(* Whatever a thread leaves out of the conversation it says so, and the    *)
(* selected message is cut only to its own cap: decoding, sharing the      *)
(* budgets and trimToJsonBudget together, whatever the conversation holds. *)
THEOREM ThreadsAlwaysTell == Spec => ThreadsTellWhatTheyOmit
<1> DEFINE Told == LET thread == answer'.thread
                       sel == thread.selected
                   IN /\ ~Untold(request.snapshot, thread)
                      /\ Bytes(thread.messages[sel].body)
                           = Bytes(Cut(request.snapshot.mail[sel].body, BodyCap))
<1>1. ASSUME IInv, [Next]_vars
      PROVE  [answer' # answer /\ answer'.kind = "thread" /\ answer'.status = "ok" => Told]_vars
  <2> SUFFICES ASSUME Next, answer' # answer, answer'.kind = "thread", answer'.status = "ok" PROVE Told
    BY <1>1
  <2>1. FinishOpen
    <3>1. answer' # NoAnswer
      BY DEF NoAnswer
    <3>2. ~FinishList
      <4>1. FinishList => answer'.kind = "page"
        BY DEF FinishList
      <4> QED BY <4>1
    <3> QED BY <3>1, <3>2 DEF Next, SyncMessage, ChangeSource, Commit, SetEnabled, BeginFirstPage,
               BeginNextPage, BeginOpen, BeginReconcile, Begin, FinishReconcile, Restart
  <2> DEFINE a == request.snapshot
             sel == request.message
             t == answer'.thread
  <2>2. a \in Archive /\ sel \in Messages /\ t = Trimmed(a, Detail(a, sel))
    BY <1>1, <2>1, Opened
  <2> HIDE DEF sel, t
  <2>3. /\ t.selected = sel /\ sel \in DOMAIN t.messages
        /\ \A m \in DOMAIN t.messages : Tells(a, sel, m, t.messages[m])
        /\ DOMAIN t.messages # Visible(a, sel) => t.historyCut
    BY <2>2, ThreadsTell
  <2>4. Bytes(t.messages[sel].body) = Bytes(Cut(a.mail[sel].body, BodyCap))
    BY <2>3 DEF Tells
  <2>5. ~Untold(a, t)
    BY <2>3 DEF Untold, Tells, Visible
  <2> QED BY <2>3, <2>4, <2>5 DEF t
<1> HIDE DEF Told
<1>2. Spec => [][answer' # answer /\ answer'.kind = "thread" /\ answer'.status = "ok" => Told]_vars
  BY <1>1, Invariant, PTL DEF Spec
<1> QED BY <1>2 DEF Told, ThreadsTellWhatTheyOmit
-----------------------------------------------------------------------------
(* Types: what IInv leaves open is the shape of requests and of the walk.  *)

ShapeFact == moving \in BOOLEAN /\ events \in Nat /\ request \in Request \cup {None} /\ walk \in Walk

LEMMA FreshIsTyped == FreshWalk \in Walk
BY DEF FreshWalk, Walk

LEMMA BeginsAreTyped ==
  ASSUME IInv, ShapeFact,
         NEW kind \in {"list", "open", "reconcile"}, NEW limit \in Limits \cup {None},
         NEW cursor \in Cursor \cup {None}, NEW m \in Messages \cup {None},
         Begin(kind, limit, cursor, m), walk' \in Walk
  PROVE  ShapeFact'
<1>1. /\ request' = [kind |-> kind, limit |-> limit, cursor |-> cursor, message |-> m,
                     snapshot |-> archive, version |-> version]
      /\ UNCHANGED <<moving, events>>
  BY DEF Begin
<1>2. archive \in Archive /\ version \in Nat
  BY DEF IInv, ArchiveFact
<1>3. request' \in Request
  BY <1>1, <1>2 DEF Request
<1> QED BY <1>1, <1>3 DEF ShapeFact

(* The key of the next page is that of the last row served.                *)
LEMMA CursorsAreTyped ==
  ASSUME IInv, request # None, request.kind = "list", NEW E \in Catalog
  PROVE  NextCursor(E) \in Cursor \cup {None}
<1> DEFINE a == request.snapshot
           rows == ListRows(E)
           items == ListItems(E)
           last == CHOOSE m \in items : \A n \in items \ {m} : Before(a, n, m)
<1>1. /\ a \in Archive /\ request.version \in Nat /\ request.limit \in Nat \ {0} /\ scope \in Nat
  BY InputsAreTyped DEF IInv, RequestFact, ArchiveFact
<1> SUFFICES ASSUME Cardinality(rows) > request.limit
             PROVE  [scope |-> scope, version |-> request.version, digest |-> E,
                     key |-> [time |-> Time(a, last), id |-> last]] \in Cursor
  BY DEF NextCursor
<1>2. items \in SUBSET Messages
  BY ItemsAreEligible, RepresentativesAre
<1>3. rows \in SUBSET Messages
  BY RowsAreEligible, RepresentativesAre
<1>4. items # {}
  <2>1. Timed(a) /\ Cardinality(rows) \in Nat
    BY <1>1, <1>3, ArchivesAreTimed, SubsetsAreFinite
  <2>2. items = First(a, rows, request.limit)
    BY DEF ListItems
  <2> HIDE DEF a, rows, items
  <2>3. Cardinality(items) = request.limit
    BY <1>1, <1>3, <2>1, <2>2, FirstSize
  <2> QED BY <1>1, <2>3, FS_EmptySet
<1>5. last \in Messages
  <2>1. \E m \in items : \A n \in items \ {m} : Before(a, n, m)
    BY <1>1, <1>2, <1>4, ArchivesAreTimed, LastExists
  <2> QED BY <1>2, <2>1
<1> HIDE DEF last
<1>6. Time(a, last) \in Times \cup {NoTime}
  <2>1. a.mail[last] \in Message
    BY <1>1, <1>5 DEF Archive
  <2> QED BY <2>1 DEF Message, Time
<1> QED BY <1>1, <1>5, <1>6 DEF Cursor, Key

LEMMA PagesAreTyped ==
  ASSUME IInv, ShapeFact, FinishList PROVE ShapeFact'
<1> DEFINE E == Connected(CatalogNow)
           items == ListItems(E)
           next == NextCursor(E)
<1>1. /\ Capture("list") /\ request # None /\ request.kind = "list"
      /\ request' = None /\ UNCHANGED <<moving, events>>
      /\ \/ walk' = walk
         \/ walk' = [cursor |-> next, begun |-> TRUE, complete |-> next = None, at |-> Here(E),
                     got |-> walk.got \cup items, rows |-> walk.rows + Cardinality(items),
                     listing |-> IF walk.begun THEN walk.listing
                                 ELSE Representatives(request.snapshot, E)]
  BY DEF FinishList, Capture
<1>2. E \in Catalog
  BY <1>1, CatalogIs
<1> HIDE DEF E
<1>3. items \in SUBSET Messages /\ Cardinality(items) \in Nat
  BY ItemsAreEligible, RepresentativesAre, SubsetsAreFinite
<1>4. next \in Cursor \cup {None}
  BY <1>1, <1>2, CursorsAreTyped
<1>5. Here(E) \in Place
  BY <1>1, <1>2 DEF Here, Place, IInv, ArchiveFact, RequestFact
<1> DEFINE listing == IF walk.begun THEN walk.listing ELSE Representatives(request.snapshot, E)
           over == next = None
<1>6. listing \in SUBSET Messages /\ over \in BOOLEAN
  BY RepresentativesAre DEF IInv, ServedFact
<1>7. walk.got \in SUBSET Messages /\ walk.rows \in Nat
  BY DEF ShapeFact, Walk
<1>8. CASE walk' = walk
  BY <1>1, <1>8 DEF ShapeFact
<1>9. CASE walk' = [cursor |-> next, begun |-> TRUE, complete |-> over, at |-> Here(E),
                    got |-> walk.got \cup items, rows |-> walk.rows + Cardinality(items),
                    listing |-> listing]
  <2> HIDE DEF items, next, listing, over
  <2>1. walk' \in Walk
    BY <1>3, <1>4, <1>5, <1>6, <1>7, <1>9 DEF Walk
  <2> QED BY <1>1, <2>1 DEF ShapeFact
<1> QED BY <1>1, <1>8, <1>9

LEMMA ShapesAreKept == ASSUME IInv, ShapeFact, [Next]_vars PROVE ShapeFact'
<1>1. walk \in Walk /\ walk.cursor \in Cursor \cup {None}
  BY DEF ShapeFact, Walk
<1>2. ASSUME NEW limit \in Limits, BeginFirstPage(limit) \/ BeginNextPage(limit) PROVE ShapeFact'
  <2>1. \/ Begin("list", limit, None, None) /\ walk' = FreshWalk
        \/ Begin("list", limit, walk.cursor, None) /\ walk' = walk
    BY <1>2 DEF BeginFirstPage, BeginNextPage
  <2> QED BY <1>1, <2>1, FreshIsTyped, BeginsAreTyped
<1>3. ASSUME NEW m \in Messages, BeginOpen(m) PROVE ShapeFact'
  BY <1>1, <1>3, BeginsAreTyped DEF BeginOpen
<1>4. ASSUME BeginReconcile PROVE ShapeFact'
  BY <1>1, <1>4, BeginsAreTyped DEF BeginReconcile
<1>5. ASSUME \/ \E m \in Messages : SyncMessage(m)
             \/ \E s \in Sources, addresses \in SUBSET Addresses : ChangeSource(s, addresses)
             \/ \E s \in Sources, enabled \in BOOLEAN : SetEnabled(s, enabled)
      PROVE  ShapeFact'
  BY <1>5 DEF ShapeFact, SyncMessage, ChangeSource, Commit, SetEnabled
<1>6. ASSUME FinishOpen \/ FinishReconcile \/ Restart PROVE ShapeFact'
  BY <1>6 DEF ShapeFact, FinishOpen, FinishReconcile, Capture, Restart
<1>7. ASSUME UNCHANGED vars PROVE ShapeFact'
  BY <1>7 DEF ShapeFact, vars
<1> QED BY <1>2, <1>3, <1>4, <1>5, <1>6, <1>7, PagesAreTyped DEF Next

(* Every request, page, commit and restart keeps the reader's state in its *)
(* types, cursors made from stored times and served ids included.          *)
THEOREM TypeCorrect == Spec => []TypeOK
<1>1. Init => ShapeFact
  BY FreshIsTyped, InputsAreTyped DEF Init, ShapeFact
<1>2. IInv /\ ShapeFact /\ [Next]_vars => ShapeFact'
  BY ShapesAreKept
<1>3. IInv /\ ShapeFact => TypeOK
  BY DEF IInv, ShapeFact, ArchiveFact, CatalogFact, TypeOK
<1> QED BY <1>1, <1>2, <1>3, Invariant, PTL DEF Spec

-----------------------------------------------------------------------------
(* What a page listed opens while nothing changes.                         *)

(* What its walk was served last is what its cursor says, and is eligible  *)
(* as long as no commit, restart or choice has made that page old.         *)
PlaceFact ==
  /\ walk.cursor # None =>
       walk.at = [scope |-> walk.cursor.scope, version |-> walk.cursor.version,
                  digest |-> walk.cursor.digest]
  /\ walk.got # {} =>
       /\ walk.at.scope \in Nat /\ walk.at.scope <= scope /\ walk.at.version \in Nat
       /\ walk.at.scope = scope => walk.at.version <= version
       /\ walk.at.scope = scope /\ walk.at.version = version
            => walk.got \subseteq Eligible(archive, walk.at.digest)

PlacedInv == IInv /\ PlaceFact

LEMMA PagesKeepTheirPlace ==
  ASSUME PlacedInv, FinishList PROVE PlaceFact'
<1> DEFINE E == Connected(CatalogNow)
           items == ListItems(E)
           next == NextCursor(E)
<1>1. /\ Capture("list") /\ request # None /\ request.kind = "list"
      /\ IF ListFails(E)
         THEN walk' = walk
         ELSE walk' = [cursor |-> next, begun |-> TRUE, complete |-> next = None, at |-> Here(E),
                       got |-> walk.got \cup items, rows |-> walk.rows + Cardinality(items),
                       listing |-> IF walk.begun THEN walk.listing
                                   ELSE Representatives(request.snapshot, E)]
  BY DEF FinishList, Capture
<1>2. UNCHANGED <<archive, version, scope>>
  BY <1>1, CapturesKeep DEF PlacedInv
<1> HIDE DEF E
<1>3. CASE ListFails(E)
  BY <1>1, <1>2, <1>3 DEF PlacedInv, PlaceFact
<1>4. CASE ~ListFails(E)
  <2>1. /\ request.version = version /\ request.snapshot = archive
        /\ request.cursor = walk.cursor
        /\ request.cursor = None => walk.got = {}
        /\ ~Stale(E)
    BY <1>1, <1>4 DEF ListFails, Disturbed, PlacedInv, IInv, RequestFact
  <2>2. Here(E) = [scope |-> scope, version |-> version, digest |-> E]
    BY <2>1 DEF Here
  <2>3. walk.got \subseteq Eligible(archive, E)
    <3>1. CASE walk.cursor = None
      BY <2>1, <3>1
    <3>2. CASE walk.cursor # None
      <4>1. /\ walk.cursor.scope = scope /\ walk.cursor.version = version
            /\ walk.cursor.digest = E
        <5>1. [scope |-> scope, version |-> version, digest |-> E]
                = [f \in {"scope", "version", "digest"} |-> walk.cursor[f]]
          BY <2>1, <2>2, <3>2 DEF Stale
        <5> QED BY <5>1
      <4>2. walk.at.scope = scope /\ walk.at.version = version /\ walk.at.digest = E
        BY <3>2, <4>1 DEF PlacedInv, PlaceFact
      <4> QED BY <4>2 DEF PlacedInv, PlaceFact
    <3> QED BY <3>1, <3>2
  <2>4. items \subseteq Eligible(archive, E)
    BY <2>1, ItemsAreEligible
  <2>5. next # None => next.scope = scope /\ next.version = version /\ next.digest = E
    BY <2>1 DEF NextCursor
  <2> HIDE DEF items, next
  <2>6. walk'.cursor = next /\ walk'.at = Here(E) /\ walk'.got = walk.got \cup items
    BY <1>1, <1>4
  <2>7. scope \in Nat /\ version \in Nat
    BY DEF PlacedInv, IInv, ArchiveFact
  <2>8. walk'.at.scope = scope /\ walk'.at.version = version /\ walk'.at.digest = E
    BY <2>2, <2>6
  <2>9. walk'.got \subseteq Eligible(archive, E)
    BY <2>3, <2>4, <2>6
  <2>10. (walk.cursor # None =>
            walk.at = [scope |-> walk.cursor.scope, version |-> walk.cursor.version,
                       digest |-> walk.cursor.digest])'
    BY <2>2, <2>5, <2>6
  <2> QED BY <1>2, <2>7, <2>8, <2>9, <2>10 DEF PlaceFact
<1> QED BY <1>3, <1>4

LEMMA PlacesAreKept == ASSUME PlacedInv, [Next]_vars PROVE PlaceFact'
<1>1. CASE UNCHANGED <<archive, version, scope, walk>>
  BY <1>1 DEF PlacedInv, PlaceFact
<1>2. ASSUME version' = version + 1, UNCHANGED <<scope, walk>> PROVE PlaceFact'
  <2>1. walk.got # {} /\ walk.at.scope = scope => walk.at.version # version + 1
    BY DEF PlacedInv, IInv, ArchiveFact, PlaceFact
  <2>2. walk.got # {} /\ walk.at.scope = scope => walk.at.version <= version + 1
    BY DEF PlacedInv, IInv, ArchiveFact, PlaceFact
  <2> QED BY <1>2, <2>1, <2>2 DEF PlacedInv, PlaceFact
<1>3. ASSUME Restart PROVE PlaceFact'
  <2>1. scope' = scope + 1 /\ walk' = walk /\ scope \in Nat
    BY <1>3 DEF Restart, PlacedInv, IInv, ArchiveFact
  <2>2. walk.got # {} => walk.at.scope # scope + 1 /\ walk.at.scope <= scope + 1
    BY <2>1 DEF PlacedInv, PlaceFact
  <2> QED BY <2>1, <2>2 DEF PlacedInv, PlaceFact
<1>4. ASSUME walk' = FreshWalk PROVE PlaceFact'
  BY <1>4 DEF PlaceFact, FreshWalk
<1> QED BY <1>1, <1>2, <1>3, <1>4, PagesKeepTheirPlace
    DEF Next, vars, SyncMessage, ChangeSource, Commit, SetEnabled, BeginFirstPage, BeginNextPage,
        BeginOpen, BeginReconcile, Begin, FinishOpen, FinishReconcile, Capture

LEMMA ListedOpen ==
  ASSUME PlacedInv, FinishOpen PROVE ListedItemsOpen'
<1> DEFINE E == Connected(CatalogNow)
           sel == request.message
           a == request.snapshot
<1>1. /\ request # None /\ a \in Archive /\ sel \in Messages
      /\ answer'.kind = "thread" /\ answer'.message = sel /\ answer'.at = Here(E)
      /\ answer'.status # "over_budget"
      /\ answer'.status = "not_found" => ~Disturbed /\ ~Selectable(a, E, sel)
      /\ answer'.status = "ok" => answer'.thread = Trimmed(a, Detail(a, sel))
  BY Opened DEF PlacedInv
<1>2. walk' = walk
  BY DEF FinishOpen
<1> HIDE DEF E
<1>3. ASSUME answer'.at = walk.at, sel \in walk.got PROVE answer'.status # "not_found"
  <2>1. SUFFICES ASSUME ~Disturbed PROVE Selectable(a, E, sel)
    BY <1>1
  <2>2. request.version = version /\ a = archive
    BY <1>1, <2>1 DEF Disturbed, PlacedInv, IInv, RequestFact
  <2>3. walk.at.scope = scope /\ walk.at.version = version /\ walk.at.digest = E
    BY <1>1, <1>3, <2>2 DEF Here
  <2>4. sel \in Eligible(archive, E)
    BY <1>3, <2>3 DEF PlacedInv, PlaceFact
  <2> QED BY <2>2, <2>4 DEF Eligible, Replyable, Selectable
<1>4. answer'.status = "ok" => sel \in DOMAIN answer'.thread.messages
  BY <1>1, ThreadsTell
<1> HIDE DEF sel, a
<1> QED BY <1>1, <1>2, <1>3, <1>4 DEF ListedItemsOpen

(* A message of a page opens as long as nothing changed since that page,   *)
(* and shows itself: the inbox projection and the thread projection agree  *)
(* on what a connected source lets the user see, and assertThreadDetail    *)
(* never refuses what the projection built, for every archive and budget.  *)
THEOREM ListedItemsAlwaysOpen == Spec => []ListedItemsOpen
<1>1. Init => PlaceFact /\ ListedItemsOpen
  BY DEF Init, PlaceFact, FreshWalk, ListedItemsOpen, NoAnswer
<1>2. IInv /\ PlaceFact /\ [Next]_vars => PlaceFact'
  BY PlacesAreKept DEF PlacedInv
<1>3. ASSUME IInv, PlaceFact, ListedItemsOpen, [Next]_vars PROVE ListedItemsOpen'
  <2>1. CASE answer' = NoAnswer
    BY <2>1 DEF ListedItemsOpen, NoAnswer
  <2>2. CASE FinishList
    <3>1. answer'.kind = "page"
      BY <2>2 DEF FinishList
    <3> QED BY <3>1 DEF ListedItemsOpen
  <2>3. CASE FinishOpen
    BY <1>3, <2>3, ListedOpen DEF PlacedInv
  <2>4. CASE UNCHANGED vars
    BY <1>3, <2>4 DEF vars, ListedItemsOpen
  <2> QED BY <1>3, <2>1, <2>2, <2>3, <2>4
      DEF Next, SyncMessage, ChangeSource, Commit, SetEnabled, BeginFirstPage,
          BeginNextPage, BeginOpen, BeginReconcile, Begin, FinishReconcile, Restart
<1> QED BY <1>1, <1>2, <1>3, Invariant, PTL DEF Spec
=============================================================================
