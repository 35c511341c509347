-------------------------- MODULE GatewayMainProofs --------------------------
(***************************************************************************)
(* The merged list of models and the life of the gateway process, for all  *)
(* sets of models, providers and clients and any number of attempts.       *)
(*                                                                         *)
(* First, about the list: it is made by sorting, filtering and appending,  *)
(* each of which keeps ids apart and loses nothing it should keep.         *)
(*                                                                         *)
(* Then, about the process: IInv says who holds the semaphore and whose    *)
(* load is under way, so what auto-load and chats do to the loader is what *)
(* ModelLoader allows.                                                     *)
(***************************************************************************)
EXTENDS GatewayMain, FiniteSetTheorems, TLAPS

-----------------------------------------------------------------------------
(* Sorting *)

\* Every finite set of numbers can be counted in ascending order: a number's place
\* is how many are below it.
LEMMA SortedExists ==
  ASSUME NEW S \in SUBSET Nat, IsFiniteSet(S)
  PROVE  \E s \in [1..Cardinality(S) -> S] :
             \A j, k \in DOMAIN s : j < k => s[j] < s[k]
<1> DEFINE n == Cardinality(S)
           Below(x) == {y \in S : y < x}
           place == [x \in S |-> Cardinality(Below(x)) + 1]
<1>0. n \in Nat
  BY FS_CardinalityType
<1>1. ASSUME NEW x \in S
      PROVE  IsFiniteSet(Below(x)) /\ Cardinality(Below(x)) \in Nat /\ place[x] \in 1..n
  <2>1. Below(x) \in SUBSET S /\ Below(x) # S
    OBVIOUS
  <2> HIDE DEF Below
  <2>2. IsFiniteSet(Below(x)) /\ Cardinality(Below(x)) \in Nat
    BY <2>1, FS_Subset, FS_CardinalityType
  <2>3. Cardinality(Below(x)) <= n /\ Cardinality(Below(x)) # n
    BY <2>1, FS_Subset
  <2> QED
    BY <2>2, <2>3, <1>0
<1>2. ASSUME NEW x \in S, NEW y \in S, x < y
      PROVE  place[x] < place[y]
  <2>1. Below(x) \in SUBSET Below(y) /\ x \in Below(y) /\ x \notin Below(x)
    <3>1. x \in Nat /\ y \in Nat /\ \A z \in S : z \in Nat
      OBVIOUS
    <3>2. \A z \in S : z < x => z < y
      BY <1>2, <3>1
    <3>3. ~(x < x)
      BY <3>1
    <3> QED
      BY <1>2, <3>2, <3>3
  <2>2. IsFiniteSet(Below(y)) /\ Cardinality(Below(x)) \in Nat /\ Cardinality(Below(y)) \in Nat
    BY <1>1
  <2>3. place[x] = Cardinality(Below(x)) + 1 /\ place[y] = Cardinality(Below(y)) + 1
    OBVIOUS
  <2> HIDE DEF Below, place
  <2>4. /\ Cardinality(Below(x)) <= Cardinality(Below(y))
        /\ Cardinality(Below(x)) # Cardinality(Below(y))
    BY <2>1, <2>2, FS_Subset
  <2> QED
    BY <2>2, <2>3, <2>4
<1> HIDE DEF Below
<1>3. place \in [S -> 1..n]
  BY <1>1
<1>4. \A x, y \in S : place[x] < place[y] => x < y
  <2> SUFFICES ASSUME NEW x \in S, NEW y \in S, place[x] < place[y]
               PROVE  x < y
    OBVIOUS
  <2>1. x \in Nat /\ y \in Nat /\ place[x] \in 1..n /\ place[y] \in 1..n
    BY <1>1
  <2> HIDE DEF place
  <2> QED
    BY <1>2, <2>1
<1> HIDE DEF place
<1>5. place \in Injection(S, 1..n)
  <2>1. \A x, y \in S : place[x] = place[y] => x = y
    <3> SUFFICES ASSUME NEW x \in S, NEW y \in S, place[x] = place[y], x # y
                 PROVE  FALSE
      OBVIOUS
    <3>1. x \in Nat /\ y \in Nat /\ place[x] \in 1..n
      BY <1>3
    <3>2. x < y \/ y < x
      BY <3>1
    <3> QED
      BY <1>2, <3>1, <3>2
  <2> QED
    BY <1>3, <2>1 DEF Injection, IsInjective
<1>6. place \in Surjection(S, 1..n)
  <2>1. IsFiniteSet(1..n) /\ Cardinality(1..n) = n
    BY <1>0, FS_Interval
  <2> QED
    BY <1>5, <2>1, FS_Injection
<1> DEFINE s == [k \in 1..n |-> CHOOSE x \in S : place[x] = k]
<1>7. ASSUME NEW k \in 1..n
      PROVE  s[k] \in S /\ place[s[k]] = k
  <2>1. \E x \in S : place[x] = k
    BY <1>6 DEF Surjection
  <2> QED
    BY <2>1
<1>8. s \in [1..n -> S] /\ DOMAIN s = 1..n
  BY <1>7
<1> HIDE DEF s
<1>9. \A j, k \in 1..n : j < k => s[j] < s[k]
  BY <1>4, <1>7
<1>10. \A j, k \in DOMAIN s : j < k => s[j] < s[k]
  BY <1>8, <1>9
<1> QED
  BY <1>8, <1>10

\* Sorted is that sequence, and has every element in one place.
LEMMA SortedOf ==
  ASSUME NEW S \in SUBSET Nat, IsFiniteSet(S)
  PROVE  /\ Cardinality(S) \in Nat
         /\ Sorted(S) \in [1..Cardinality(S) -> S]
         /\ \A j, k \in 1..Cardinality(S) : Sorted(S)[j] = Sorted(S)[k] => j = k
         /\ \A x \in S : \E k \in 1..Cardinality(S) : Sorted(S)[k] = x
<1> DEFINE n == Cardinality(S)
           s == Sorted(S)
<1>1. n \in Nat
  BY FS_CardinalityType
<1>2. s \in [1..n -> S] /\ \A j, k \in DOMAIN s : j < k => s[j] < s[k]
  BY SortedExists DEF Sorted
<1> HIDE DEF s, n
<1>3. ASSUME NEW j \in 1..n, NEW k \in 1..n, s[j] = s[k]
      PROVE  j = k
  <2>1. DOMAIN s = 1..n /\ s[j] \in S /\ s[k] \in S
    BY <1>2
  <2>2. s[j] \in Nat /\ s[k] \in Nat /\ j \in Nat /\ k \in Nat
    <3>1. \A x \in S : x \in Nat
      OBVIOUS
    <3>2. \A i \in 1..n : i \in Nat
      BY <1>1
    <3> QED
      BY <2>1, <3>1, <3>2
  <2>3. ~(j < k) /\ ~(k < j)
    BY <1>2, <1>3, <2>1, <2>2
  <2> QED
    BY <2>2, <2>3
<1>4. s \in Injection(1..n, S)
  BY <1>2, <1>3 DEF Injection, IsInjective
<1>5. s \in Surjection(1..n, S)
  <2>1. IsFiniteSet(1..n) /\ Cardinality(1..n) = n
    BY <1>1, FS_Interval
  <2> QED
    BY <1>4, <2>1, FS_Injection DEF n
<1> QED
  BY <1>1, <1>2, <1>3, <1>5 DEF s, n, Surjection

-----------------------------------------------------------------------------
(* The lists *)

EntryRecord == [id : Ids, category : {"local", "remote"}]

\* A list of entries for each of which p holds, no two of one id.
Distinct(list) == \A j, k \in 1..Len(list) : list[j].id = list[k].id => j = k

\* What a provider has, in order.
LEMMA OfProvider ==
  ASSUME CatalogueTypeOK, NEW provider \in {"local", "remote"}
  PROVE  /\ Entries(Of(provider), provider) \in Seq(EntryRecord)
         /\ Distinct(Entries(Of(provider), provider))
         /\ \A k \in 1..Len(Entries(Of(provider), provider)) :
                LET e == Entries(Of(provider), provider)[k]
                IN  e = Entry(e.id, provider) /\ models[e.id] = provider
         /\ \A id \in Ids : models[id] = provider =>
                \E k \in 1..Len(Entries(Of(provider), provider)) :
                    Entries(Of(provider), provider)[k] = Entry(id, provider)
<1> DEFINE S == {id \in Ids : models[id] = provider}
           n == Cardinality(S)
           ids == Of(provider)
           list == Entries(ids, provider)
<1>1. S \in SUBSET Nat /\ S \in SUBSET Ids /\ IsFiniteSet(S)
  <2>1. S \in SUBSET Ids
    OBVIOUS
  <2> HIDE DEF S
  <2> QED
    BY <2>1, CatalogueAssumption, FS_Subset
<1>2. /\ n \in Nat /\ ids \in [1..n -> S]
      /\ \A j, k \in 1..n : ids[j] = ids[k] => j = k
      /\ \A x \in S : \E k \in 1..n : ids[k] = x
  <2>1. ids = Sorted(S)
    BY DEF Of
  <2> HIDE DEF S, ids
  <2> QED
    BY <1>1, <2>1, SortedOf
<1> HIDE DEF n, ids
<1>3. list = [k \in 1..n |-> Entry(ids[k], provider)]
  BY <1>2 DEF Entries
<1> HIDE DEF list
<1>4. \A k \in 1..n : /\ list[k] = Entry(ids[k], provider) /\ list[k].id = ids[k]
                      /\ list[k] \in EntryRecord /\ models[ids[k]] = provider
  BY <1>2, <1>3 DEF Entry, EntryRecord
<1>5. list \in Seq(EntryRecord) /\ Len(list) = n
  <2>1. list \in [1..n -> EntryRecord]
    BY <1>3, <1>4
  <2> QED
    BY <1>2, <2>1
<1>6. Distinct(list)
  BY <1>2, <1>4, <1>5 DEF Distinct
<1> QED
  BY <1>2, <1>4, <1>5, <1>6 DEF ids, list

\* Two lists without an id in common, one after the other.
LEMMA Appended ==
  ASSUME NEW a \in Seq(EntryRecord), NEW b \in Seq(EntryRecord), Distinct(a), Distinct(b),
         \A j \in 1..Len(a), k \in 1..Len(b) : a[j].id # b[k].id
  PROVE  a \o b \in Seq(EntryRecord) /\ Distinct(a \o b)
<1> DEFINE m == Len(a)
           n == Len(b)
           c == a \o b
<1>1. m \in Nat /\ n \in Nat /\ c \in Seq(EntryRecord) /\ Len(c) = m + n
  OBVIOUS
<1>2. \A k \in 1..m : c[k] = a[k]
  OBVIOUS
<1>3. \A k \in 1..m + n : k > m => k - m \in 1..n /\ c[k] = b[k - m]
  OBVIOUS
<1>4. \A j \in 1..m, k \in 1..n : a[j].id # b[k].id
  OBVIOUS
<1>5. /\ \A j, k \in 1..m : a[j].id = a[k].id => j = k
      /\ \A j, k \in 1..n : b[j].id = b[k].id => j = k
  BY DEF Distinct
<1> HIDE DEF m, n, c
<1>6. ASSUME NEW j \in 1..m + n, NEW k \in 1..m + n, c[j].id = c[k].id
      PROVE  j = k
  <2>1. j \in Nat /\ k \in Nat
    BY <1>1
  <2>2. (j <= m => j \in 1..m) /\ (k <= m => k \in 1..m)
    BY <1>1
  <2>3. CASE j <= m /\ k <= m
    BY <1>2, <1>5, <1>6, <2>2, <2>3
  <2>4. CASE j <= m /\ k > m
    BY <1>2, <1>3, <1>4, <1>6, <2>2, <2>4
  <2>5. CASE j > m /\ k <= m
    BY <1>2, <1>3, <1>4, <1>6, <2>2, <2>5
  <2>6. CASE j > m /\ k > m
    <3>1. j - m = k - m
      BY <1>3, <1>5, <1>6, <2>6
    <3> QED
      BY <1>1, <2>1, <3>1
  <2> QED
    BY <1>1, <2>1, <2>3, <2>4, <2>5, <2>6
<1> QED
  BY <1>1, <1>6 DEF c, Distinct

\* What is in two lists, one after the other.
LEMMA AppendedHas ==
  ASSUME NEW a \in Seq(EntryRecord), NEW b \in Seq(EntryRecord), NEW e
  PROVE  (\E k \in 1..Len(a \o b) : (a \o b)[k] = e) <=>
             (\E k \in 1..Len(a) : a[k] = e) \/ (\E k \in 1..Len(b) : b[k] = e)
<1> DEFINE m == Len(a)
           n == Len(b)
           c == a \o b
<1>1. m \in Nat /\ n \in Nat /\ Len(c) = m + n
  OBVIOUS
<1>2. \A k \in 1..m : c[k] = a[k]
  OBVIOUS
<1>3. \A k \in 1..m + n : k > m => k - m \in 1..n /\ c[k] = b[k - m]
  OBVIOUS
<1>4. \A k \in 1..n : k + m \in 1..m + n /\ c[k + m] = b[k]
  OBVIOUS
<1> HIDE DEF m, n, c
<1>5. ASSUME NEW k \in 1..m + n, c[k] = e
      PROVE  (\E i \in 1..m : a[i] = e) \/ (\E i \in 1..n : b[i] = e)
  <2>1. k \in Nat /\ (k <= m => k \in 1..m)
    BY <1>1
  <2> QED
    BY <1>1, <1>2, <1>3, <1>5, <2>1
<1>6. ASSUME NEW k \in 1..m, a[k] = e
      PROVE  \E i \in 1..m + n : c[i] = e
  <2>1. k \in 1..m + n
    BY <1>1
  <2> QED
    BY <1>2, <1>6, <2>1
<1>7. ASSUME NEW k \in 1..n, b[k] = e
      PROVE  \E i \in 1..m + n : c[i] = e
  BY <1>4, <1>7
<1> QED
  BY <1>1, <1>5, <1>6, <1>7 DEF c, m, n

\* What the gateway lists: every model it has, once.
LEMMA ListHas ==
  ASSUME CatalogueTypeOK
  PROVE  /\ List \in Seq(EntryRecord) /\ Distinct(List)
         /\ \A e : (\E k \in 1..Len(List) : List[k] = e) <=>
                       \E id \in Ids : models[id] # "none" /\ e = Entry(id, models[id])
<1> DEFINE a == Entries(Of("local"), "local")
           b == Entries(Of("remote"), "remote")
<1>1. /\ a \in Seq(EntryRecord) /\ Distinct(a)
      /\ \A k \in 1..Len(a) : a[k] = Entry(a[k].id, "local") /\ models[a[k].id] = "local"
      /\ \A id \in Ids : models[id] = "local" => \E k \in 1..Len(a) : a[k] = Entry(id, "local")
  BY OfProvider
<1>2. /\ b \in Seq(EntryRecord) /\ Distinct(b)
      /\ \A k \in 1..Len(b) : b[k] = Entry(b[k].id, "remote") /\ models[b[k].id] = "remote"
      /\ \A id \in Ids : models[id] = "remote" => \E k \in 1..Len(b) : b[k] = Entry(id, "remote")
  BY OfProvider
<1>3. List = a \o b
  BY DEF List
<1> HIDE DEF a, b
<1>4. /\ \A k \in 1..Len(a) : a[k].id \in Ids
      /\ \A k \in 1..Len(b) : b[k].id \in Ids
  <2>1. \A k \in 1..Len(a) : a[k] \in EntryRecord
    BY <1>1
  <2>2. \A k \in 1..Len(b) : b[k] \in EntryRecord
    BY <1>2
  <2> QED
    BY <2>1, <2>2 DEF EntryRecord
<1>5. List \in Seq(EntryRecord) /\ Distinct(List)
  BY <1>1, <1>2, <1>3, Appended
<1>6. ASSUME NEW e
      PROVE  (\E k \in 1..Len(List) : List[k] = e) <=>
                 \E id \in Ids : models[id] # "none" /\ e = Entry(id, models[id])
  <2>1. (\E k \in 1..Len(List) : List[k] = e) <=>
            (\E k \in 1..Len(a) : a[k] = e) \/ (\E k \in 1..Len(b) : b[k] = e)
    BY <1>1, <1>2, <1>3, AppendedHas
  <2>2. (\E k \in 1..Len(a) : a[k] = e) <=>
            \E id \in Ids : models[id] = "local" /\ e = Entry(id, "local")
    BY <1>1, <1>4
  <2>3. (\E k \in 1..Len(b) : b[k] = e) <=>
            \E id \in Ids : models[id] = "remote" /\ e = Entry(id, "remote")
    BY <1>2, <1>4
  <2>4. \A id \in Ids : models[id] \in {"none", "local", "remote"}
    BY DEF CatalogueTypeOK
  <2> QED
    BY <2>1, <2>2, <2>3, <2>4
<1> QED
  BY <1>5, <1>6

\* What the agent-runner makes of it: the entries it does not know itself.
LEMMA FetchedHas ==
  ASSUME CatalogueTypeOK
  PROVE  /\ fetchLocalModels \in Seq(EntryRecord) /\ Distinct(fetchLocalModels)
         /\ \A e : (\E k \in 1..Len(fetchLocalModels) : fetchLocalModels[k] = e) <=>
                /\ \E id \in Ids : models[id] # "none" /\ e = Entry(id, models[id])
                /\ ~isInRemoteModels(e.id)
<1> DEFINE list == List
           S == {k \in DOMAIN list : ~isInRemoteModels(list[k].id)}
           n == Cardinality(S)
           kept == Sorted(S)
           f == fetchLocalModels
<1>1. f = [j \in DOMAIN kept |-> list[kept[j]]]
  BY DEF fetchLocalModels
<1>2. /\ list \in Seq(EntryRecord) /\ Distinct(list)
      /\ \A e : (\E k \in 1..Len(list) : list[k] = e) <=>
                    \E id \in Ids : models[id] # "none" /\ e = Entry(id, models[id])
  BY ListHas
<1> HIDE DEF f, list
<1>3. /\ Len(list) \in Nat
      /\ \A k : k \in S <=> k \in 1..Len(list) /\ ~isInRemoteModels(list[k].id)
  BY <1>2
<1>4. S \in SUBSET Nat /\ IsFiniteSet(S)
  <2>1. S \in SUBSET (1..Len(list)) /\ S \in SUBSET Nat
    BY <1>3
  <2>2. IsFiniteSet(1..Len(list))
    BY <1>3, FS_Interval
  <2> HIDE DEF S
  <2> QED
    BY <2>1, <2>2, FS_Subset
<1> HIDE DEF S
<1>5. /\ n \in Nat /\ kept \in [1..n -> S]
      /\ \A j, k \in 1..n : kept[j] = kept[k] => j = k
      /\ \A x \in S : \E k \in 1..n : kept[k] = x
  BY <1>4, SortedOf
<1> HIDE DEF n, kept
<1>6. \A j \in 1..n : /\ kept[j] \in 1..Len(list) /\ f[j] = list[kept[j]]
                      /\ f[j] \in EntryRecord /\ ~isInRemoteModels(f[j].id)
  BY <1>1, <1>2, <1>3, <1>5
<1>7. f \in Seq(EntryRecord) /\ Len(f) = n
  <2>1. f \in [1..n -> EntryRecord]
    BY <1>1, <1>5, <1>6
  <2> QED
    BY <1>5, <2>1
<1>8. Distinct(f)
  BY <1>2, <1>5, <1>6, <1>7 DEF Distinct
<1>9. ASSUME NEW e
      PROVE  (\E k \in 1..n : f[k] = e) <=>
                 /\ \E id \in Ids : models[id] # "none" /\ e = Entry(id, models[id])
                 /\ ~isInRemoteModels(e.id)
  <2>1. ASSUME NEW k \in 1..n, f[k] = e
        PROVE  (\E j \in 1..Len(list) : list[j] = e) /\ ~isInRemoteModels(e.id)
    BY <1>6, <2>1
  <2>2. ASSUME NEW j \in 1..Len(list), list[j] = e, ~isInRemoteModels(e.id)
        PROVE  \E k \in 1..n : f[k] = e
    <3>1. j \in S
      BY <1>3, <2>2
    <3> QED
      BY <1>5, <1>6, <2>2, <3>1
  <2> QED
    BY <1>2, <2>1, <2>2
<1> QED
  BY <1>7, <1>8, <1>9 DEF f

-----------------------------------------------------------------------------
(* The merged list *)

\* Whatever is registered, the merged list has every id once, and every model.
LEMMA MergedList ==
  ASSUME CatalogueTypeOK
  PROVE  NoIdTwice /\ EveryModelListed
<1> DEFINE own == Entries(RemoteModels, "remote")
           f == fetchLocalModels
           n == Len(RemoteModels)
<1>1. /\ f \in Seq(EntryRecord) /\ Distinct(f)
      /\ \A e : (\E k \in 1..Len(f) : f[k] = e) <=>
             /\ \E id \in Ids : models[id] # "none" /\ e = Entry(id, models[id])
             /\ ~isInRemoteModels(e.id)
  BY FetchedHas
<1>2. /\ n \in Nat /\ DOMAIN RemoteModels = 1..n
      /\ \A k \in 1..n : RemoteModels[k] \in Ids
      /\ \A j, k \in 1..n : RemoteModels[j] = RemoteModels[k] => j = k
  BY CatalogueAssumption DEF IsInjective
<1> HIDE DEF f
<1>3. own = [k \in 1..n |-> Entry(RemoteModels[k], "remote")]
  BY <1>2 DEF Entries
<1> HIDE DEF own, n
<1>4. \A k \in 1..n : /\ own[k] = Entry(RemoteModels[k], "remote")
                      /\ own[k].id = RemoteModels[k] /\ own[k] \in EntryRecord
  BY <1>2, <1>3 DEF Entry, EntryRecord
<1>5. own \in Seq(EntryRecord) /\ Len(own) = n
  <2>1. own \in [1..n -> EntryRecord]
    BY <1>3, <1>4
  <2> QED
    BY <1>2, <2>1
<1>6. Distinct(own)
  BY <1>2, <1>4, <1>5 DEF Distinct
<1>7. \A id : isInRemoteModels(id) <=> \E k \in 1..n : own[k].id = id
  BY <1>2, <1>4 DEF isInRemoteModels
<1>8. \A j \in 1..Len(own), k \in 1..Len(f) : own[j].id # f[k].id
  BY <1>1, <1>5, <1>7
<1>9. Listed = own \o f
  BY DEF Listed, FetchModels, own, f
<1>10. Listed \in Seq(EntryRecord) /\ Distinct(Listed) /\ Len(Listed) = n + Len(f)
  <2>1. Listed \in Seq(EntryRecord) /\ Distinct(Listed)
    BY <1>1, <1>5, <1>6, <1>8, <1>9, Appended
  <2>2. Len(Listed) = Len(own) + Len(f)
    <3>1. \A a, b \in Seq(EntryRecord) : Len(a \o b) = Len(a) + Len(b)
      OBVIOUS
    <3> QED
      BY <1>1, <1>5, <1>9, <3>1
  <2> QED
    BY <1>5, <2>1, <2>2
<1>11. NoIdTwice
  <2>1. DOMAIN Listed = 1..Len(Listed)
    BY <1>10
  <2> QED
    BY <1>10, <2>1 DEF NoIdTwice, Distinct
<1>12. FetchModels.Total = Len(Listed)
  BY <1>10 DEF FetchModels, n, f
<1> DEFINE mine == {Entry(RemoteModels[k], "remote") : k \in DOMAIN RemoteModels}
           registered == {Entry(id, models[id]) : id \in {i \in Ids : models[i] # "none"}}
<1>13. ASSUME NEW e
       PROVE  e \in ToSet(Listed) <=>
                  e \in mine \/ (e \in registered /\ \A o \in mine : o.id # e.id)
  <2>1. e \in ToSet(Listed) <=> \E k \in 1..Len(Listed) : Listed[k] = e
    BY <1>10 DEF ToSet
  <2>2. (\E k \in 1..Len(Listed) : Listed[k] = e) <=>
            (\E k \in 1..n : own[k] = e) \/ (\E k \in 1..Len(f) : f[k] = e)
    BY <1>1, <1>5, <1>9, AppendedHas
  <2>3. (\E k \in 1..n : own[k] = e) <=> e \in mine
    BY <1>2, <1>4
  <2>4. e \in registered <=> \E id \in Ids : models[id] # "none" /\ e = Entry(id, models[id])
    OBVIOUS
  <2>5. isInRemoteModels(e.id) <=> \E o \in mine : o.id = e.id
    <3>1. \A o : o \in mine <=> \E k \in 1..n : own[k] = o
      BY <1>2, <1>4
    <3> QED
      BY <1>7, <3>1
  <2> HIDE DEF mine, registered
  <2> QED
    BY <1>1, <2>1, <2>2, <2>3, <2>4, <2>5
<1>14. ToSet(Listed) = mine \cup {m \in registered : \A o \in mine : o.id # m.id}
  <2> HIDE DEF mine, registered
  <2> QED
    BY <1>13
<1> QED
  BY <1>11, <1>12, <1>14 DEF EveryModelListed
-----------------------------------------------------------------------------
(* The process: the invariant *)

USE MainAssumption

\* The auto-load has an attempt left whenever it is in one, and each chat a model.
Placed ==
    /\ auto.pc \in {"sleep", "check", "acquire", "begin", "load"} =>
           auto.tries < Attempts /\ Default # NoModel
    /\ \A c \in Clients : chat[c].pc # "idle" => chat[c].model \in Ids

\* Whoever is past the semaphore has it, and a load that is under way is the
\* holder's, who waits for it.
HolderInv ==
    /\ auto.pc \in {"begin", "load"} => sem = AutoLoader
    /\ \A c \in Clients : chat[c].pc \in {"recheck", "load"} => sem = c
    /\ loading # NoModel =>
           \/ sem = AutoLoader /\ auto.pc = "load" /\ loading = Default
           \/ sem \in Clients /\ chat[sem].pc = "load" /\ loading = chat[sem].model

\* A remote model is never loaded, the default model neither.
LocalOnly ==
    /\ {loading, current, active} \subseteq {id \in Ids : models[id] = "local"} \cup {NoModel}
    /\ auto.pc \in {"acquire", "begin", "load"} => models[Default] = "local"
    /\ \A c \in Clients : chat[c].pc # "idle" => models[chat[c].model] = "local"

\* Nothing is loaded before the models are registered.
BootInv ==
    server = "booting" =>
        /\ loading = NoModel /\ current = NoModel /\ active = NoModel
        /\ sem = Nobody /\ auto = [pc |-> "off", tries |-> 0]
        /\ \A c \in Clients : chat[c].pc = "idle"

\* What ModelLoader promises.
LoaderPromise == Loader!CurrentIsActive /\ Loader!LoadingIsFiled

IInv == TypeOK /\ Placed /\ HolderInv /\ LocalOnly /\ BootInv /\ LoaderPromise

-----------------------------------------------------------------------------
(* Steps, one thing at a time *)

\* The abstract loader's statuses are those of TypeOK.
LoaderType ==
    /\ status \in [Ids -> {"unloaded", "loading", "ready", "error"}]
    /\ loading \in Ids \cup {NoModel} /\ active \in Ids \cup {NoModel}
    /\ current \in Ids \cup {NoModel}

AutoRecord ==
    [pc : {"off", "sleep", "check", "acquire", "begin", "load", "loaded", "failed"},
     tries : 0..Attempts]

ChatRecord ==
    [pc : {"idle", "acquire", "recheck", "load", "proxy"}, model : Ids \cup {NoModel}]

\* TypeOK in these words.
LEMMA TypeParts ==
  TypeOK <=> /\ CatalogueTypeOK /\ LoaderType
             /\ sem \in Clients \cup {AutoLoader, Nobody}
             /\ auto \in AutoRecord /\ (auto.pc = "sleep" => auto.tries < Attempts)
             /\ chat \in [Clients -> ChatRecord]
             /\ server \in {"booting", "starting", "serving", "closed", "exited"}
             /\ signalled \in BOOLEAN /\ grace \in BOOLEAN
  BY DEF TypeOK, LoaderType, AutoRecord, ChatRecord

\* The auto-load moves on within an attempt.
LEMMA AutoGotoEffect ==
  ASSUME auto \in AutoRecord, NEW from,
         NEW to \in {"check", "acquire", "begin", "load", "loaded"}, AutoGoto(from, to)
  PROVE  /\ auto.pc = from /\ auto' \in AutoRecord
         /\ auto'.pc = to /\ auto'.tries = auto.tries
  BY DEF AutoRecord, AutoGoto

\* An attempt is over: another one, or none.
LEMMA RetryEffect ==
  ASSUME auto \in AutoRecord, auto.tries < Attempts, NEW from, Retry(from)
  PROVE  /\ auto.pc = from /\ auto' \in AutoRecord
         /\ auto'.pc \in {"sleep", "failed"}
         /\ auto'.pc = "sleep" => auto'.tries < Attempts
<1>1. auto.tries \in Nat /\ auto.tries + 1 \in 0..Attempts
  BY DEF AutoRecord
<1>2. auto' = [pc |-> IF auto.tries + 1 = Attempts THEN "failed" ELSE "sleep",
               tries |-> auto.tries + 1]
  BY DEF Retry
<1> QED
  BY <1>1, <1>2 DEF Retry, AutoRecord

\* A chat moves on, and no other one.
LEMMA ChatGotoEffect ==
  ASSUME chat \in [Clients -> ChatRecord], NEW c \in Clients, NEW from,
         NEW to \in {"idle", "recheck", "load", "proxy"}, ChatGoto(c, from, to)
  PROVE  /\ chat' \in [Clients -> ChatRecord] /\ chat[c].pc = from
         /\ chat'[c].pc = to /\ chat'[c].model = chat[c].model
         /\ \A d \in Clients \ {c} : chat'[d] = chat[d]
<1>1. chat[c] \in ChatRecord
  OBVIOUS
<1>2. /\ [chat[c] EXCEPT !.pc = to] \in ChatRecord
      /\ [chat[c] EXCEPT !.pc = to].pc = to /\ [chat[c] EXCEPT !.pc = to].model = chat[c].model
  BY <1>1 DEF ChatRecord
<1>3. chat' = [chat EXCEPT ![c] = [chat[c] EXCEPT !.pc = to]] /\ chat[c].pc = from
  BY DEF ChatGoto
<1> QED
  BY <1>2, <1>3

\* What every step of the loader, and every other one, leaves as it should be.
LoaderInv == LoaderType /\ LoaderPromise

\* Most steps leave the loader alone.
LEMMA LoaderIdle ==
  ASSUME LoaderInv, UNCHANGED loaderVars
  PROVE  LoaderInv'
  BY DEF LoaderInv, LoaderType, LoaderPromise, loaderVars, Loader!CurrentIsActive,
         Loader!LoadingIsFiled

\* A load that begins is filed.
LEMMA BeginLoadEffect ==
  ASSUME LoaderInv, NEW m \in Ids, Loader!BeginLoad(m)
  PROVE  LoaderInv' /\ loading' = m /\ UNCHANGED <<active, current>>
  BY DEF LoaderInv, LoaderType, LoaderPromise, Loader!BeginLoad, Loader!CurrentIsActive,
         Loader!LoadingIsFiled

\* Its other steps concern the load that is under way.
LEMMA LoadGoesOnEffect ==
  ASSUME LoaderInv, Loader!Launch \/ Loader!Succeed \/ Loader!Fail \/ Loader!GiveUp
  PROVE  /\ LoaderInv' /\ loading # NoModel /\ loading' \in {loading, NoModel}
         /\ current' \in {current, loading, NoModel} /\ active' \in {active, loading, NoModel}
  BY DEF LoaderInv, LoaderType, LoaderPromise, Loader!Launch, Loader!Succeed, Loader!Fail,
         Loader!GiveUp,
         Loader!CurrentIsActive, Loader!LoadingIsFiled

-----------------------------------------------------------------------------
(* The steps *)

\* A process that starts has registered and loaded nothing.
LEMMA InitIInv == Init => IInv
<1> SUFFICES ASSUME Init PROVE IInv
  OBVIOUS
<1>1. TypeOK
  <2>1. Len(Providers) \in Nat
    BY CatalogueAssumption
  <2>2. 0 \in 0..Attempts /\ 0 \in 0..Len(Providers) + 1
    BY <2>1
  <2> QED
    BY <2>2 DEF Init, CatalogueInit, TypeOK, CatalogueTypeOK
<1>2. Placed /\ HolderInv /\ LocalOnly /\ BootInv
  BY DEF Init, Placed, HolderInv, LocalOnly, BootInv
<1>3. LoaderPromise
  BY DEF Init, LoaderPromise, Loader!CurrentIsActive, Loader!LoadingIsFiled
<1> QED
  BY <1>1, <1>2, <1>3 DEF IInv

\* The models are registered while nothing else happens.
LEMMA RegisterInv ==
  ASSUME IInv, Register
  PROVE  IInv'
<1>1. /\ server = "booting" /\ loading = NoModel /\ current = NoModel /\ active = NoModel
      /\ sem = Nobody /\ auto = [pc |-> "off", tries |-> 0]
      /\ \A c \in Clients : chat[c].pc = "idle"
      /\ UNCHANGED <<active, loading, current, sem, auto, chat, server, signalled, grace>>
  BY DEF Register, IInv, BootInv
<1>2. CatalogueTypeOK'
  <2>1. CASE Scan
    <3>1. PICK found \in SUBSET Ids :
              models' = [id \in Ids |-> IF id \in found THEN "local" ELSE "none"]
      BY <2>1 DEF Scan
    <3>2. models' \in [Ids -> {"none", "local", "remote"}]
      BY <3>1
    <3>3. Len(Providers) \in Nat
      BY CatalogueAssumption
    <3>4. 1 \in 0..Len(Providers) + 1
      BY <3>3
    <3> QED
      BY <2>1, <3>2, <3>4 DEF Scan, CatalogueTypeOK
  <2>2. CASE registerRemoteModels
    <3>1. models \in [Ids -> {"none", "local", "remote"}]
      BY DEF IInv, TypeOK, CatalogueTypeOK
    <3>2. models' \in [Ids -> {"none", "local", "remote"}]
      BY <2>2, <3>1 DEF registerRemoteModels, AddRemoteModels
    <3>3. Len(Providers) \in Nat /\ DOMAIN Providers = 1..Len(Providers)
      BY CatalogueAssumption
    <3>4. next + 1 \in 0..Len(Providers) + 1
      BY <2>2, <3>3 DEF registerRemoteModels
    <3> QED
      BY <2>2, <3>2, <3>4 DEF registerRemoteModels, CatalogueTypeOK
  <2> QED
    BY <2>1, <2>2 DEF Register
<1>3. status' = [id \in Ids |-> IF models'[id] = "remote" THEN "ready" ELSE "unloaded"]
  BY DEF Register
<1>4. TypeOK'
  BY <1>1, <1>2, <1>3 DEF IInv, TypeOK
<1>5. Placed' /\ HolderInv' /\ LocalOnly' /\ BootInv'
  BY <1>1 DEF Placed, HolderInv, LocalOnly, BootInv
<1>6. LoaderPromise'
  BY <1>1, <1>3 DEF LoaderPromise, Loader!CurrentIsActive, Loader!LoadingIsFiled
<1> QED
  BY <1>4, <1>5, <1>6 DEF IInv

\* The auto-load.
LEMMA AutoInv ==
  ASSUME IInv, AutoStep
  PROVE  IInv'
<1> USE DEF IInv
<1>0. /\ auto \in AutoRecord /\ LoaderInv /\ server # "booting"
      /\ UNCHANGED <<catalogueVars, chat, server, signalled, grace>>
      /\ auto.pc \in {"sleep", "check", "acquire", "begin", "load"}
      /\ auto.tries < Attempts /\ Default \in Ids
  <2>1. auto.pc \in {"sleep", "check", "acquire", "begin", "load"}
    BY DEF AutoStep, AutoPost, AutoPostFails, AutoCheck, AutoTryAcquire, AutoBegin,
           AutoAnswered, AutoGoto, Retry
  <2> QED
    BY <2>1, TypeParts DEF AutoStep, AutoPost, AutoPostFails, AutoCheck, AutoTryAcquire,
           AutoBegin, AutoAnswered, LoaderInv, BootInv, Placed
<1>1. /\ auto' \in AutoRecord /\ (auto'.pc = "sleep" => auto'.tries < Attempts)
      /\ auto'.pc \in {"check", "acquire", "begin", "load"} => auto'.tries = auto.tries
  BY <1>0, AutoGotoEffect, RetryEffect
     DEF AutoStep, AutoPost, AutoPostFails, AutoCheck, AutoTryAcquire, AutoBegin, AutoAnswered
<1>2. Placed'
  BY <1>0, <1>1 DEF Placed
<1>3. /\ auto'.pc \in {"acquire", "begin", "load"} => models[Default] = "local"
      /\ \/ auto'.pc \in {"sleep", "check", "acquire", "failed", "loaded"}
            /\ UNCHANGED <<loaderVars>>
            /\ \/ sem' = sem /\ auto.pc \in {"sleep", "check", "acquire"}
               \/ sem' = Nobody /\ auto.pc = "load" /\ loading = NoModel
         \/ /\ auto.pc = "acquire" /\ auto'.pc = "begin" /\ sem = Nobody /\ sem' = AutoLoader
            /\ UNCHANGED <<loaderVars>>
         \/ /\ auto.pc = "begin" /\ auto'.pc = "load" /\ sem' = sem
            /\ Loader!BeginLoad(Default)
  BY <1>0, AutoGotoEffect, RetryEffect
     DEF AutoStep, AutoPost, AutoPostFails, AutoCheck, AutoTryAcquire, AutoBegin, AutoAnswered,
         LocalOnly
<1>4. LoaderInv' /\ UNCHANGED <<active, current>>
      /\ (loading' = loading \/ (auto'.pc = "load" /\ loading' = Default))
  <2>1. CASE UNCHANGED loaderVars
    <3>1. LoaderInv'
      BY <1>0, <2>1, LoaderIdle
    <3> QED
      BY <2>1, <3>1 DEF loaderVars
  <2>2. CASE auto'.pc = "load" /\ Loader!BeginLoad(Default)
    BY <1>0, <2>2, BeginLoadEffect
  <2> QED
    BY <1>3, <2>1, <2>2
<1>5. HolderInv'
  <2>1. auto'.pc \in {"begin", "load"} => sem' = AutoLoader
    BY <1>3 DEF HolderInv
  <2>2. \A c \in Clients : chat'[c].pc \in {"recheck", "load"} => sem' = c
    BY <1>0, <1>3 DEF HolderInv
  <2>3. ASSUME loading' # NoModel
        PROVE  \/ sem' = AutoLoader /\ auto'.pc = "load" /\ loading' = Default
               \/ sem' \in Clients /\ chat'[sem'].pc = "load" /\ loading' = chat'[sem'].model
    BY <1>0, <1>3, <1>4, <2>1, <2>3 DEF HolderInv, loaderVars
  <2> QED
    BY <2>1, <2>2, <2>3 DEF HolderInv
<1>6. LocalOnly'
  BY <1>0, <1>3, <1>4 DEF LocalOnly, catalogueVars
<1>7. TypeOK'
  <2>1. sem' \in Clients \cup {AutoLoader, Nobody}
    BY <1>3, TypeParts
  <2>2. CatalogueTypeOK'
    BY <1>0, TypeParts DEF CatalogueTypeOK, catalogueVars
  <2>3. /\ chat' \in [Clients -> ChatRecord]
        /\ server' \in {"booting", "starting", "serving", "closed", "exited"}
        /\ signalled' \in BOOLEAN /\ grace' \in BOOLEAN
    BY <1>0, TypeParts
  <2>4. CatalogueTypeOK' /\ LoaderType'
    BY <1>4, <2>2 DEF LoaderInv
  <2> QED
    BY <1>1, <2>1, <2>3, <2>4 DEF TypeOK, LoaderType, AutoRecord, ChatRecord
<1> QED
  BY <1>0, <1>2, <1>4, <1>5, <1>6, <1>7 DEF BootInv, LoaderInv

\* The chats.
LEMMA ChatInv ==
  ASSUME IInv, NEW c \in Clients, ChatStep(c)
  PROVE  IInv'
<1> USE DEF IInv
<1>0. /\ chat \in [Clients -> ChatRecord] /\ LoaderInv /\ server # "booting"
      /\ UNCHANGED <<catalogueVars, auto, server, signalled, grace>>
      /\ chat[c].model \in Ids /\ models[chat[c].model] = "local"
  <2>1. chat[c].pc \in {"acquire", "recheck", "load"} /\ server # "exited"
    BY DEF ChatStep, ChatAcquire, ChatRecheck, ChatLoaded, ChatGoto
  <2>2. chat \in [Clients -> ChatRecord] /\ LoaderInv
    BY TypeParts DEF LoaderInv
  <2>3. server # "booting" /\ chat[c].model \in Ids /\ models[chat[c].model] = "local"
    BY <2>1 DEF BootInv, Placed, LocalOnly
  <2> QED
    BY <2>2, <2>3 DEF ChatStep, ChatAcquire, ChatRecheck, ChatLoaded
<1>1. /\ chat' \in [Clients -> ChatRecord] /\ chat'[c].model = chat[c].model
      /\ \A d \in Clients \ {c} : chat'[d] = chat[d]
      /\ \/ /\ chat[c].pc = "acquire" /\ chat'[c].pc = "recheck" /\ sem = Nobody /\ sem' = c
            /\ UNCHANGED loaderVars
         \/ /\ chat[c].pc = "recheck" /\ chat'[c].pc = "proxy" /\ sem' = Nobody
            /\ UNCHANGED loaderVars
         \/ /\ chat[c].pc = "recheck" /\ chat'[c].pc = "load" /\ sem' = sem
            /\ Loader!BeginLoad(chat[c].model)
         \/ /\ chat[c].pc = "load" /\ chat'[c].pc \in {"proxy", "idle"} /\ sem' = Nobody
            /\ UNCHANGED loaderVars /\ loading = NoModel
  BY <1>0, ChatGotoEffect DEF ChatStep, ChatAcquire, ChatRecheck, ChatLoaded
<1>2. /\ LoaderInv' /\ UNCHANGED <<active, current>>
      /\ (loading' = loading \/ (chat'[c].pc = "load" /\ loading' = chat[c].model))
  <2>1. CASE UNCHANGED loaderVars
    <3>1. LoaderInv'
      BY <1>0, <2>1, LoaderIdle
    <3> QED
      BY <2>1, <3>1 DEF loaderVars
  <2>2. CASE chat'[c].pc = "load" /\ Loader!BeginLoad(chat[c].model)
    BY <1>0, <2>2, BeginLoadEffect
  <2> QED
    BY <1>1, <2>1, <2>2
<1>3. Placed'
  BY <1>0, <1>1 DEF Placed
<1>4. HolderInv'
  <2>1. auto'.pc \in {"begin", "load"} => sem' = AutoLoader
    BY <1>0, <1>1 DEF HolderInv
  <2>2. \A d \in Clients : chat'[d].pc \in {"recheck", "load"} => sem' = d
    BY <1>0, <1>1 DEF HolderInv
  <2>3. ASSUME loading' # NoModel
        PROVE  \/ sem' = AutoLoader /\ auto'.pc = "load" /\ loading' = Default
               \/ sem' \in Clients /\ chat'[sem'].pc = "load" /\ loading' = chat'[sem'].model
    BY <1>0, <1>1, <1>2, <2>2, <2>3 DEF HolderInv, loaderVars
  <2> QED
    BY <2>1, <2>2, <2>3 DEF HolderInv
<1>5. LocalOnly'
  BY <1>0, <1>1, <1>2 DEF LocalOnly, catalogueVars
<1>6. TypeOK'
  <2>1. sem' \in Clients \cup {AutoLoader, Nobody}
    BY <1>1, TypeParts
  <2>2. CatalogueTypeOK' /\ LoaderType'
    BY <1>0, <1>2, TypeParts DEF CatalogueTypeOK, catalogueVars, LoaderInv
  <2>3. /\ auto' \in AutoRecord /\ (auto'.pc = "sleep" => auto'.tries < Attempts)
        /\ server' \in {"booting", "starting", "serving", "closed", "exited"}
        /\ signalled' \in BOOLEAN /\ grace' \in BOOLEAN
    BY <1>0, TypeParts
  <2> QED
    BY <1>1, <2>1, <2>2, <2>3 DEF TypeOK, LoaderType, AutoRecord, ChatRecord
<1> QED
  BY <1>0, <1>2, <1>3, <1>4, <1>5, <1>6 DEF BootInv, LoaderInv

\* A chat that arrives, or ends.
LEMMA ClientInv ==
  ASSUME IInv, NEW c \in Clients,
         ChatEnds(c) \/ \E m \in Ids : ChatArrives(c, m)
  PROVE  IInv'
<1> USE DEF IInv
<1>0. /\ chat \in [Clients -> ChatRecord] /\ LoaderInv /\ chat[c] \in ChatRecord
      /\ UNCHANGED <<catalogueVars, loaderVars, sem, auto, server, signalled, grace>>
  BY TypeParts DEF LoaderInv, ChatEnds, ChatArrives
<1>1. /\ chat' \in [Clients -> ChatRecord] /\ \A d \in Clients \ {c} : chat'[d] = chat[d]
      /\ chat[c].pc \in {"idle", "proxy"} /\ chat'[c].pc \in {"idle", "proxy", "acquire"}
      /\ \/ chat'[c].pc = "idle"
         \/ /\ chat'[c].model \in Ids /\ models[chat'[c].model] = "local"
            /\ server = "serving"
  <2>1. CASE ChatEnds(c)
    BY <1>0, <2>1, ChatGotoEffect DEF ChatEnds
  <2>2. ASSUME NEW m \in Ids, ChatArrives(c, m)
        PROVE  /\ chat' \in [Clients -> ChatRecord]
               /\ \A d \in Clients \ {c} : chat'[d] = chat[d]
               /\ chat[c].pc = "idle" /\ chat'[c].pc \in {"proxy", "acquire"}
               /\ chat'[c].model = m /\ models[m] = "local" /\ server = "serving"
    BY <1>0, <2>2 DEF ChatArrives, ChatRecord
  <2> QED
    BY <2>1, <2>2
<1>2. LoaderInv'
  BY <1>0, LoaderIdle
<1>3. Placed' /\ HolderInv' /\ LocalOnly'
  BY <1>0, <1>1 DEF Placed, HolderInv, LocalOnly, catalogueVars, loaderVars
<1>4. BootInv'
  BY <1>0, <1>1 DEF BootInv, loaderVars
<1>5. TypeOK'
  <2>1. CatalogueTypeOK' /\ LoaderType'
    BY <1>0, <1>2, TypeParts DEF CatalogueTypeOK, catalogueVars, LoaderInv
  <2> QED
    BY <1>0, <1>1, <2>1, TypeParts DEF TypeOK, LoaderType, AutoRecord, ChatRecord
<1> QED
  BY <1>2, <1>3, <1>4, <1>5 DEF LoaderInv

\* The load that is under way.
LEMMA LoadInv ==
  ASSUME IInv, LoaderStep
  PROVE  IInv'
<1> USE DEF IInv
<1>0. /\ UNCHANGED <<catalogueVars, sem, auto, chat, server, signalled, grace>>
      /\ LoaderInv' /\ loading # NoModel /\ loading' \in {loading, NoModel}
      /\ current' \in {current, loading, NoModel} /\ active' \in {active, loading, NoModel}
  BY TypeParts, LoadGoesOnEffect DEF LoaderStep, LoaderInv
<1>1. Placed' /\ HolderInv' /\ LocalOnly' /\ BootInv'
  BY <1>0 DEF Placed, HolderInv, LocalOnly, BootInv, catalogueVars
<1>2. TypeOK'
  BY <1>0, TypeParts DEF TypeOK, CatalogueTypeOK, catalogueVars, LoaderInv, LoaderType
<1> QED
  BY <1>0, <1>1, <1>2 DEF LoaderInv

\* The server and the process.
LEMMA ServerInv ==
  ASSUME IInv,
         Ready \/ Listen \/ ListenFails \/ Signal \/ Shutdown \/ GraceOver \/ MainReturns
  PROVE  IInv'
<1> USE DEF IInv
<1>0. /\ UNCHANGED <<catalogueVars, loaderVars, sem, chat>>
      /\ server' \in {"starting", "serving", "closed", "exited"} \/ server' = server
      /\ signalled' \in BOOLEAN /\ grace' \in BOOLEAN
  BY TypeParts DEF Ready, Listen, ListenFails, Signal, Shutdown, GraceOver, MainReturns
<1>1. \/ auto' = auto
      \/ /\ auto.pc = "off" /\ auto' = [auto EXCEPT !.pc = "sleep"] /\ Default # NoModel
         /\ auto.tries = 0 /\ server' = "starting"
  BY DEF Ready, Listen, ListenFails, Signal, Shutdown, GraceOver, MainReturns, BootInv
<1>2. LoaderInv /\ LoaderInv'
  <2>1. LoaderInv
    BY TypeParts DEF LoaderInv
  <2> QED
    BY <1>0, <2>1, LoaderIdle
<1>3. auto' \in AutoRecord /\ (auto'.pc = "sleep" => auto'.tries < Attempts)
  <2>1. auto \in AutoRecord /\ 0 < Attempts
    BY TypeParts
  <2>2. auto' = auto \/ auto' = [pc |-> "sleep", tries |-> 0]
    BY <1>1, <2>1 DEF AutoRecord
  <2>3. auto' = auto => (auto'.pc = "sleep" => auto'.tries < Attempts)
    BY TypeParts
  <2> QED
    BY <2>1, <2>2, <2>3 DEF AutoRecord
<1>4. Placed'
  BY <1>0, <1>1, <1>3, TypeParts DEF Placed, AutoRecord
<1>5. HolderInv' /\ LocalOnly'
  BY <1>0, <1>1, TypeParts DEF HolderInv, LocalOnly, AutoRecord, catalogueVars, loaderVars
<1>6. BootInv'
  BY <1>0, <1>1 DEF BootInv, loaderVars
<1>7. TypeOK'
  <2>1. CatalogueTypeOK' /\ LoaderType'
    BY <1>0, <1>2, TypeParts DEF CatalogueTypeOK, catalogueVars, LoaderInv
  <2> QED
    BY <1>0, <1>3, <2>1, TypeParts DEF TypeOK, LoaderType, AutoRecord, ChatRecord
<1> QED
  BY <1>2, <1>4, <1>5, <1>6, <1>7 DEF LoaderInv

\* Every step keeps the invariant.
LEMMA NextIInv == IInv /\ [Next]_vars => IInv'
<1> SUFFICES ASSUME IInv, [Next]_vars PROVE IInv'
  OBVIOUS
<1>1. CASE UNCHANGED vars
  BY <1>1 DEF vars, catalogueVars, loaderVars, IInv, TypeOK, CatalogueTypeOK, Placed, HolderInv,
     LocalOnly, BootInv, LoaderPromise, Loader!CurrentIsActive, Loader!LoadingIsFiled
<1>2. ASSUME NEW c \in Clients,
             \/ ChatStep(c)
             \/ server # "exited" /\ ChatEnds(c)
             \/ \E m \in Ids : ChatArrives(c, m)
      PROVE  IInv'
  BY <1>2, ChatInv, ClientInv
<1> QED
  BY <1>1, <1>2, RegisterInv, AutoInv, LoadInv, ServerInv DEF Next

-----------------------------------------------------------------------------
(* The theorems *)

\* The invariant holds always (main.go): whoever runs a load has the semaphore,
\* only local models are loaded, and no attempt begins after the last one.
THEOREM Invariance == Spec => []IInv
<1> QED
  BY InitIInv, NextIInv, PTL DEF Spec

\* The process and the registry are well typed, and the auto-load never sleeps
\* before an attempt it does not have: for any number of attempts.
THEOREM TypeCorrect == Spec => []TypeOK
<1>1. IInv => TypeOK
  BY DEF IInv
<1> QED
  BY <1>1, Invariance, PTL

\* The abstract loader's promises hold of the process: between loads the
\* process in the pointer is one of the active model, which is filed as ready,
\* and no model but the one being loaded is filed as loading (handlers.go:467).
THEOREM KeepsPromise == Spec => []LoaderPromise
<1>1. IInv => LoaderPromise
  BY DEF IInv
<1> QED
  BY <1>1, Invariance, PTL

\* One load at a time: never are the auto-load and a chat, or two chats, past
\* the semaphore at once, and none loads a remote model (handlers.go:436, :482).
OneLoader ==
    /\ \A c \in Clients : chat[c].pc \in {"recheck", "load"} => auto.pc \notin {"begin", "load"}
    /\ \A c, d \in Clients :
           chat[c].pc \in {"recheck", "load"} /\ chat[d].pc \in {"recheck", "load"} => c = d
    /\ loading # NoModel => models[loading] = "local"

\* OneLoader holds always.
THEOREM LoadsApart == Spec => []OneLoader
<1>1. ASSUME IInv
      PROVE  OneLoader
  <2>1. \A c \in Clients : c # AutoLoader
    OBVIOUS
  <2>2. loading # NoModel => models[loading] = "local"
    BY <1>1 DEF IInv, LocalOnly
  <2> QED
    BY <1>1, <2>1, <2>2 DEF IInv, HolderInv, OneLoader
<1> QED
  BY <1>1, Invariance, PTL

-----------------------------------------------------------------------------
(* The auto-load runs down *)

\* How many steps the auto-load may still take: an attempt has five places.
Left ==
    IF auto.pc \in {"off", "loaded", "failed"} THEN 0
    ELSE 5 * (Attempts - auto.tries) -
         (CASE auto.pc = "sleep"   -> 0
            [] auto.pc = "check"   -> 1
            [] auto.pc = "acquire" -> 2
            [] auto.pc = "begin"   -> 3
            [] auto.pc = "load"    -> 4)

\* A step within an attempt goes one place on, or ends the auto-load; any other
\* one ends the attempt.
AutoMoves ==
    \/ auto.pc \in {"sleep", "check", "acquire", "begin", "load"} /\ Retry(auto.pc)
    \/ AutoGoto("sleep", "check") \/ AutoGoto("check", "acquire") \/ AutoGoto("acquire", "begin")
    \/ AutoGoto("begin", "load") \/ AutoGoto("load", "loaded")

\* Every step of the auto-load brings it nearer to its end.
LEMMA MovesRunDown ==
  ASSUME IInv, AutoMoves
  PROVE  Left' \in Nat /\ Left' < Left
<1>1. /\ auto \in AutoRecord /\ auto.pc \in {"sleep", "check", "acquire", "begin", "load"}
      /\ auto.tries \in Nat /\ Attempts \in Nat /\ auto.tries + 1 <= Attempts
  <2>1. auto \in AutoRecord /\ auto.pc \in {"sleep", "check", "acquire", "begin", "load"}
    BY TypeParts DEF IInv, AutoMoves, AutoGoto
  <2>2. auto.tries < Attempts /\ auto.tries \in 0..Attempts
    BY <2>1 DEF IInv, Placed, AutoRecord
  <2> QED
    BY <2>1, <2>2
<1>2. Left >= 5 * (Attempts - auto.tries) - 4 /\ Left >= 1 /\ Left \in Nat
  BY <1>1 DEF Left
<1>3. CASE auto.pc \in {"sleep", "check", "acquire", "begin", "load"} /\ Retry(auto.pc)
  <2>1. /\ auto'.tries = auto.tries + 1
        /\ auto'.pc = IF auto.tries + 1 = Attempts THEN "failed" ELSE "sleep"
    BY <1>3 DEF Retry
  <2>2. Left' = 5 * (Attempts - (auto.tries + 1))
    BY <1>1, <2>1 DEF Left
  <2>3. \A a, t, l \in Nat : t + 1 <= a /\ l >= 5 * (a - t) - 4
            => 5 * (a - (t + 1)) \in Nat /\ 5 * (a - (t + 1)) < l
    OBVIOUS
  <2> QED
    BY <1>1, <1>2, <2>2, <2>3
<1>4. CASE AutoGoto("load", "loaded")
  <2>1. auto'.pc = "loaded"
    BY <1>1, <1>4, AutoGotoEffect
  <2>2. Left' = 0
    BY <2>1 DEF Left
  <2> QED
    BY <1>2, <2>2
<1>5. CASE \/ AutoGoto("sleep", "check") \/ AutoGoto("check", "acquire")
           \/ AutoGoto("acquire", "begin") \/ AutoGoto("begin", "load")
  <2>1. /\ auto'.tries = auto.tries
        /\ \/ auto.pc = "sleep" /\ auto'.pc = "check"
           \/ auto.pc = "check" /\ auto'.pc = "acquire"
           \/ auto.pc = "acquire" /\ auto'.pc = "begin"
           \/ auto.pc = "begin" /\ auto'.pc = "load"
    BY <1>1, <1>5, AutoGotoEffect
  <2> QED
    BY <1>1, <2>1 DEF Left
<1> QED
  BY <1>3, <1>4, <1>5 DEF AutoMoves

\* The auto-load's goroutine takes five steps an attempt at most, and once it is
\* "loaded" or "failed" it takes none, whatever chats, loads, the listener and
\* signals do in between (main.go:72-93): what AutoLoadEnds needs besides fairness.
THEOREM AutoRunsDown == Spec => [][auto.pc # "off" => Left' \in Nat /\ Left' < Left]_auto
<1>1. ASSUME IInv, [Next]_vars
      PROVE  [auto.pc # "off" => Left' \in Nat /\ Left' < Left]_auto
  <2>1. CASE UNCHANGED vars
    BY <2>1 DEF vars
  <2>2. CASE AutoStep
    <3>1. AutoMoves
      BY <2>2 DEF AutoStep, AutoPost, AutoPostFails, AutoCheck, AutoTryAcquire, AutoBegin,
             AutoAnswered, AutoMoves, Retry
    <3> QED
      BY <1>1, <3>1, MovesRunDown
  <2>3. CASE Ready
    BY <1>1, <2>3 DEF Ready, IInv, BootInv
  <2>4. ASSUME NEW c \in Clients,
               \/ ChatStep(c)
               \/ server # "exited" /\ ChatEnds(c)
               \/ \E m \in Ids : ChatArrives(c, m)
        PROVE  UNCHANGED auto
    BY <2>4 DEF ChatStep, ChatAcquire, ChatRecheck, ChatLoaded, ChatEnds, ChatArrives
  <2>5. CASE \/ Register \/ LoaderStep
             \/ Listen \/ ListenFails \/ Signal \/ Shutdown \/ GraceOver \/ MainReturns
    BY <2>5 DEF Register, LoaderStep, Listen, ListenFails, Signal, Shutdown, GraceOver, MainReturns
  <2> QED
    BY <1>1, <2>1, <2>2, <2>3, <2>4, <2>5 DEF Next
<1> QED
  BY <1>1, Invariance, PTL DEF Spec

-----------------------------------------------------------------------------
(* The merged list, always *)

\* The list that the agent-runner offers its clients has no id twice, for any
\* directories, keys and own models (agent-runner models.go:112).
THEOREM IdsOnce == Spec => []NoIdTwice
<1>1. IInv => NoIdTwice
  BY MergedList DEF IInv, TypeOK
<1> QED
  BY <1>1, Invariance, PTL

\* And it has every model that the gateway has registered, or the agent-runner's
\* own one of that name.
THEOREM NoneLost == Spec => []EveryModelListed
<1>1. IInv => EveryModelListed
  BY MergedList DEF IInv, TypeOK
<1> QED
  BY <1>1, Invariance, PTL
=============================================================================
