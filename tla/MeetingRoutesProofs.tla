------------------------- MODULE MeetingRoutesProofs -------------------------
(***************************************************************************)
(* Proofs about the two requests on /meetings: the list that GET walks     *)
(* (MeetingList), for any number of meetings and any page, and the upload  *)
(* that POST accepts (MeetingUpload), for any number of uploads.           *)
(***************************************************************************)
EXTENDS MeetingList, UploadPromise, FiniteSetTheorems, SequenceTheorems, TLAPS

-----------------------------------------------------------------------------
(* The inductive invariant *)

TypeInv ==
    /\ there \subseteq Meetings
    /\ names \subseteq Meetings
    /\ items \subseteq Meetings
    /\ fresh \subseteq Meetings
    /\ hidden \subseteq Meetings
    /\ current \in Nat
    /\ place = "results" => current \in Meetings
    /\ cursor \in Nat
    /\ seen \in Seq(Meetings)
    /\ place \in {"ask", "read", "results", "done", "failed"}

(* What the client has is not below the cursor of its next request.        *)
CursorInv ==
    place # "done" => \A i \in 1..Len(seen) : seen[i] >= cursor

(* A meeting that was there all along is still there; it was seen, or it   *)
(* is below the cursor and this request has read it or will.               *)
SteadyInv ==
    /\ steady \subseteq there
    /\ place \in {"ask", "read", "results"} =>
          \A m \in steady : m >= cursor => m \in Range(seen)
    /\ place = "read" => steady \subseteq names \union items
    /\ place = "results" => steady \subseteq names \union items \union {current}

IInv == TypeInv /\ NewestFirst /\ CursorInv /\ SteadyInv /\ SteadyIsListed

-----------------------------------------------------------------------------
(* Pages *)

(* The place of a meeting in a set, counted from the newest.               *)
From(S, m) == { k \in S : k >= m }
Rank(S, m) == Cardinality(From(S, m))

(* A place is between the first and the last.                              *)
LEMMA RankIsAPlace ==
    ASSUME NEW S \in SUBSET Nat, IsFiniteSet(S), NEW m \in S
    PROVE  Cardinality(S) \in Nat /\ Rank(S, m) \in 1..Cardinality(S)
<1>1. From(S, m) \in SUBSET S /\ m \in From(S, m)
  BY DEF From
<1>2. IsFiniteSet(From(S, m)) /\ Cardinality(From(S, m)) <= Cardinality(S)
  BY <1>1, FS_Subset
<1>3. Cardinality(S) \in Nat /\ Cardinality(From(S, m)) \in Nat
  BY <1>2, FS_CardinalityType
<1>4. Cardinality(From(S, m)) # 0
  BY <1>1, <1>2, FS_EmptySet
<1> QED
  BY <1>2, <1>3, <1>4 DEF Rank

(* A newer meeting has a smaller place.                                    *)
LEMMA NewerRanksFirst ==
    ASSUME NEW S \in SUBSET Nat, IsFiniteSet(S),
           NEW m \in S, NEW n \in S, m > n
    PROVE  Rank(S, m) < Rank(S, n)
<1> m \in Nat /\ n \in Nat
  OBVIOUS
<1>1. From(S, m) \in SUBSET From(S, n) /\ n \in From(S, n) /\ n \notin From(S, m)
  <2>1. \A k \in S : k >= m => k >= n
    OBVIOUS
  <2>2. n >= n /\ ~(n >= m)
    OBVIOUS
  <2> QED
    BY <2>1, <2>2, Zenon DEF From
<1>2. IsFiniteSet(From(S, n))
  BY FS_Subset DEF From
<1>3. /\ Cardinality(From(S, m)) <= Cardinality(From(S, n))
      /\ Cardinality(From(S, m)) # Cardinality(From(S, n))
  BY <1>1, <1>2, FS_Subset
<1>4. Rank(S, m) \in Nat /\ Rank(S, n) \in Nat
  BY RankIsAPlace
<1> QED
  BY <1>3, <1>4 DEF Rank

(* No place is empty: otherwise two meetings would share one.              *)
LEMMA RankIsTaken ==
    ASSUME NEW S \in SUBSET Nat, IsFiniteSet(S), NEW i \in 1..Cardinality(S)
    PROVE  \E m \in S : Rank(S, m) = i
<1> DEFINE n == Cardinality(S)
           T == (1..n) \ {i}
           f == [m \in S |-> Rank(S, m)]
<1>1. n \in Nat
  BY FS_CardinalityType
<1>2. IsFiniteSet(1..n) /\ Cardinality(1..n) = n
  BY <1>1, FS_Interval
<1>3. IsFiniteSet(T) /\ Cardinality(T) = n - 1
  <2> DEFINE I == 1..n
  <2>1. IsFiniteSet(I) /\ Cardinality(I) = n /\ i \in I
    BY <1>2
  <2> HIDE DEF I
  <2>2. IsFiniteSet(I \ {i}) /\ Cardinality(I \ {i}) = n - 1
    BY <2>1, FS_RemoveElement
  <2> QED
    BY <2>2 DEF I
<1>4. SUFFICES ASSUME \A m \in S : Rank(S, m) # i PROVE FALSE
  OBVIOUS
<1>5. f \in [S -> T]
  BY <1>4, RankIsAPlace
<1>6. \E x, y \in S : x # y /\ f[x] = f[y]
  <2>1. Cardinality(T) < Cardinality(S)
    BY <1>1, <1>3
  <2> HIDE DEF T, f
  <2> QED
    BY <1>3, <1>5, <2>1, FS_PigeonHole
<1>7. PICK x \in S, y \in S : x # y /\ Rank(S, x) = Rank(S, y)
  BY <1>6
<1>8. x \in Nat /\ y \in Nat /\ Rank(S, x) \in Nat /\ Rank(S, y) \in Nat
  BY RankIsAPlace
<1>9. CASE x > y
  BY <1>7, <1>8, <1>9, NewerRanksFirst
<1>10. CASE y > x
  BY <1>7, <1>8, <1>10, NewerRanksFirst
<1> QED
  BY <1>7, <1>8, <1>9, <1>10

(* A page is a sequence of the newest meetings of a set, newest first.     *)
LEMMA NewestIsAPage ==
    ASSUME NEW S \in SUBSET Nat, IsFiniteSet(S), NEW n \in Nat
    PROVE  LET page == Newest(S, n)
           IN /\ page \in Seq(S)
              /\ Len(page) = IF Cardinality(S) < n THEN Cardinality(S) ELSE n
              /\ \A i, j \in 1..Len(page) : i < j => page[i] > page[j]
              /\ \A i \in 1..Len(page), m \in S :
                    m >= page[i] => m \in Range(page)
              /\ Len(page) = Cardinality(S) => S \subseteq Range(page)
<1> DEFINE page == Newest(S, n)
           l == IF Cardinality(S) < n THEN Cardinality(S) ELSE n
<1>1. Cardinality(S) \in Nat /\ l \in Nat /\ l <= Cardinality(S)
  BY FS_CardinalityType
<1>0. l = IF Cardinality(S) < n THEN Cardinality(S) ELSE n
  OBVIOUS
<1>2. page = [i \in 1..l |-> CHOOSE m \in S : Rank(S, m) = i]
  BY DEF Newest, Rank, From
<1>3. ASSUME NEW i \in 1..l
      PROVE  page[i] \in S /\ Rank(S, page[i]) = i
  BY <1>1, <1>2, RankIsTaken
<1> HIDE DEF page, l
<1>4. page \in Seq(S) /\ Len(page) = l /\ DOMAIN page = 1..l
  <2>1. page = [i \in 1..l |-> page[i]]
    BY <1>2
  <2>2. page \in [1..l -> S]
    BY <1>3, <2>1
  <2> QED
    BY <1>1, <2>2, SeqDef
<1>5. ASSUME NEW i \in 1..l, NEW j \in 1..l, i < j
      PROVE  page[i] > page[j]
  <2>1. /\ page[i] \in S /\ Rank(S, page[i]) = i
        /\ page[j] \in S /\ Rank(S, page[j]) = j
    BY <1>3
  <2>2. i \in Nat /\ j \in Nat /\ i < j
    BY <1>1, <1>5
  <2>3. page[i] \in Nat /\ page[j] \in Nat
    BY <2>1
  <2>4. page[i] # page[j]
    BY <2>1, <2>2
  <2>5. ~(page[j] > page[i])
    <3>1. SUFFICES ASSUME page[j] > page[i] PROVE FALSE
      OBVIOUS
    <3>2. Rank(S, page[j]) < Rank(S, page[i])
      BY <2>1, <3>1, NewerRanksFirst
    <3> QED
      BY <2>1, <2>2, <3>2
  <2> QED
    BY <2>3, <2>4, <2>5
<1>6. ASSUME NEW m \in S, Rank(S, m) <= l
      PROVE  m \in Range(page)
  <2>1. Rank(S, m) \in 1..l
    BY <1>1, <1>6, RankIsAPlace
  <2> DEFINE k == page[Rank(S, m)]
  <2>2. k \in S /\ Rank(S, k) = Rank(S, m)
    BY <1>3, <2>1
  <2>3. k \in Nat /\ m \in Nat /\ Rank(S, m) \in Nat
    <3>1. k \in Nat
      BY <2>2
    <3>2. m \in Nat
      OBVIOUS
    <3> QED
      BY <1>1, <2>1, <3>1, <3>2
  <2>4. k = m
    <3> HIDE DEF k
    <3>1. ~(k > m)
      BY <2>2, <2>3, NewerRanksFirst
    <3>2. ~(m > k)
      BY <2>2, <2>3, NewerRanksFirst
    <3> QED
      BY <2>3, <3>1, <3>2
  <2> QED
    BY <1>4, <2>1, <2>4 DEF Range
<1>7. ASSUME NEW i \in 1..l, NEW m \in S, m >= page[i]
      PROVE  m \in Range(page)
  <2>1. Rank(S, m) <= i
    <3>1. page[i] \in S /\ Rank(S, page[i]) = i /\ Rank(S, m) \in Nat
      BY <1>3, RankIsAPlace
    <3>2. page[i] \in Nat /\ m \in Nat
      BY <3>1
    <3>3. CASE m = page[i]
      BY <1>1, <3>1, <3>3
    <3>4. CASE m > page[i]
      <4>1. Rank(S, m) < Rank(S, page[i])
        BY <3>1, <3>4, NewerRanksFirst
      <4> QED
        BY <1>1, <3>1, <4>1
    <3>5. m = page[i] \/ m > page[i]
      BY <1>7, <3>2
    <3> QED
      BY <3>3, <3>4, <3>5
  <2> QED
    BY <1>1, <1>6, <2>1, RankIsAPlace
<1>8. ASSUME l = Cardinality(S)
      PROVE  S \subseteq Range(page)
  BY <1>6, <1>8, RankIsAPlace
<1> QED
  BY <1>0, <1>4, <1>5, <1>7, <1>8 DEF page

(* No cursor yet: every meeting is below.                                  *)
LEMMA FirstIsAbove == First \in Nat /\ \A m \in Meetings : m < First
<1> DEFINE S == Meetings \union {0}
<1>1. S \in SUBSET Nat /\ IsFiniteSet(S) /\ S # {}
  BY MeetingsAssumption, FS_AddElement
<1>2. Cardinality(S) \in Nat /\ Cardinality(S) # 0
  BY <1>1, FS_CardinalityType, FS_EmptySet
<1>3. PICK m \in S : Rank(S, m) = 1
  BY <1>1, <1>2, RankIsTaken
<1>4. ASSUME NEW k \in S
      PROVE  m >= k
  <2>1. ~(k > m)
    <3>1. Rank(S, k) >= 1 /\ Rank(S, k) \in Nat
      BY <1>1, RankIsAPlace
    <3> QED
      BY <1>1, <1>3, <3>1, NewerRanksFirst
  <2> QED
    BY <1>1, <2>1
<1>5. Max(S) \in S /\ \A k \in S : Max(S) >= k
  BY <1>4 DEF Max
<1> QED
  BY <1>1, <1>5 DEF First

-----------------------------------------------------------------------------
(* The invariant *)

(* At first nothing is seen, and every meeting is below the cursor.        *)
LEMMA InitIInv == Init => IInv
<1> SUFFICES ASSUME Init PROVE IInv
  OBVIOUS
<1> USE DEF Init
<1>1. TypeInv
  BY FirstIsAbove, EmptySeq DEF TypeInv
<1>2. Len(seen) = 0 /\ DOMAIN seen = {}
  BY EmptySeq
<1>3. NewestFirst /\ CursorInv
  BY <1>2 DEF NewestFirst, CursorInv
<1>4. \A m \in steady : ~(m >= cursor)
  BY FirstIsAbove, MeetingsAssumption
<1>5. SteadyInv /\ SteadyIsListed
  BY <1>4 DEF SteadyInv, SteadyIsListed
<1> QED
  BY <1>1, <1>3, <1>5 DEF IInv

(* A page cut below the cursor goes on where the client's list ends, and   *)
(* what is not on it is below the next cursor.                             *)
LEMMA AnswerKeeps == IInv /\ Answer => IInv'
<1> SUFFICES ASSUME IInv, Answer PROVE IInv'
  OBVIOUS
<1> DEFINE page == Newest(Below, Limit)
           more == Cardinality(Below) > Len(page)
<1>1. /\ Below \in SUBSET Nat
      /\ Below \subseteq Meetings
      /\ IsFiniteSet(Below)
      /\ \A m \in Below : m < cursor
  BY MeetingsAssumption, FS_Subset DEF IInv, TypeInv, Below
<1>2. Limit \in Nat /\ Limit >= 1 /\ Cardinality(Below) \in Nat
  BY <1>1, LimitAssumption, FS_CardinalityType
<1>3. /\ page \in Seq(Below)
      /\ Len(page) = IF Cardinality(Below) < Limit THEN Cardinality(Below) ELSE Limit
      /\ \A i, j \in 1..Len(page) : i < j => page[i] > page[j]
      /\ \A i \in 1..Len(page), m \in Below : m >= page[i] => m \in Range(page)
      /\ Len(page) = Cardinality(Below) => Below \subseteq Range(page)
  BY <1>1, <1>2, NewestIsAPage
<1>4. /\ place = "read" /\ names = {} /\ seen' = seen \o page
      /\ IF more THEN place' = "ask" /\ cursor' = Cursor(page)
                 ELSE place' = "done" /\ cursor' = cursor
      /\ UNCHANGED <<fresh, there, hidden, names, current, items, steady>>
  BY DEF Answer
<1> HIDE DEF page
<1>5. /\ Len(page) \in Nat /\ DOMAIN page = 1..Len(page)
      /\ \A i \in 1..Len(page) : page[i] \in Below /\ page[i] \in Nat /\ page[i] < cursor
  BY <1>1, <1>3, LenProperties, ElementOfSeq
<1>6. /\ Len(seen) \in Nat /\ DOMAIN seen = 1..Len(seen)
      /\ \A i \in 1..Len(seen) : seen[i] \in Nat /\ seen[i] >= cursor
      /\ cursor \in Nat
  BY <1>4, LenProperties, ElementOfSeq, MeetingsAssumption DEF IInv, TypeInv, CursorInv
<1>7. /\ seen' \in Seq(Meetings)
      /\ Len(seen') = Len(seen) + Len(page)
      /\ DOMAIN seen' = 1..(Len(seen) + Len(page))
      /\ \A i \in 1..(Len(seen) + Len(page)) :
            seen'[i] = IF i <= Len(seen) THEN seen[i] ELSE page[i - Len(seen)]
  <2>1. seen \in Seq(Meetings) /\ page \in Seq(Meetings)
    BY <1>1, <1>3, SeqMonotonic DEF IInv, TypeInv
  <2> QED
    BY <1>4, <2>1, ConcatProperties, LenProperties
<1>8. Range(seen') = Range(seen) \union Range(page)
  <2>1. \A i \in 1..Len(seen) : i \in DOMAIN seen' /\ seen'[i] = seen[i]
    BY <1>5, <1>6, <1>7
  <2>2. ASSUME NEW i \in 1..Len(page)
        PROVE  i + Len(seen) \in DOMAIN seen' /\ seen'[i + Len(seen)] = page[i]
    <3>1. /\ i + Len(seen) \in 1..(Len(seen) + Len(page))
          /\ ~(i + Len(seen) <= Len(seen))
          /\ (i + Len(seen)) - Len(seen) = i
      BY <1>5, <1>6
    <3>2. seen'[i + Len(seen)] = page[(i + Len(seen)) - Len(seen)]
      BY <1>7, <3>1
    <3> QED
      BY <1>7, <3>1, <3>2
  <2>3. \A i \in DOMAIN seen' :
           \/ i \in 1..Len(seen)
           \/ i - Len(seen) \in 1..Len(page) /\ seen'[i] = page[i - Len(seen)]
    BY <1>5, <1>6, <1>7
  <2> QED
    BY <1>5, <1>6, <2>1, <2>2, <2>3 DEF Range
<1>9. more => /\ Len(page) \in 1..Len(page)
              /\ cursor' = page[Len(page)] /\ cursor' \in Below /\ cursor' < cursor
              /\ \A i \in 1..Len(page) : page[i] >= cursor'
  <2> SUFFICES ASSUME more
               PROVE  /\ Len(page) \in 1..Len(page)
                      /\ cursor' = page[Len(page)] /\ cursor' \in Below /\ cursor' < cursor
                      /\ \A i \in 1..Len(page) : page[i] >= cursor'
    OBVIOUS
  <2>1. Len(page) \in 1..Len(page)
    BY <1>2, <1>3, <1>5
  <2>2. cursor' = page[Len(page)]
    BY <1>4 DEF Cursor
  <2>3. cursor' \in Below /\ cursor' \in Nat /\ cursor' < cursor
    BY <1>5, <2>1, <2>2
  <2>4. ASSUME NEW i \in 1..Len(page)
        PROVE  page[i] >= cursor'
    <3>1. CASE i = Len(page)
      BY <2>2, <2>3, <3>1
    <3>2. CASE i < Len(page)
      <4>1. page[i] > page[Len(page)]
        BY <1>3, <2>1, <3>2
      <4>2. page[i] \in Nat
        BY <1>5
      <4> QED
        BY <2>2, <2>3, <4>1, <4>2
    <3>3. i = Len(page) \/ i < Len(page)
      <4>1. Len(page) \in Nat
        BY <1>5
      <4>2. i \in Int /\ i <= Len(page)
        BY <4>1
      <4> QED
        BY <4>1, <4>2
    <3> QED
      BY <3>1, <3>2, <3>3
  <2> QED
    BY <2>1, <2>2, <2>3, <2>4
<1>10. TypeInv'
  BY <1>1, <1>4, <1>7, <1>9 DEF IInv, TypeInv
<1>11. NewestFirst'
  <2> SUFFICES ASSUME NEW i \in DOMAIN seen', NEW j \in DOMAIN seen', i < j
               PROVE  seen'[i] > seen'[j]
    BY DEF NewestFirst
  <2>1. i \in Nat /\ j \in Nat
    BY <1>7
  <2>2. CASE j <= Len(seen)
    <3>1. i \in DOMAIN seen /\ j \in DOMAIN seen
      BY <1>5, <1>6, <1>7, <2>1, <2>2
    <3>2. seen'[i] = seen[i] /\ seen'[j] = seen[j]
      BY <1>6, <1>7, <3>1
    <3> QED
      BY <3>1, <3>2 DEF IInv, NewestFirst
  <2>3. CASE i <= Len(seen) /\ Len(seen) < j
    <3>1. seen'[i] = seen[i] /\ seen'[j] = page[j - Len(seen)]
      BY <1>6, <1>7, <2>1, <2>3
    <3>2. i \in 1..Len(seen) /\ j - Len(seen) \in 1..Len(page)
      BY <1>5, <1>6, <1>7, <2>1, <2>3
    <3>3. seen[i] \in Nat /\ seen[i] >= cursor
      BY <1>6, <3>2
    <3>4. page[j - Len(seen)] \in Nat /\ page[j - Len(seen)] < cursor
      BY <1>5, <3>2
    <3> QED
      BY <1>6, <3>1, <3>3, <3>4
  <2>4. CASE Len(seen) < i
    <3>1. seen'[i] = page[i - Len(seen)] /\ seen'[j] = page[j - Len(seen)]
      BY <1>6, <1>7, <2>1, <2>4
    <3>2. /\ i - Len(seen) \in 1..Len(page)
          /\ j - Len(seen) \in 1..Len(page)
          /\ i - Len(seen) < j - Len(seen)
      BY <1>5, <1>6, <1>7, <2>1, <2>4
    <3> QED
      BY <1>3, <3>1, <3>2
  <2> QED
    BY <1>6, <2>1, <2>2, <2>3, <2>4
<1>12. CursorInv'
  <2> SUFFICES ASSUME more, NEW i \in 1..Len(seen')
               PROVE  seen'[i] >= cursor'
    BY <1>4 DEF CursorInv
  <2>0. i \in Nat /\ i <= Len(seen) + Len(page) /\ cursor' \in Nat /\ cursor' < cursor
    <3>1. i \in 1..(Len(seen) + Len(page))
      BY <1>7
    <3>2. cursor' \in Nat
      BY <1>1, <1>9
    <3> QED
      BY <1>5, <1>6, <1>9, <3>1, <3>2
  <2>1. CASE i <= Len(seen)
    <3>1. seen'[i] = seen[i] /\ i \in 1..Len(seen)
      BY <1>6, <1>7, <2>0, <2>1
    <3>2. seen[i] \in Nat /\ seen[i] >= cursor
      BY <1>6, <3>1
    <3> QED
      BY <1>6, <2>0, <3>1, <3>2
  <2>2. CASE Len(seen) < i
    <3>1. seen'[i] = page[i - Len(seen)] /\ i - Len(seen) \in 1..Len(page)
      BY <1>5, <1>6, <1>7, <2>0, <2>2
    <3> QED
      BY <1>9, <3>1
  <2> QED
    BY <1>6, <2>0, <2>1, <2>2
<1>13. \A m \in steady : m \notin Range(seen) => m \in Below
  <2> SUFFICES ASSUME NEW m \in steady, m \notin Range(seen)
               PROVE  m \in Below
    OBVIOUS
  <2>1. m \in items /\ m \in Nat
    BY <1>4, MeetingsAssumption DEF IInv, TypeInv, SteadyInv
  <2>2. ~(m >= cursor)
    BY <1>4 DEF IInv, SteadyInv
  <2> QED
    BY <1>6, <2>1, <2>2 DEF Below
<1>14. SteadyInv'
  <2>1. ASSUME more, NEW m \in steady, m >= cursor'
        PROVE  m \in Range(seen')
    <3>1. CASE m \in Range(seen)
      BY <1>8, <3>1
    <3>2. CASE m \notin Range(seen)
      <4>1. m \in Below
        BY <1>13, <3>2
      <4>2. m \in Range(page)
        BY <1>3, <1>9, <2>1, <4>1
      <4> QED
        BY <1>8, <4>2
    <3> QED
      BY <3>1, <3>2
  <2> QED
    BY <1>4, <2>1 DEF IInv, SteadyInv
<1>15. SteadyIsListed'
  <2> SUFFICES ASSUME ~more, NEW m \in steady
               PROVE  m \in Range(seen')
    BY <1>4 DEF SteadyIsListed
  <2>1. Below \subseteq Range(page)
    BY <1>2, <1>3
  <2> QED
    BY <1>8, <1>13, <2>1
<1> QED
  BY <1>10, <1>11, <1>12, <1>14, <1>15 DEF IInv

(* No other step changes what the client has or its cursor.                *)
LEMMA RestKeeps ==
    ASSUME IInv, UNCHANGED <<cursor, seen>>, TypeInv', SteadyInv',
           place # "done" \/ UNCHANGED place, place' = "done" => UNCHANGED place,
           steady' \subseteq steady
    PROVE  IInv'
<1>1. NewestFirst'
  BY DEF IInv, NewestFirst
<1>2. CursorInv'
  BY DEF IInv, CursorInv
<1>3. SteadyIsListed'
  BY DEF IInv, SteadyIsListed
<1> QED
  BY <1>1, <1>2, <1>3 DEF IInv

LEMMA NextIInv == IInv /\ [Next]_vars => IInv'
<1> SUFFICES ASSUME IInv, [Next]_vars PROVE IInv'
  OBVIOUS
<1>1. CASE Ask
  <2>1. TypeInv'
    BY <1>1 DEF IInv, TypeInv, Ask
  <2>2. SteadyInv'
    BY <1>1 DEF IInv, SteadyInv, Ask
  <2> QED
    BY <1>1, <2>1, <2>2, RestKeeps DEF Ask
<1>2. CASE Answer
  BY <1>2, AnswerKeeps
<1>3. ASSUME NEW outcome \in {"shown", "skipped", "processing", "error"},
             ReadResults(outcome)
      PROVE  IInv'
  <2>1. TypeInv'
    <3>1. outcome = "shown" \/ outcome = "processing" => current \in Meetings
      BY <1>3 DEF IInv, TypeInv, SteadyInv, ReadResults
    <3> QED
      BY <1>3, <3>1 DEF IInv, TypeInv, ReadResults
  <2>2. SteadyInv'
    BY <1>3 DEF IInv, SteadyInv, ReadResults
  <2> QED
    BY <1>3, <2>1, <2>2, RestKeeps DEF ReadResults
<1>4. ASSUME NEW m \in Meetings, ReadRecord(m)
      PROVE  IInv'
  <2>1. TypeInv'
    BY <1>4, MeetingsAssumption DEF IInv, TypeInv, ReadRecord
  <2>2. SteadyInv'
    BY <1>4 DEF IInv, SteadyInv, ReadRecord
  <2> QED
    BY <1>4, <2>1, <2>2, RestKeeps DEF ReadRecord
<1>5. ASSUME NEW m \in Meetings, Show(m) \/ Hide(m) \/ Undo(m) \/ Remove(m)
      PROVE  IInv'
  <2>1. UNCHANGED walk /\ steady' \subseteq steady
    BY <1>5 DEF Show, Hide, Undo, Remove
  <2>2. TypeInv'
    BY <1>5, <2>1 DEF IInv, TypeInv, Show, Hide, Undo, Remove, walk
  <2>3. SteadyInv'
    BY <1>5, <2>1 DEF IInv, SteadyInv, Show, Hide, Undo, Remove, walk
  <2> QED
    BY <2>1, <2>2, <2>3, RestKeeps DEF walk
<1>6. CASE UNCHANGED vars
  BY <1>6 DEF vars, walk, IInv, TypeInv, NewestFirst, CursorInv, SteadyInv, SteadyIsListed
<1> QED
  BY <1>1, <1>2, <1>3, <1>4, <1>5, <1>6 DEF Next

-----------------------------------------------------------------------------
(* IInv holds of every behaviour of the list.                              *)
THEOREM Invariance == Spec => []IInv
  BY InitIInv, NextIInv, PTL DEF Spec

(* Over any number of pages of any size, and whatever meetings come, go or *)
(* come back between two reads, the client's list is newest first and      *)
(* shows no meeting twice.                                                 *)
THEOREM ListIsOrdered == Spec => []NewestFirst
<1>1. IInv => NewestFirst
  BY DEF IInv
<1> QED
  BY <1>1, Invariance, PTL

(* A meeting that is there from the first request to the last answer is in *)
(* the client's list.                                                      *)
THEOREM NobodyIsMissing == Spec => []SteadyIsListed
<1>1. IInv => SteadyIsListed
  BY DEF IInv
<1> QED
  BY <1>1, Invariance, PTL

-----------------------------------------------------------------------------
(* The upload, for any uploads                                             *)

CONSTANTS Videos, None, MaxFaults
VARIABLES pc, staging, shown, aged, tick, faults

Post == INSTANCE MeetingUpload

(* The places at which a meeting.json has not been written.                *)
Unmarked == {"new", "staged", "folder", "open", "audio", "marker"} \union Post!Staging

(* What the steps before each place of create_meeting have made durable;   *)
(* and only when its thread is over does anything of an upload grow old.   *)
UploadInv(u) ==
    /\ pc[u] \in Unmarked => kept[u].marker = {"none"} /\ tick # u
    /\ pc[u] \in {"open", "audio", "marker"} => folder[u] = "present"
    /\ pc[u] = "marker" => shown[u].audio = "whole"
    /\ pc[u] \in {"parent", "created"} => Safe(u)
    /\ answer[u] = "accepted" => pc[u] = "done" /\ Safe(u)
    /\ aged[u] => pc[u] = "done"
    /\ tick = u => shown[u].marker \in {"queued", "none"}
    /\ shown[u].marker = "finished" => kept[u].marker \subseteq {"finished", "cleaned"}

(* Readers see what may also come back.                                    *)
EntriesInv ==
    /\ folder \in [Uploads -> Post!Name]
    /\ shown \in [Uploads -> [audio : Post!Audio, marker : Post!Marker]]
    /\ kept \in [Uploads -> [audio : SUBSET Post!Audio, marker : SUBSET Post!Marker]]
    /\ \A u \in Uploads : /\ shown[u].audio \in kept[u].audio
                          /\ shown[u].marker \in kept[u].marker

UploadsInv ==
    /\ None \notin Uploads
    /\ pc \in [Uploads -> Post!Places]
    /\ answer = [u \in Uploads |-> answer[u]]
    /\ aged \in [Uploads -> BOOLEAN]
    /\ due \in [Uploads -> BOOLEAN]
    /\ EntriesInv
    /\ \A u \in Uploads : UploadInv(u)

Others(u) ==
    \A v \in Uploads \ {u} :
       /\ pc'[v] = pc[v] /\ answer'[v] = answer[v] /\ folder'[v] = folder[v]
       /\ shown'[v] = shown[v] /\ kept'[v] = kept[v] /\ aged'[v] = aged[v]
       /\ due'[v] = due[v]

LEMMA UploadsInit == Post!Init /\ None \notin Uploads => UploadsInv
<1> SUFFICES ASSUME Post!Init, None \notin Uploads PROVE UploadsInv
  OBVIOUS
<1>1. EntriesInv
  BY DEF Post!Init, EntriesInv, Post!Name, Post!Audio, Post!Marker
<1>2. ASSUME NEW u \in Uploads PROVE UploadInv(u)
  BY DEF Post!Init, UploadInv, Unmarked
<1>3. QED
  BY <1>1, <1>2 DEF Post!Init, UploadsInv, Post!Places
(* What is true of the other uploads does not depend on this one.          *)
LEMMA OthersKeep ==
    ASSUME UploadsInv, NEW u \in Uploads, Others(u), tick' \in {tick, None, u}
    PROVE  \A v \in Uploads \ {u} : UploadInv(v)'
<1> SUFFICES ASSUME NEW v \in Uploads, v # u
             PROVE  UploadInv(v)'
  OBVIOUS
<1>1. UploadInv(v)
  BY DEF UploadsInv
<1>2. tick # v => tick' # v
  BY DEF UploadsInv
<1>3. /\ pc'[v] = pc[v] /\ answer'[v] = answer[v] /\ folder'[v] = folder[v]
      /\ shown'[v] = shown[v] /\ kept'[v] = kept[v] /\ aged'[v] = aged[v]
      /\ due'[v] = due[v]
  BY DEF Others
<1>4. QED
  BY <1>1, <1>2, <1>3 DEF UploadInv, Safe, Over

(* Steps of a request that do not touch the meeting's folder.              *)
LEMMA RequestKeeps ==
    ASSUME UploadsInv, NEW u \in Uploads, UNCHANGED <<Post!meeting, due, aged, tick>>,
           NEW to \in Post!Places, pc' = [pc EXCEPT ![u] = to], pc[u] # "done",
           NEW result, answer' = [answer EXCEPT ![u] = result],
           to \in Unmarked => pc[u] \in Unmarked,
           to \in {"open", "audio", "marker"} =>
              /\ pc[u] \in {"open", "audio", "marker"}
              /\ to = "marker" => pc[u] = "marker",
           to \in {"parent", "created"} => pc[u] \in {"parent", "created"},
           result = "accepted" => pc[u] = "created" /\ to = "done"
    PROVE  UploadsInv'
<1>1. /\ pc'[u] = to /\ answer'[u] = result /\ folder' = folder
      /\ shown' = shown /\ kept' = kept /\ aged' = aged /\ due' = due /\ tick' = tick
      /\ \A v \in Uploads \ {u} : pc'[v] = pc[v] /\ answer'[v] = answer[v]
  BY DEF UploadsInv, Post!meeting
<1>2. /\ pc' \in [Uploads -> Post!Places] /\ aged' \in [Uploads -> BOOLEAN]
      /\ due' \in [Uploads -> BOOLEAN]
      /\ answer' = [v \in Uploads |-> answer'[v]]
  BY <1>1 DEF UploadsInv
<1>3. EntriesInv'
  BY <1>1 DEF UploadsInv, EntriesInv
<1>4. \A v \in Uploads \ {u} : UploadInv(v)'
  BY <1>1, OthersKeep DEF Others
<1>5. UploadInv(u)
  BY DEF UploadsInv
<1>6. UploadInv(u)'
  BY <1>1, <1>5 DEF UploadInv, Safe, Over
<1>7. QED
  BY <1>2, <1>3, <1>4, <1>6 DEF UploadsInv

LEMMA Same ==
    ASSUME UploadsInv, NEW u \in Uploads
    PROVE  /\ pc = [pc EXCEPT ![u] = pc[u]] /\ pc[u] \in Post!Places
           /\ answer = [answer EXCEPT ![u] = answer[u]]
           /\ answer[u] = "accepted" => pc[u] = "done"
BY DEF UploadsInv, UploadInv

LEMMA EndKeeps ==
    ASSUME UploadsInv, NEW u \in Uploads, UNCHANGED <<Post!meeting, due, aged, tick>>,
           pc[u] # "done", NEW result, Post!End(u, result),
           result = "accepted" => pc[u] = "created"
    PROVE  UploadsInv'
<1>1. PICK now : /\ answer' = [answer EXCEPT ![u] = now]
                 /\ now = result \/ now = answer[u]
  BY Same DEF Post!End
<1>2. pc' = [pc EXCEPT ![u] = "done"] /\ "done" \in Post!Places
      /\ "done" \notin Unmarked \union {"open", "audio", "marker", "parent", "created"}
  BY DEF Post!End, Post!Goto, Post!Places, Unmarked, Post!Staging
<1>3. now = "accepted" => pc[u] = "created"
  BY <1>1, Same
<1>4. QED
  BY <1>1, <1>2, <1>3, RequestKeeps

(* A request that goes on.                                                 *)
LEMMA MoveKeeps ==
    ASSUME UploadsInv, NEW u \in Uploads, UNCHANGED <<Post!meeting, due, aged, tick, answer>>,
           pc[u] # "done", NEW to \in Post!Places, Post!Goto(u, to),
           to \in Unmarked => pc[u] \in Unmarked,
           to \in {"open", "audio", "marker"} =>
              /\ pc[u] \in {"open", "audio", "marker"}
              /\ to = "marker" => pc[u] = "marker",
           to \in {"parent", "created"} => pc[u] \in {"parent", "created"}
    PROVE  UploadsInv'
<1>1. /\ answer' = [answer EXCEPT ![u] = answer[u]]
      /\ answer[u] # "accepted"
  BY Same
<1>2. UNCHANGED <<Post!meeting, due, aged, tick>> /\ pc' = [pc EXCEPT ![u] = to]
  BY DEF Post!Goto
<1>3. QED
  BY <1>1, <1>2, RequestKeeps

LEMMA StagingKeeps ==
    ASSUME UploadsInv, NEW u \in Uploads, NEW ok \in BOOLEAN, NEW synced \in BOOLEAN,
           NEW removed,
           \/ Post!Parse(u) \/ Post!Check(u) \/ Post!Continue(u) \/ Post!Open(u)
           \/ Post!Convert(u, ok) \/ Post!Swap(u, ok) \/ Post!SyncParent(u, ok)
           \/ Post!ReserveSource(u, removed, synced, ok)
           \/ Post!ReserveTarget(u, removed, synced, ok)
           \/ Post!Discard(u, removed) \/ Post!Answer(u, ok)
    PROVE  UploadsInv'
<1>1. pc[u] # "done" /\ UNCHANGED <<Post!meeting, due, aged, tick>>
  BY DEF Post!Parse, Post!Check, Post!Continue, Post!Open, Post!Convert,
         Post!Swap, Post!SyncParent, Post!ReserveSource,
         Post!ReserveTarget, Post!Discard, Post!Answer, Post!clock
<1>2. CASE \E result : Post!End(u, result) /\ (result = "accepted" => pc[u] = "created")
  BY <1>1, <1>2, EndKeeps
<1>3. CASE /\ answer' = answer
           /\ \E to \in Post!Places :
                 /\ Post!Goto(u, to)
                 /\ to \in Unmarked => pc[u] \in Unmarked
                 /\ to \in {"open", "audio", "marker"} =>
                       /\ pc[u] \in {"open", "audio", "marker"}
                       /\ to = "marker" => pc[u] = "marker"
                 /\ to \in {"parent", "created"} =>
                       pc[u] \in {"parent", "created"}
  BY <1>1, <1>3, MoveKeeps
<1>4. CASE \/ Post!Check(u) \/ Post!Continue(u) \/ Post!Open(u) \/ Post!Convert(u, ok)
           \/ Post!Swap(u, ok) \/ Post!SyncParent(u, ok)
           \/ Post!ReserveTarget(u, removed, synced, ok)
  BY <1>3, <1>4 DEF Post!Check, Post!Continue, Post!Open, Post!Convert,
                    Post!Swap, Post!SyncParent,
                    Post!ReserveTarget, Post!Places, Post!Staging, Post!Creating, Unmarked
<1>5. CASE Post!Discard(u, removed) \/ Post!Answer(u, ok)
  BY <1>2, <1>5 DEF Post!Discard, Post!Answer
<1>6. CASE Post!Parse(u) \/ Post!ReserveSource(u, removed, synced, ok)
  BY <1>2, <1>3, <1>6 DEF Post!Parse, Post!ReserveSource, Post!Places,
                         Post!Staging, Post!Creating, Unmarked
<1>7. QED
  BY <1>4, <1>5, <1>6

LEMMA CancelKeeps ==
    ASSUME UploadsInv, NEW u \in Uploads, NEW ok \in BOOLEAN, Post!Cancel(u, ok)
    PROVE  UploadsInv'
<1>1. /\ pc[u] # "done" /\ UNCHANGED <<Post!meeting, due, aged, tick>>
      /\ answer' = [answer EXCEPT ![u] = "gone"]
  BY DEF Post!Cancel, Post!Staging, Post!Creating, Post!clock
<1>2. PICK to \in {"done", pc[u]} : pc' = [pc EXCEPT ![u] = to]
  BY Same DEF Post!Cancel, Post!Goto
<1>3. to \in Post!Places /\ (to = "done" => to \notin Unmarked)
  BY <1>2, Same DEF Post!Places, Unmarked, Post!Staging
<1>4. QED
  BY <1>1, <1>2, <1>3, RequestKeeps

(* A change of the meeting's folder by its own request, or by the tick.    *)
LEMMA FolderKeeps ==
    ASSUME UploadsInv, NEW u \in Uploads, Others(u), tick' \in {tick, None, u},
           pc' \in [Uploads -> Post!Places], aged' \in [Uploads -> BOOLEAN],
           due' \in [Uploads -> BOOLEAN],
           answer' = [v \in Uploads |-> answer'[v]],
           folder' \in [Uploads -> Post!Name],
           shown' \in [Uploads -> [audio : Post!Audio, marker : Post!Marker]],
           kept' \in [Uploads -> [audio : SUBSET Post!Audio, marker : SUBSET Post!Marker]],
           shown'[u].audio \in kept'[u].audio, shown'[u].marker \in kept'[u].marker,
           UploadInv(u)'
    PROVE  UploadsInv'
<1>1. \A v \in Uploads \ {u} : /\ shown'[v].audio \in kept'[v].audio
                               /\ shown'[v].marker \in kept'[v].marker
  BY DEF Others, UploadsInv, EntriesInv
<1>2. EntriesInv'
  BY <1>1 DEF EntriesInv
<1>3. \A v \in Uploads : UploadInv(v)'
  BY OthersKeep
<1>4. QED
  BY <1>2, <1>3 DEF UploadsInv

LEMMA GotoEffect ==
    ASSUME UploadsInv, NEW u \in Uploads, NEW to \in Post!Places, Post!Goto(u, to)
    PROVE  /\ pc' \in [Uploads -> Post!Places] /\ pc'[u] = to
           /\ \A v \in Uploads \ {u} : pc'[v] = pc[v]
BY DEF Post!Goto, UploadsInv

LEMMA MakeFolderKeeps ==
    ASSUME UploadsInv, NEW u \in Uploads, NEW outcome \in Post!Outcome,
           Post!MakeFolder(u, outcome)
    PROVE  UploadsInv'
<1> DEFINE to == IF outcome = "synced" THEN "open" ELSE "failed"
<1>1. /\ to \in Post!Places /\ Post!Goto(u, to) /\ pc[u] = "folder"
      /\ UNCHANGED <<answer, shown, kept, due, aged, tick>>
      /\ to = "open" => folder'[u] = "present"
      /\ \A v \in Uploads \ {u} : folder'[v] = folder[v]
      /\ folder' \in [Uploads -> Post!Name]
  BY DEF Post!MakeFolder, Post!clock, Post!Places, Post!Creating, UploadsInv, EntriesInv, Post!Name
<1>2. to = "open" \/ (to = "failed" /\ to \notin Unmarked)
  BY DEF Unmarked, Post!Staging
<1> HIDE DEF to
<1>3. UploadInv(u) /\ "folder" \in Unmarked
  BY DEF UploadsInv, Unmarked
<1>4. pc' \in [Uploads -> Post!Places] /\ pc'[u] = to /\ Others(u)
  BY <1>1, GotoEffect DEF Others
<1>5. answer[u] # "accepted"
  BY <1>1, Same
<1>6. /\ ~aged[u] /\ kept[u].marker = {"none"} /\ tick # u
      /\ shown[u].marker = "none"
  BY <1>1, <1>3 DEF UploadInv, UploadsInv, EntriesInv
<1>7. UploadInv(u)'
  BY <1>1, <1>2, <1>4, <1>5, <1>6 DEF UploadInv
<1>8. QED
  BY <1>1, <1>4, <1>7, FolderKeeps DEF UploadsInv, EntriesInv

LEMMA CopyAudioKeeps ==
    ASSUME UploadsInv, NEW u \in Uploads, NEW ok \in BOOLEAN, Post!CopyAudio(u, ok)
    PROVE  UploadsInv'
<1> DEFINE to == IF ok THEN "marker" ELSE "failed"
           result == IF ok THEN "whole" ELSE "partial"
<1>1. /\ to \in Post!Places /\ Post!Goto(u, to) /\ pc[u] = "audio"
      /\ result \in Post!Audio
      /\ UNCHANGED <<answer, folder, due, aged, tick>>
      /\ shown' = [shown EXCEPT ![u].audio = result]
      /\ kept' = [kept EXCEPT ![u].audio = {"none", result}]
      /\ to = "marker" => result = "whole"
  BY DEF Post!CopyAudio, Post!clock, Post!Places, Post!Creating, Post!Audio
<1>2. to = "marker" \/ (to = "failed" /\ to \notin Unmarked)
  BY DEF Unmarked, Post!Staging
<1> HIDE DEF to, result
<1>3. UploadInv(u) /\ "audio" \in Unmarked
  BY DEF UploadsInv, Unmarked
<1>4. /\ shown' \in [Uploads -> [audio : Post!Audio, marker : Post!Marker]]
      /\ kept' \in [Uploads -> [audio : SUBSET Post!Audio, marker : SUBSET Post!Marker]]
      /\ shown'[u].audio = result /\ shown'[u].marker = shown[u].marker
      /\ kept'[u].audio = {"none", result} /\ kept'[u].marker = kept[u].marker
      /\ \A v \in Uploads \ {u} : shown'[v] = shown[v] /\ kept'[v] = kept[v]
  BY <1>1 DEF UploadsInv, EntriesInv, Post!Audio
<1>5. pc' \in [Uploads -> Post!Places] /\ pc'[u] = to /\ Others(u)
  BY <1>1, <1>4, GotoEffect DEF Others
<1>6. answer[u] # "accepted"
  BY <1>1, Same
<1>7. /\ ~aged[u] /\ kept[u].marker = {"none"} /\ tick # u
      /\ folder[u] = "present" /\ shown[u].marker = "none"
  BY <1>1, <1>3 DEF UploadInv, UploadsInv, EntriesInv
<1>8. UploadInv(u)'
  BY <1>1, <1>2, <1>4, <1>5, <1>6, <1>7 DEF UploadInv
<1>9. shown'[u].audio \in kept'[u].audio /\ shown'[u].marker \in kept'[u].marker
  BY <1>4 DEF UploadsInv, EntriesInv
<1>10. QED
  BY <1>1, <1>4, <1>5, <1>8, <1>9, FolderKeeps DEF UploadsInv, EntriesInv

(* meeting.json is as it was, has the new value, or either may come back;  *)
(* once it is durable so is what the folder shows beside it.               *)
LEMMA WriteEffect ==
    ASSUME UploadsInv, NEW u \in Uploads, NEW value \in Post!Marker,
           NEW outcome \in Post!Outcome,
           NEW look \in [audio : Post!Audio, marker : Post!Marker],
           NEW left \in [audio : SUBSET Post!Audio, marker : SUBSET Post!Marker],
           look.audio \in left.audio, look.marker \in left.marker,
           Post!Write(u, look, left, value, outcome)
    PROVE  /\ shown' \in [Uploads -> [audio : Post!Audio, marker : Post!Marker]]
           /\ kept' \in [Uploads -> [audio : SUBSET Post!Audio, marker : SUBSET Post!Marker]]
           /\ \A v \in Uploads \ {u} : shown'[v] = shown[v] /\ kept'[v] = kept[v]
           /\ shown'[u].audio = look.audio
           /\ shown'[u].marker \in {look.marker, value}
           /\ outcome = "failed" => shown'[u].marker = look.marker /\ kept'[u] = left
           /\ outcome # "failed" => shown'[u].marker = value
           /\ shown'[u].audio \in kept'[u].audio
           /\ shown'[u].marker \in kept'[u].marker
           /\ kept'[u].audio \in {left.audio, {look.audio}}
           /\ kept'[u].marker \subseteq left.marker \union {value}
           /\ outcome = "synced" => /\ kept'[u].audio = {look.audio}
                                    /\ kept'[u].marker = {value}
<1>1. /\ shown \in [Uploads -> [audio : Post!Audio, marker : Post!Marker]]
      /\ kept \in [Uploads -> [audio : SUBSET Post!Audio, marker : SUBSET Post!Marker]]
  BY DEF UploadsInv, EntriesInv
<1> DEFINE new == [look EXCEPT !.marker = value]
<1>2. /\ new \in [audio : Post!Audio, marker : Post!Marker]
      /\ new.audio = look.audio /\ new.marker = value
  OBVIOUS
<1>3. CASE outcome = "failed"
  <2>1. shown' = [shown EXCEPT ![u] = look] /\ kept' = [kept EXCEPT ![u] = left]
    BY <1>3 DEF Post!Write
  <2>2. QED
    BY <1>1, <1>3, <2>1
<1>4. CASE outcome = "named"
  <2>1. /\ shown' = [shown EXCEPT ![u] = new]
        /\ kept' = [kept EXCEPT ![u] = [left EXCEPT !.marker = @ \union {value}]]
    BY <1>4 DEF Post!Write
  <2> HIDE DEF new
  <2>2. QED
    BY <1>1, <1>2, <1>4, <2>1
<1>5. CASE outcome = "synced"
  <2>1. /\ shown' = [shown EXCEPT ![u] = new]
        /\ kept' = [kept EXCEPT ![u] = [audio |-> {new.audio}, marker |-> {value}]]
    BY <1>5 DEF Post!Write
  <2> HIDE DEF new
  <2>2. QED
    BY <1>1, <1>2, <1>5, <2>1
<1>6. QED
  BY <1>3, <1>4, <1>5 DEF Post!Outcome

LEMMA MarkerEffect ==
    ASSUME UploadsInv, NEW u \in Uploads, NEW value \in Post!Marker,
           NEW outcome \in Post!Outcome,
           Post!WriteMarker(u, value, outcome)
    PROVE  /\ shown' \in [Uploads -> [audio : Post!Audio, marker : Post!Marker]]
           /\ kept' \in [Uploads -> [audio : SUBSET Post!Audio, marker : SUBSET Post!Marker]]
           /\ \A v \in Uploads \ {u} : shown'[v] = shown[v] /\ kept'[v] = kept[v]
           /\ shown'[u].audio = shown[u].audio
           /\ shown'[u].marker \in {shown[u].marker, value}
           /\ outcome = "failed" => shown'[u].marker = shown[u].marker /\ kept'[u] = kept[u]
           /\ outcome # "failed" => shown'[u].marker = value
           /\ shown'[u].audio \in kept'[u].audio
           /\ shown'[u].marker \in kept'[u].marker
           /\ kept'[u].audio \in {kept[u].audio, {shown[u].audio}}
           /\ kept'[u].marker \subseteq kept[u].marker \union {value}
           /\ outcome = "synced" => /\ kept'[u].audio = {shown[u].audio}
                                    /\ kept'[u].marker = {value}
<1>1. /\ shown[u] \in [audio : Post!Audio, marker : Post!Marker]
      /\ kept[u] \in [audio : SUBSET Post!Audio, marker : SUBSET Post!Marker]
      /\ shown[u].audio \in kept[u].audio /\ shown[u].marker \in kept[u].marker
  BY DEF UploadsInv, EntriesInv
<1>2. Post!Write(u, shown[u], kept[u], value, outcome)
  BY DEF Post!WriteMarker
<1>3. QED
  BY <1>1, <1>2, WriteEffect

LEMMA CommitKeeps ==
    ASSUME UploadsInv, NEW u \in Uploads, NEW outcome \in Post!Outcome,
           Post!Commit(u, outcome)
    PROVE  UploadsInv'
<1> DEFINE to == IF outcome = "synced" THEN "parent" ELSE "undo"
<1>1. /\ to \in Post!Places /\ Post!Goto(u, to) /\ pc[u] = "marker"
      /\ UNCHANGED <<answer, folder, due, aged, tick>>
      /\ Post!WriteMarker(u, "queued", outcome)
      /\ "queued" \in Post!Marker
      /\ to = "parent" => outcome = "synced"
  BY DEF Post!Commit, Post!clock, Post!Places, Post!Creating, Post!Marker
<1>2. to \in {"parent", "undo"} /\ to \notin Unmarked
  BY DEF Unmarked, Post!Staging
<1> HIDE DEF to
<1>3. /\ \A v \in Uploads \ {u} : shown'[v] = shown[v] /\ kept'[v] = kept[v]
      /\ shown' \in [Uploads -> [audio : Post!Audio, marker : Post!Marker]]
      /\ kept' \in [Uploads -> [audio : SUBSET Post!Audio, marker : SUBSET Post!Marker]]
      /\ shown'[u].audio \in kept'[u].audio /\ shown'[u].marker \in kept'[u].marker
      /\ shown'[u].marker \in {shown[u].marker, "queued"}
      /\ outcome = "synced" => /\ kept'[u].audio = {shown[u].audio}
                               /\ kept'[u].marker = {"queued"}
  BY <1>1, MarkerEffect
<1>4. pc' \in [Uploads -> Post!Places] /\ pc'[u] = to /\ Others(u)
  BY <1>1, <1>3, GotoEffect DEF Others
<1>5. /\ ~aged[u] /\ folder[u] = "present" /\ shown[u].audio = "whole"
      /\ answer[u] # "accepted"
      /\ tick # u /\ shown[u].marker = "none"
  BY <1>1, Same DEF UploadsInv, UploadInv, EntriesInv, Unmarked
<1>6. UploadInv(u)'
  BY <1>1, <1>2, <1>3, <1>4, <1>5 DEF UploadInv, Safe, Over
<1>7. QED
  BY <1>1, <1>3, <1>4, <1>6, FolderKeeps DEF UploadsInv, EntriesInv

LEMMA UndoKeeps ==
    ASSUME UploadsInv, NEW u \in Uploads, NEW outcome \in Post!Outcome,
           Post!Undo(u, outcome)
    PROVE  UploadsInv'
<1>1. /\ "failed" \in Post!Places /\ Post!Goto(u, "failed") /\ pc[u] = "undo"
      /\ UNCHANGED <<answer, folder, due, aged, tick>>
      /\ Post!WriteMarker(u, "none", outcome)
      /\ "none" \in Post!Marker /\ "failed" \notin Unmarked
  BY DEF Post!Undo, Post!clock, Post!Places, Post!Creating, Post!Marker, Unmarked, Post!Staging
<1>2. /\ \A v \in Uploads \ {u} : shown'[v] = shown[v] /\ kept'[v] = kept[v]
      /\ shown' \in [Uploads -> [audio : Post!Audio, marker : Post!Marker]]
      /\ kept' \in [Uploads -> [audio : SUBSET Post!Audio, marker : SUBSET Post!Marker]]
      /\ shown'[u].audio \in kept'[u].audio /\ shown'[u].marker \in kept'[u].marker
      /\ \/ shown'[u].marker = shown[u].marker /\ kept'[u] = kept[u]
         \/ shown'[u].marker = "none"
  BY <1>1, MarkerEffect
<1>3. pc' \in [Uploads -> Post!Places] /\ pc'[u] = "failed" /\ Others(u)
  BY <1>1, <1>2, GotoEffect DEF Others
<1>4. ~aged[u] /\ answer[u] # "accepted" /\ UploadInv(u)
  BY <1>1, Same DEF UploadsInv, UploadInv
<1>5. UploadInv(u)'
  BY <1>1, <1>2, <1>3, <1>4 DEF UploadInv
<1>6. QED
  BY <1>1, <1>2, <1>3, <1>5, FolderKeeps DEF UploadsInv, EntriesInv

(* The tick saves the record of a meeting whose folder is there.           *)
LEMMA StepSavesKeeps ==
    ASSUME UploadsInv, NEW u \in Uploads, NEW outcome \in Post!Outcome,
           Post!StepSaves(u, outcome)
    PROVE  UploadsInv'
<1>1. /\ tick = u /\ tick' = None
      /\ UNCHANGED <<pc, answer, folder, due, aged>>
      /\ Post!WriteMarker(u, "processing", outcome)
      /\ "processing" \in Post!Marker
  BY DEF Post!StepSaves, Post!clock, Post!Marker
<1>2. /\ \A v \in Uploads \ {u} : shown'[v] = shown[v] /\ kept'[v] = kept[v]
      /\ shown' \in [Uploads -> [audio : Post!Audio, marker : Post!Marker]]
      /\ kept' \in [Uploads -> [audio : SUBSET Post!Audio, marker : SUBSET Post!Marker]]
      /\ shown'[u].audio \in kept'[u].audio /\ shown'[u].marker \in kept'[u].marker
      /\ kept'[u].audio \in {kept[u].audio, {shown[u].audio}}
      /\ kept'[u].marker \subseteq kept[u].marker \union {"processing"}
      /\ shown'[u].marker \in {shown[u].marker, "processing"}
  BY <1>1, MarkerEffect
<1>3. /\ UploadInv(u) /\ pc[u] \notin Unmarked /\ shown[u].audio \in kept[u].audio
      /\ shown[u].marker \in {"queued", "none"} /\ shown[u].marker \in kept[u].marker
      /\ u # None
  BY <1>1 DEF UploadsInv, UploadInv, EntriesInv
<1>4. Safe(u) => Safe(u)'
  BY <1>1, <1>2, <1>3 DEF Safe, Over
<1>5. Others(u)
  BY <1>1, <1>2 DEF Others
<1>6. pc[u] \notin {"open", "audio", "marker"}
  BY <1>3 DEF Unmarked
<1>7. UploadInv(u)'
  BY <1>1, <1>2, <1>3, <1>4, <1>6 DEF UploadInv
<1>8. QED
  BY <1>1, <1>2, <1>5, <1>7, FolderKeeps DEF UploadsInv, EntriesInv

(* The record that says the result is there, durable when it is seen.      *)
LEMMA PublishKeeps ==
    ASSUME UploadsInv, NEW u \in Uploads, Post!Publish(u)
    PROVE  UploadsInv'
<1>1. /\ UNCHANGED <<pc, answer, folder, due, aged, tick>>
      /\ tick = None /\ pc[u] = "done" /\ folder[u] = "present"
      /\ Post!WriteMarker(u, "finished", "synced")
      /\ "finished" \in Post!Marker /\ "synced" \in Post!Outcome
  BY DEF Post!Publish, Post!clock, Post!Marker, Post!Outcome
<1>2. /\ \A v \in Uploads \ {u} : shown'[v] = shown[v] /\ kept'[v] = kept[v]
      /\ shown' \in [Uploads -> [audio : Post!Audio, marker : Post!Marker]]
      /\ kept' \in [Uploads -> [audio : SUBSET Post!Audio, marker : SUBSET Post!Marker]]
      /\ shown'[u].audio \in kept'[u].audio /\ shown'[u].marker \in kept'[u].marker
      /\ kept'[u].marker = {"finished"}
  BY <1>1, MarkerEffect
<1>3. UploadInv(u) /\ u # None /\ "done" \notin Unmarked
  BY DEF UploadsInv, Unmarked, Post!Staging
<1>4. Safe(u)'
  BY <1>1, <1>2 DEF Safe, Over
<1>5. Others(u)
  BY <1>1, <1>2 DEF Others
<1>6. UploadInv(u)'
  BY <1>1, <1>2, <1>3, <1>4 DEF UploadInv
<1>7. QED
  BY <1>1, <1>2, <1>5, <1>6, FolderKeeps DEF UploadsInv, EntriesInv

(* The recording goes when its deadline has passed or its result is there; *)
(* the record stays, in every version that may be left.                    *)
LEMMA RemoveAudioKeeps ==
    ASSUME UploadsInv, NEW u \in Uploads, NEW removed \in Post!Outcome,
           NEW outcome \in Post!Outcome,
           Post!Expire(u, removed, outcome) \/ Post!CleanUp(u, removed, outcome)
    PROVE  UploadsInv'
<1> DEFINE look == IF removed = "failed" THEN shown[u]
                   ELSE [shown[u] EXCEPT !.audio = "none"]
           left == CASE removed = "failed" -> kept[u]
                     [] removed = "named"  -> [kept[u] EXCEPT !.audio = @ \union {"none"}]
                     [] removed = "synced" -> [audio |-> {"none"},
                                               marker |-> {shown[u].marker}]
           value == IF removed = "synced" THEN "cleaned" ELSE shown[u].marker
<1>1. /\ UNCHANGED <<pc, answer, folder, due, aged, tick>>
      /\ tick = None /\ folder[u] = "present"
      /\ Post!Write(u, look, left, value, outcome)
      /\ shown[u].marker \in {"queued", "processing", "finished"}
      /\ due[u] \/ shown[u].marker = "finished"
  BY DEF Post!Expire, Post!CleanUp, Post!RemoveAudio, Post!clock
<1>2. /\ shown[u] \in [audio : Post!Audio, marker : Post!Marker]
      /\ kept[u] \in [audio : SUBSET Post!Audio, marker : SUBSET Post!Marker]
      /\ shown[u].audio \in kept[u].audio /\ shown[u].marker \in kept[u].marker
      /\ UploadInv(u) /\ u # None
  BY DEF UploadsInv, EntriesInv
<1>3. /\ look \in [audio : Post!Audio, marker : Post!Marker]
      /\ look.marker = shown[u].marker
  BY <1>2 DEF Post!Audio
<1>4. /\ left \in [audio : SUBSET Post!Audio, marker : SUBSET Post!Marker]
      /\ look.audio \in left.audio /\ look.marker \in left.marker
      /\ left.marker \subseteq kept[u].marker
  <2>1. CASE removed = "failed"
    BY <1>2, <2>1
  <2>2. CASE removed = "named"
    BY <1>2, <2>2 DEF Post!Audio
  <2>3. CASE removed = "synced"
    BY <1>2, <2>3 DEF Post!Audio
  <2>4. QED
    BY <2>1, <2>2, <2>3 DEF Post!Outcome
<1>5. value \in {shown[u].marker, "cleaned"} /\ value \in Post!Marker
  BY <1>2 DEF Post!Marker
<1> HIDE DEF look, left, value
<1>6. /\ \A v \in Uploads \ {u} : shown'[v] = shown[v] /\ kept'[v] = kept[v]
      /\ shown' \in [Uploads -> [audio : Post!Audio, marker : Post!Marker]]
      /\ kept' \in [Uploads -> [audio : SUBSET Post!Audio, marker : SUBSET Post!Marker]]
      /\ shown'[u].audio \in kept'[u].audio /\ shown'[u].marker \in kept'[u].marker
      /\ shown'[u].marker \in {look.marker, value}
      /\ kept'[u].marker \subseteq left.marker \union {value}
  BY <1>1, <1>3, <1>4, <1>5, WriteEffect
<1>7. /\ shown'[u].marker \in {shown[u].marker, "cleaned"}
      /\ kept'[u].marker \subseteq kept[u].marker \union {"cleaned"}
  BY <1>2, <1>3, <1>4, <1>5, <1>6
<1>8. pc[u] \notin Unmarked /\ pc[u] \notin {"open", "audio", "marker"}
  BY <1>1, <1>2 DEF UploadInv, Unmarked
<1>9. Safe(u) => Safe(u)'
  <2>1. "none" \notin kept[u].marker => "none" \notin kept'[u].marker
    BY <1>7
  <2>2. Over(u)'
    BY <1>1, <1>2, <1>7 DEF UploadInv, Over
  <2>3. QED
    BY <1>1, <2>1, <2>2 DEF Safe
<1>10. shown'[u].marker = "finished" =>
          kept'[u].marker \subseteq {"finished", "cleaned"}
  BY <1>2, <1>7 DEF UploadInv
<1>11. UploadInv(u)'
  BY <1>1, <1>2, <1>8, <1>9, <1>10 DEF UploadInv
<1>12. Others(u)
  BY <1>1, <1>6 DEF Others
<1>13. QED
  BY <1>1, <1>6, <1>11, <1>12, FolderKeeps DEF UploadsInv, EntriesInv

LEMMA TickKeeps ==
    ASSUME UploadsInv, NEW u \in Uploads, Post!StepReads(u) \/ Post!DayPasses(u)
    PROVE  UploadsInv'
<1>1. /\ UNCHANGED <<pc, answer, folder, shown, kept>>
      /\ \A v \in Uploads \ {u} : aged'[v] = aged[v]
      /\ aged' \in [Uploads -> BOOLEAN] /\ due' \in [Uploads -> BOOLEAN]
      /\ \A v \in Uploads \ {u} : due'[v] = due[v]
      /\ due[u] => due'[u]
      /\ tick' \in {tick, u}
      /\ aged'[u] = aged[u] \/ pc[u] = "done"
      /\ tick' = tick \/ shown[u].marker = "queued"
  BY DEF Post!StepReads, Post!DayPasses, Post!meeting, Post!clock, UploadsInv
<1>2. UploadInv(u) /\ shown[u].marker \in kept[u].marker
  BY DEF UploadsInv, EntriesInv
<1>3. UploadInv(u)'
  BY <1>1, <1>2 DEF UploadInv, Safe, Over
<1>4. Others(u)
  BY <1>1 DEF Others
<1>5. QED
  BY <1>1, <1>3, <1>4, FolderKeeps DEF UploadsInv, EntriesInv

(* The janitor only touches folders without a meeting.json that a request  *)
(* which is over has left.                                                 *)
LEMMA SweepFolderKeeps ==
    ASSUME UploadsInv, NEW u \in Uploads, NEW outcome, Post!SweepFolder(u, outcome)
    PROVE  UploadsInv'
<1>1. /\ shown[u].marker = "none" /\ aged[u]
      /\ UNCHANGED <<pc, answer, due, tick>>
  BY DEF Post!SweepFolder, Post!Abandoned
<1>2. /\ UploadInv(u) /\ shown[u].marker \in kept[u].marker
      /\ folder \in [Uploads -> Post!Name]
      /\ shown \in [Uploads -> [audio : Post!Audio, marker : Post!Marker]]
      /\ kept \in [Uploads -> [audio : SUBSET Post!Audio, marker : SUBSET Post!Marker]]
      /\ aged \in [Uploads -> BOOLEAN]
      /\ shown[u].audio \in kept[u].audio
  BY DEF UploadsInv, EntriesInv
<1>3. pc[u] = "done" /\ answer[u] # "accepted"
  BY <1>1, <1>2 DEF UploadInv, Safe, Over
<1>4. "done" \notin Unmarked
  BY DEF Unmarked, Post!Staging
<1>5. UploadInv(u)'
  <2>1. shown'[u].marker = "none"
    BY <1>1, <1>2 DEF Post!SweepFolder, Post!LoseAudio, Post!meeting
  <2>2. QED
    BY <1>1, <1>3, <1>4, <2>1 DEF UploadInv
<1>6. /\ tick' \in {tick, None, u} /\ pc' \in [Uploads -> Post!Places]
      /\ due' \in [Uploads -> BOOLEAN]
      /\ answer' = [v \in Uploads |-> answer'[v]]
  BY <1>1 DEF UploadsInv
<1>7. CASE UNCHANGED <<folder, shown, kept, aged>>
  <2>1. Others(u)
    BY <1>1, <1>7 DEF Others
  <2>2. QED
    BY <1>2, <1>5, <1>6, <1>7, <2>1, FolderKeeps
<1>8. CASE Post!LoseAudio(u)
  <2>1. /\ shown' = [shown EXCEPT ![u].audio = "none"]
        /\ kept' = [kept EXCEPT ![u].audio = @ \union {"none"}]
    BY <1>8 DEF Post!LoseAudio
  <2>2. /\ shown' \in [Uploads -> [audio : Post!Audio, marker : Post!Marker]]
        /\ kept' \in [Uploads -> [audio : SUBSET Post!Audio, marker : SUBSET Post!Marker]]
        /\ shown'[u].audio \in kept'[u].audio
        /\ shown'[u].marker \in kept'[u].marker
        /\ \A v \in Uploads \ {u} : shown'[v] = shown[v] /\ kept'[v] = kept[v]
    BY <1>2, <2>1 DEF Post!Audio
  <2>3. /\ folder' \in [Uploads -> Post!Name] /\ aged' \in [Uploads -> BOOLEAN]
        /\ \A v \in Uploads \ {u} : folder'[v] = folder[v] /\ aged'[v] = aged[v]
    BY <1>2 DEF Post!SweepFolder, Post!Name, Post!meeting
  <2>4. Others(u)
    BY <1>1, <2>2, <2>3 DEF Others
  <2>5. QED
    BY <1>5, <1>6, <2>2, <2>3, <2>4, FolderKeeps
<1>9. CASE /\ folder' = [folder EXCEPT ![u] = "absent"]
           /\ shown' = [shown EXCEPT ![u].audio = "none"]
           /\ kept' = [kept EXCEPT ![u] = [audio |-> {"none"}, marker |-> {"none"}]]
           /\ UNCHANGED aged
  <2>1. /\ folder' \in [Uploads -> Post!Name]
        /\ shown' \in [Uploads -> [audio : Post!Audio, marker : Post!Marker]]
        /\ kept' \in [Uploads -> [audio : SUBSET Post!Audio, marker : SUBSET Post!Marker]]
        /\ shown'[u].audio \in kept'[u].audio
        /\ shown'[u].marker \in kept'[u].marker
        /\ aged' \in [Uploads -> BOOLEAN]
        /\ \A v \in Uploads \ {u} :
              shown'[v] = shown[v] /\ kept'[v] = kept[v] /\ folder'[v] = folder[v]
    BY <1>1, <1>2, <1>9 DEF Post!Audio, Post!Marker, Post!Name
  <2>2. Others(u)
    BY <1>1, <1>9, <2>1 DEF Others
  <2>3. QED
    BY <1>5, <1>6, <2>1, <2>2, FolderKeeps
<1>10. QED
  BY <1>8, <1>9, <1>7 DEF Post!SweepFolder, Post!meeting

(* Requests that were under way are over, and nobody was told of them.     *)
LEMMA DieKeeps ==
    ASSUME UploadsInv, Post!Die,
           folder' \in [Uploads -> Post!Name],
           shown' \in [Uploads -> [audio : Post!Audio, marker : Post!Marker]],
           kept' \in [Uploads -> [audio : SUBSET Post!Audio, marker : SUBSET Post!Marker]],
           aged' = aged, due' = due,
           \A u \in Uploads : /\ shown'[u].audio \in kept'[u].audio
                              /\ shown'[u].marker \in kept'[u].marker
                              /\ kept'[u].audio \subseteq kept[u].audio
                              /\ kept'[u].marker \subseteq kept[u].marker
                              /\ folder[u] = "present" => folder'[u] = "present"
                              /\ shown'[u].marker = "finished" =>
                                    kept'[u].marker \subseteq {"finished", "cleaned"}
    PROVE  UploadsInv'
<1>1. /\ pc' \in [Uploads -> Post!Places]
      /\ \A u \in Uploads : pc'[u] = IF pc[u] = "new" THEN "new" ELSE "done"
  BY DEF Post!Die, UploadsInv, Post!Places
<1>2. /\ answer' = [u \in Uploads |-> answer'[u]]
      /\ \A u \in Uploads : answer'[u] = "accepted" => answer[u] = "accepted"
  BY DEF Post!Die
<1>3. EntriesInv'
  BY DEF EntriesInv
<1>4. ASSUME NEW u \in Uploads
      PROVE  UploadInv(u)'
  <2>1. UploadInv(u) /\ "done" \notin Unmarked /\ "new" \in Unmarked
    BY DEF UploadsInv, Unmarked, Post!Staging
  <2>2. Safe(u) => Safe(u)'
    <3>1. shown'[u].audio \in kept'[u].audio /\ kept'[u].audio \subseteq kept[u].audio
          /\ kept'[u].marker \subseteq kept[u].marker
          /\ (folder[u] = "present" => folder'[u] = "present")
      OBVIOUS
    <3>2. QED
      BY <3>1 DEF Safe, Over
  <2>3. tick' # u
    BY DEF UploadsInv, Post!Die
  <2>4. pc[u] = "new" => kept'[u].marker = {"none"}
    <3>1. shown'[u].marker \in kept'[u].marker
          /\ kept'[u].marker \subseteq kept[u].marker
      OBVIOUS
    <3>2. QED
      BY <2>1, <3>1 DEF UploadInv
  <2>5. QED
    BY <1>1, <1>2, <2>1, <2>2, <2>3, <2>4 DEF UploadInv
<1>5. QED
  BY <1>1, <1>2, <1>3, <1>4 DEF UploadsInv

LEMMA PowerLossKeeps == UploadsInv /\ Post!PowerLoss => UploadsInv'
<1> SUFFICES ASSUME UploadsInv, Post!PowerLoss
             PROVE  UploadsInv'
  OBVIOUS
<1>1. /\ Post!Die /\ aged' = aged /\ due' = due
      /\ shown' \in [Uploads -> [audio : Post!Audio, marker : Post!Marker]]
      /\ \A u \in Uploads : /\ shown'[u].audio \in kept[u].audio
                            /\ shown'[u].marker \in kept[u].marker
      /\ kept' = [u \in Uploads |-> [audio |-> {shown'[u].audio},
                                     marker |-> {shown'[u].marker}]]
  BY DEF Post!PowerLoss, Post!clock
<1>2. PICK back \in SUBSET { u \in Uploads : folder[u] = "unlinked" } :
         folder' = [u \in Uploads |-> IF u \in back THEN "present" ELSE Post!Sync(folder)[u]]
  BY DEF Post!PowerLoss
<1>3. DOMAIN folder = Uploads /\ folder \in [Uploads -> Post!Name]
  BY DEF UploadsInv, EntriesInv
<1>4. \A u \in Uploads : Post!Sync(folder)[u] =
         IF folder[u] = "unlinked" THEN "absent" ELSE folder[u]
  BY <1>3 DEF Post!Sync
<1>5. /\ folder' \in [Uploads -> Post!Name]
      /\ \A u \in Uploads : folder[u] = "present" => folder'[u] = "present"
  BY <1>2, <1>3, <1>4 DEF Post!Name
<1>6. kept' \in [Uploads -> [audio : SUBSET Post!Audio, marker : SUBSET Post!Marker]]
  BY <1>1
<1>7. ASSUME NEW u \in Uploads
      PROVE  /\ shown'[u].audio \in kept'[u].audio
             /\ shown'[u].marker \in kept'[u].marker
             /\ kept'[u].audio \subseteq kept[u].audio
             /\ kept'[u].marker \subseteq kept[u].marker
             /\ shown'[u].marker = "finished" =>
                   kept'[u].marker \subseteq {"finished", "cleaned"}
  BY <1>1
<1>8. QED
  BY <1>1, <1>5, <1>6, <1>7, DieKeeps

LEMMA UploadsNext == UploadsInv /\ [Post!Next]_Post!vars => UploadsInv'
<1> SUFFICES ASSUME UploadsInv, [Post!Next]_Post!vars
             PROVE  UploadsInv'
  OBVIOUS
<1>1. ASSUME NEW u \in Uploads, Post!Request(u)
      PROVE  UploadsInv'
  <2>1. CASE \/ Post!Parse(u) \/ Post!Check(u) \/ Post!Continue(u) \/ Post!Open(u)
             \/ \E ok \in BOOLEAN :
                   \/ Post!Convert(u, ok) \/ Post!Swap(u, ok) \/ Post!SyncParent(u, ok)
                   \/ Post!Answer(u, ok)
                   \/ \E removed \in SUBSET Post!Stale, synced \in BOOLEAN :
                         \/ Post!ReserveSource(u, removed, synced, ok)
                         \/ Post!ReserveTarget(u, removed, synced, ok)
             \/ \E removed \in SUBSET {Post!Source(u), Post!Target(u)} :
                   Post!Discard(u, removed)
    BY <2>1, StagingKeeps
  <2>2. CASE \E ok \in BOOLEAN : Post!CopyAudio(u, ok) \/ Post!Cancel(u, ok)
    BY <2>2, CopyAudioKeeps, CancelKeeps
  <2>3. CASE \E outcome \in Post!Outcome :
                \/ Post!MakeFolder(u, outcome) \/ Post!Commit(u, outcome)
                \/ Post!Undo(u, outcome)
    BY <2>3, MakeFolderKeeps, CommitKeeps, UndoKeeps
  <2>4. QED
    BY <1>1, <2>1, <2>2, <2>3 DEF Post!Request
<1>2. CASE Post!Sweep
  <2>1. ASSUME NEW removed, NEW synced, Post!SweepStaging(removed, synced)
        PROVE  UploadsInv'
    <3>1. UNCHANGED <<pc, answer, folder, shown, kept, due, aged, tick>>
      BY <2>1 DEF Post!SweepStaging, Post!meeting, Post!clock
    <3>2. QED
      BY <3>1 DEF UploadsInv, EntriesInv, UploadInv, Safe, Over
  <2>2. QED
    BY <1>2, <2>1, SweepFolderKeeps, RemoveAudioKeeps DEF Post!Sweep
<1>3. CASE Post!Save
  BY <1>3, StepSavesKeeps DEF Post!Save
<1>4. ASSUME NEW u \in Uploads,
             \/ Post!StepReads(u) \/ Post!Publish(u) \/ Post!DayPasses(u)
             \/ \E removed, outcome \in Post!Outcome : Post!CleanUp(u, removed, outcome)
      PROVE  UploadsInv'
  BY <1>4, TickKeeps, PublishKeeps, RemoveAudioKeeps
<1>5. CASE Post!Crash
  <2>1. Post!Die /\ UNCHANGED <<folder, shown, kept, due, aged>>
    BY <1>5 DEF Post!Crash, Post!meeting, Post!clock
  <2>2. QED
    BY <2>1, DieKeeps DEF UploadsInv, UploadInv, EntriesInv
<1>6. CASE Post!PowerLoss
  BY <1>6, PowerLossKeeps
<1>7. CASE UNCHANGED Post!vars
  BY <1>7 DEF Post!vars, UploadsInv, EntriesInv, UploadInv, Safe, Over
<1>8. QED
  BY <1>1, <1>2, <1>3, <1>4, <1>5, <1>6, <1>7 DEF Post!Next

(* What create_meeting has made durable at each of its places stays so.    *)
THEOREM UploadsInvariance ==
    ASSUME None \notin Uploads
    PROVE  Post!Spec => []UploadsInv
BY UploadsInit, UploadsNext, PTL DEF Post!Spec

(* A meeting that POST has answered with 202 keeps its record, and its     *)
(* recording until the deadline has passed or its result is published,     *)
(* whatever fails, dies or loses power afterwards.                         *)
THEOREM AcceptedStays ==
    ASSUME None \notin Uploads
    PROVE  Post!Spec => []AcceptedIsKept
<1>1. UploadsInv => AcceptedIsKept
  BY DEF UploadsInv, UploadInv, Safe, Over, AcceptedIsKept
<1>2. QED
  BY <1>1, UploadsInvariance, PTL

=============================================================================
