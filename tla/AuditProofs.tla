----------------------------- MODULE AuditProofs -----------------------------
(***************************************************************************)
(* For any appends, repairs, rows without a hash, retention and runs of    *)
(* createAnchor: an undisturbed log verifies, an undisturbed repair mends  *)
(* whatever log it found, and no anchor leaves out a row that was in time. *)
(***************************************************************************)
EXTENDS AuditAnchor, FiniteSetTheorems, SequenceTheorems, TLAPS

(* Induction, as a statement about sets.                                   *)
LEMMA NatSet ==
    ASSUME NEW T \in SUBSET Nat, 0 \in T, \A n \in T : n + 1 \in T
    PROVE  T = Nat
<1>. DEFINE R == StrictSubsetOrdering(Nat)
            F == FiniteSubsetsOf(Nat)
            U == Nat \ T
            V == {1..n : n \in U}
<1>. SUFFICES ASSUME U # {} PROVE FALSE
  OBVIOUS
<1>1. IsWellFoundedOn(R, F)
  BY FS_StrictSubsetOrderingWellFounded
<1>2. V \subseteq F /\ V # {}
  <2>1. ASSUME NEW n \in Nat PROVE 1..n \in F
    BY FS_Interval DEF FiniteSubsetsOf
  <2>. QED
    BY <2>1
<1>3. PICK v \in V : \A w \in V : ~(<<w, v>> \in R)
  <2>. HIDE DEF R, F, V
  <2>. QED
    BY <1>1, <1>2, WFMin
<1>4. PICK x \in U : v = 1..x
  OBVIOUS
<1>5. x \in Nat /\ x # 0 /\ x - 1 \in Nat
  OBVIOUS
<1>6. <<1..(x - 1), v>> \in R
  BY <1>4, <1>5 DEF StrictSubsetOrdering
<1>7. x - 1 \notin U
  BY <1>3, <1>6
<1>. QED
  BY <1>5, <1>7
-----------------------------------------------------------------------------
(* Kept(s, places) runs through the places in order.                       *)
UpTo(places, i) == {j \in places : j <= i}

LEMMA PlacesAreFinite ==
    ASSUME NEW N \in Nat, NEW I \in SUBSET (1..N)
    PROVE  /\ IsFiniteSet(I) /\ Cardinality(I) \in Nat
           /\ \A i : /\ IsFiniteSet(UpTo(I, i))
                     /\ Cardinality(UpTo(I, i)) \in Nat
                     /\ Cardinality(UpTo(I, i)) <= Cardinality(I)
<1>1. IsFiniteSet(1..N)
  BY FS_Interval
<1>2. IsFiniteSet(I)
  BY <1>1, FS_Subset
<1>3. ASSUME NEW i
      PROVE  /\ IsFiniteSet(UpTo(I, i))
             /\ Cardinality(UpTo(I, i)) <= Cardinality(I)
  <2>1. UpTo(I, i) \in SUBSET I
    BY DEF UpTo
  <2> QED BY <1>2, <2>1, FS_Subset
<1> QED BY <1>2, <1>3, FS_CardinalityType

LEMMA SomeNth ==
    ASSUME NEW N \in Nat, NEW I \in SUBSET (1..N), NEW n \in 1..Cardinality(I)
    PROVE  \E i \in I : Cardinality(UpTo(I, i)) = n
<1> DEFINE T == {M \in Nat : \A J \in SUBSET (1..M) : \A m \in 1..Cardinality(J) :
                                \E i \in J : Cardinality(UpTo(J, i)) = m}
<1>1. 0 \in T
  <2>1. 1..0 = {}
    OBVIOUS
  <2> QED BY <2>1, FS_EmptySet
<1>2. ASSUME NEW M \in T PROVE M + 1 \in T
  <2>1. M \in Nat
    OBVIOUS
  <2> SUFFICES ASSUME NEW J \in SUBSET (1..(M + 1)), NEW m \in 1..Cardinality(J)
               PROVE  \E i \in J : Cardinality(UpTo(J, i)) = m
    BY <2>1
  <2> DEFINE K == J \ {M + 1}
  <2>2. K \in SUBSET (1..M)
    BY <2>1
  <2>3. /\ IsFiniteSet(J) /\ IsFiniteSet(K)
        /\ Cardinality(J) \in Nat /\ Cardinality(K) \in Nat
    <3>1. PICK Q \in Nat : Q = M + 1
      BY <2>1
    <3>2. J \in SUBSET (1..Q)
      BY <3>1
    <3>3. IsFiniteSet(J) /\ Cardinality(J) \in Nat
      BY <3>2, PlacesAreFinite
    <3>4. IsFiniteSet(K) /\ Cardinality(K) \in Nat
      BY <2>1, <2>2, PlacesAreFinite
    <3> QED BY <3>3, <3>4
  <2>4. \A i \in K : UpTo(J, i) = UpTo(K, i)
    BY <2>1, <2>2 DEF UpTo
  <2>5. \A l \in 1..Cardinality(K) : \E i \in K : Cardinality(UpTo(K, i)) = l
    BY <2>2
  <2>6. CASE M + 1 \notin J
    <3>1. K = J
      BY <2>6
    <3> QED BY <2>5, <3>1
  <2>7. CASE M + 1 \in J
    <3>1. Cardinality(J) = Cardinality(K) + 1
      <4>1. Cardinality(K) = Cardinality(J) - 1
        BY <2>3, <2>7, FS_RemoveElement
      <4> QED BY <2>3, <4>1
    <3>2. UpTo(J, M + 1) = J
      <4>1. \A j \in J : j <= M + 1
        BY <2>1
      <4> QED BY <4>1 DEF UpTo
    <3>3. CASE m = Cardinality(J)
      BY <2>7, <3>2, <3>3
    <3>4. CASE m # Cardinality(J)
      <4>1. m \in 1..Cardinality(K)
        BY <2>3, <3>1, <3>4
      <4>2. PICK i \in K : Cardinality(UpTo(K, i)) = m
        BY <2>5, <4>1
      <4> QED BY <2>4, <4>2
    <3> QED BY <3>3, <3>4
  <2> QED BY <2>6, <2>7
<1>3. T = Nat
  <2>1. T \in SUBSET Nat
    OBVIOUS
  <2> HIDE DEF T
  <2> QED BY <1>1, <1>2, <2>1, NatSet
<1>4. N \in T
  BY <1>3
<1> QED BY <1>4

(* Later places have more places up to them.                               *)
LEMMA MorePlaces ==
    ASSUME NEW N \in Nat, NEW I \in SUBSET (1..N), NEW i \in I, NEW k \in I, i < k
    PROVE  Cardinality(UpTo(I, i)) < Cardinality(UpTo(I, k))
<1>1. UpTo(I, i) \in SUBSET UpTo(I, k) /\ k \in UpTo(I, k) /\ k \notin UpTo(I, i)
  <2>1. \A j \in I : j \in Int
    OBVIOUS
  <2>2. \A j \in I : j <= i => j <= k
    BY <2>1
  <2>3. k <= k /\ ~(k <= i)
    BY <2>1
  <2> QED BY <2>2, <2>3 DEF UpTo
<1>2. /\ IsFiniteSet(UpTo(I, k)) /\ Cardinality(UpTo(I, k)) \in Nat
      /\ Cardinality(UpTo(I, i)) \in Nat
  BY PlacesAreFinite
<1>3. /\ Cardinality(UpTo(I, i)) <= Cardinality(UpTo(I, k))
      /\ Cardinality(UpTo(I, i)) # Cardinality(UpTo(I, k))
  BY <1>1, <1>2, FS_Subset
<1> QED BY <1>2, <1>3

LEMMA NthPlace ==
    ASSUME NEW N \in Nat, NEW I \in SUBSET (1..N)
    PROVE  /\ Cardinality(I) \in Nat
           /\ \A n \in 1..Cardinality(I) : Nth(I, n) \in I
           /\ \A n, m \in 1..Cardinality(I) : n < m => Nth(I, n) < Nth(I, m)
           /\ \A i \in I : \E n \in 1..Cardinality(I) : Nth(I, n) = i
<1>0. Cardinality(I) \in Nat
  BY PlacesAreFinite
<1>1. \A n \in 1..Cardinality(I) :
         Nth(I, n) \in I /\ Cardinality(UpTo(I, Nth(I, n))) = n
  <2> SUFFICES ASSUME NEW n \in 1..Cardinality(I)
               PROVE  Nth(I, n) \in I /\ Cardinality(UpTo(I, Nth(I, n))) = n
    OBVIOUS
  <2>1. \E i \in I : Cardinality(UpTo(I, i)) = n
    BY SomeNth
  <2>2. Nth(I, n) = CHOOSE i \in I : Cardinality(UpTo(I, i)) = n
    BY DEF Nth, UpTo
  <2> QED BY <2>1, <2>2
<1>2. ASSUME NEW n \in 1..Cardinality(I), NEW m \in 1..Cardinality(I), n < m
      PROVE  Nth(I, n) < Nth(I, m)
  <2>1. PICK i \in I, k \in I : /\ i = Nth(I, n) /\ k = Nth(I, m)
                                /\ Cardinality(UpTo(I, i)) = n
                                /\ Cardinality(UpTo(I, k)) = m
    BY <1>1
  <2>2. i # k
    BY <1>0, <1>2, <2>1
  <2>3. ~(k < i)
    <3>1. k < i => Cardinality(UpTo(I, k)) < Cardinality(UpTo(I, i))
      BY MorePlaces
    <3> QED BY <1>0, <1>2, <2>1, <3>1
  <2> QED BY <2>1, <2>2, <2>3
<1>3. ASSUME NEW i \in I
      PROVE  \E n \in 1..Cardinality(I) : Nth(I, n) = i
  <2>1. PICK n : n = Cardinality(UpTo(I, i))
    OBVIOUS
  <2>2. n \in 1..Cardinality(I)
    <3>1. n \in Nat /\ n <= Cardinality(I) /\ IsFiniteSet(UpTo(I, i))
      BY <2>1, PlacesAreFinite
    <3>2. i \in UpTo(I, i)
      BY DEF UpTo
    <3>3. n # 0
      BY <2>1, <3>1, <3>2, FS_EmptySet
    <3> QED BY <1>0, <3>1, <3>3
  <2>3. PICK k \in I : k = Nth(I, n) /\ Cardinality(UpTo(I, k)) = n
    BY <1>1, <2>2
  <2>4. ~(k < i)
    <3>1. k < i => Cardinality(UpTo(I, k)) < Cardinality(UpTo(I, i))
      BY MorePlaces
    <3> QED BY <1>0, <2>1, <2>2, <2>3, <3>1
  <2>5. ~(i < k)
    <3>1. i < k => Cardinality(UpTo(I, i)) < Cardinality(UpTo(I, k))
      BY MorePlaces
    <3> QED BY <1>0, <2>1, <2>2, <2>3, <3>1
  <2> QED BY <2>2, <2>3, <2>4, <2>5
<1> QED BY <1>0, <1>1, <1>2, <1>3

(* What is kept of a sequence: the elements at the places, in their order. *)
LEMMA KeptIs ==
    ASSUME NEW S, NEW s \in Seq(S), NEW I \in SUBSET (1..Len(s)),
           NEW kept, kept = Kept(s, I)
    PROVE  /\ kept \in Seq(S)
           /\ \E at \in [1..Len(kept) -> I] :
                 /\ \A n, m \in 1..Len(kept) : n < m => at[n] < at[m]
                 /\ \A i \in I : \E n \in 1..Len(kept) : at[n] = i
                 /\ \A n \in 1..Len(kept) : kept[n] = s[at[n]]
<1> DEFINE c == Cardinality(I)
           at == [n \in 1..c |-> Nth(I, n)]
<1>0. Len(s) \in Nat
  OBVIOUS
<1>1. /\ c \in Nat
      /\ \A n \in 1..c : Nth(I, n) \in I
      /\ \A n, m \in 1..c : n < m => Nth(I, n) < Nth(I, m)
      /\ \A i \in I : \E n \in 1..c : Nth(I, n) = i
  BY <1>0, NthPlace
<1>2. kept = [n \in 1..c |-> s[Nth(I, n)]]
  BY DEF Kept
<1> HIDE DEF c
<1>3. \A n \in 1..c : s[Nth(I, n)] \in S
  <2>1. \A i \in 1..Len(s) : s[i] \in S
    OBVIOUS
  <2> QED BY <1>1, <2>1
<1>4. kept \in Seq(S) /\ Len(kept) = c
  BY <1>1, <1>2, <1>3
<1>5. /\ at \in [1..c -> I]
      /\ \A n, m \in 1..c : n < m => at[n] < at[m]
      /\ \A i \in I : \E n \in 1..c : at[n] = i
      /\ \A n \in 1..c : kept[n] = s[at[n]]
  BY <1>1, <1>2
<1> HIDE DEF at
<1> QED BY <1>4, <1>5
-----------------------------------------------------------------------------
(* Every row, in the log, in a plan or in the hands of a request, is one   *)
(* that arrived once, under one time.                                      *)
HasArrived(id) == \E n \in DOMAIN arrived : arrived[n].id = id
Arrived(id, at) == \E n \in DOMAIN arrived : arrived[n].id = id /\ arrived[n].at = at

Arrivals == [id : Ids, at : 1..MaxTime]
Minds == [prev : Hashes, at : 0..MaxTime, plan : Seq(Rows)]

Ordered(s) ==
    \A i, k \in DOMAIN s : i < k => s[i].at <= s[k].at /\ s[i].id # s[k].id

PlaceOK(r, place, m) ==
    /\ place # "done" => ~HasArrived(r)
    /\ place = "insert" => m.at \in 1..now
    /\ place = "repairing" => m.plan # <<>>
    /\ \A k \in DOMAIN m.plan : Arrived(m.plan[k].id, m.plan[k].at)

ArrivedOnce ==
    \A n, m \in DOMAIN arrived : arrived[n].id = arrived[m].id => n = m

CInv ==
    /\ ChainTypeOK
    /\ ArrivedOnce
    /\ \A n \in DOMAIN arrived : arrived[n].at <= now
    /\ \A i \in DOMAIN log : Arrived(log[i].id, log[i].at)
    /\ \A r \in Requests : PlaceOK(r, pc[r], mine[r])
-----------------------------------------------------------------------------
LEMMA TypesOf ==
    ASSUME CInv
    PROVE  /\ now \in 1..MaxTime /\ now \in Nat /\ log \in Seq(Rows)
           /\ arrived \in Seq(Arrivals)
           /\ pc \in [Requests -> InFlight \cup {"read", "repair", "done"}]
           /\ mine \in [Requests -> Minds] /\ quiet \in BOOLEAN
           /\ Ordered(log) /\ Genesis \in Hashes
           /\ Nothing \in Minds /\ Nothing.plan = <<>> /\ Nothing.at = 0
<1>1. Genesis \in Hashes /\ <<>> \in Seq(Rows)
  BY DEF Genesis, Hashes
<1>2. Nothing \in Minds /\ Nothing.plan = <<>> /\ Nothing.at = 0
  BY <1>1, ChainNumbers DEF Nothing, Mine, Minds
<1>3. now \in 1..MaxTime /\ now \in Nat
  BY ChainNumbers DEF CInv, ChainTypeOK
<1> QED BY <1>1, <1>2, <1>3 DEF CInv, ChainTypeOK, Ordered, Minds, Arrivals

LEMMA TypesBack ==
    ASSUME now \in 1..MaxTime, log \in Seq(Rows), arrived \in Seq(Arrivals),
           pc \in [Requests -> InFlight \cup {"read", "repair", "done"}],
           mine \in [Requests -> Minds], quiet \in BOOLEAN, Ordered(log)
    PROVE  ChainTypeOK
BY DEF ChainTypeOK, Ordered, Minds, Arrivals

(* A step of a request that leaves the log alone.                          *)
LEMMA RequestMoves ==
    ASSUME CInv, NEW r \in Requests, UNCHANGED <<now, log, arrived>>,
           quiet' \in BOOLEAN,
           NEW place \in InFlight \cup {"read", "repair", "done"},
           NEW m \in Minds,
           pc' = [pc EXCEPT ![r] = place], mine' = [mine EXCEPT ![r] = m],
           PlaceOK(r, place, m)
    PROVE  CInv'
<1>1. ChainTypeOK'
  BY TypesOf, TypesBack DEF Ordered, CInv, ChainTypeOK, Minds
<1>2. ASSUME NEW q \in Requests PROVE PlaceOK(q, pc[q], mine[q])'
  <2>1. CASE q = r
    <3>1. pc'[q] = place /\ mine'[q] = m
      BY <2>1, TypesOf
    <3> QED BY <2>1, <3>1 DEF PlaceOK, HasArrived, Arrived
  <2>2. CASE q # r
    <3>1. pc'[q] = pc[q] /\ mine'[q] = mine[q]
      BY <2>2, TypesOf
    <3>2. PlaceOK(q, pc[q], mine[q])
      BY DEF CInv
    <3> QED BY <3>1, <3>2 DEF PlaceOK, HasArrived, Arrived
  <2> QED BY <2>1, <2>2
<1> QED BY <1>1, <1>2 DEF CInv, ArrivedOnce, Arrived

LEMMA LatestHashIs ==
    ASSUME CInv, NEW hash \in LatestHashes
    PROVE  /\ hash \in Hashes
           /\ \/ log = <<>> /\ hash = Genesis
              \/ \E k \in DOMAIN log :
                    hash = log[k].hash /\ \A j \in DOMAIN log : log[j].at <= log[k].at
<1>1. \A i \in DOMAIN log : log[i].hash \in Hashes
  <2>1. \A x \in Rows : x.hash \in Hashes
    BY DEF Rows
  <2> QED BY <2>1, TypesOf
<1>2. CASE log = <<>>
  BY <1>2, TypesOf DEF LatestHashes
<1>3. CASE log # <<>>
  BY <1>1, <1>3 DEF LatestHashes
<1> QED BY <1>2, <1>3

LEMMA ReadKeeps ==
    ASSUME CInv, NEW r \in Requests, Read(r) PROVE CInv'
<1>1. PICK hash \in LatestHashes : mine' = [mine EXCEPT ![r] = Mine(hash, 0, <<>>)]
  BY DEF Read
<1>2. hash \in Hashes /\ <<>> \in Seq(Rows) /\ 0 \in 0..MaxTime
  BY LatestHashIs, ChainNumbers
<1>3. PICK m \in Minds : m = Mine(hash, 0, <<>>)
  BY <1>2 DEF Mine, Minds
<1>4. m.plan = <<>>
  BY <1>3 DEF Mine
<1>5. ~HasArrived(r)
  BY DEF Read, CInv, PlaceOK
<1>6. PlaceOK(r, "stamp", m)
  BY <1>4, <1>5 DEF PlaceOK
<1>7. /\ pc' = [pc EXCEPT ![r] = "stamp"] /\ mine' = [mine EXCEPT ![r] = m]
      /\ UNCHANGED <<now, log, arrived>> /\ quiet' \in BOOLEAN
      /\ "stamp" \in InFlight \cup {"read", "repair", "done"}
  BY <1>1, <1>3, TypesOf DEF Read, Goto, Alone, InFlight
<1> QED BY <1>6, <1>7, RequestMoves

LEMMA StampKeeps ==
    ASSUME CInv, NEW r \in Requests, Stamp(r) PROVE CInv'
<1>1. mine[r] \in Minds /\ mine[r].prev \in Hashes
  BY TypesOf DEF Minds
<1>2. now \in 0..MaxTime /\ now \in 1..now /\ <<>> \in Seq(Rows)
  BY TypesOf, ChainNumbers
<1>3. PICK m \in Minds : m = Mine(mine[r].prev, now, <<>>)
  BY <1>1, <1>2 DEF Mine, Minds
<1>4. m.plan = <<>> /\ m.at = now
  BY <1>3 DEF Mine
<1>5. ~HasArrived(r)
  BY DEF Stamp, CInv, PlaceOK
<1>6. PlaceOK(r, "insert", m)
  BY <1>2, <1>4, <1>5 DEF PlaceOK
<1>7. /\ pc' = [pc EXCEPT ![r] = "insert"] /\ mine' = [mine EXCEPT ![r] = m]
      /\ UNCHANGED <<now, log, arrived>> /\ quiet' \in BOOLEAN
      /\ "insert" \in InFlight \cup {"read", "repair", "done"}
  BY <1>3, TypesOf DEF Stamp, Goto, InFlight
<1> QED BY <1>6, <1>7, RequestMoves

LEMMA FailKeeps ==
    ASSUME CInv, NEW r \in Requests, Leave(r, "done"),
           UNCHANGED <<now, log, arrived>>, quiet' \in BOOLEAN
    PROVE  CInv'
<1>1. PlaceOK(r, "done", Nothing)
  BY TypesOf DEF PlaceOK
<1>2. "done" \in InFlight \cup {"read", "repair", "done"}
  OBVIOUS
<1>3. pc' = [pc EXCEPT ![r] = "done"] /\ mine' = [mine EXCEPT ![r] = Nothing]
  BY DEF Leave, Goto
<1> QED BY <1>1, <1>2, <1>3, TypesOf, RequestMoves
-----------------------------------------------------------------------------
(* A row that is inserted takes a place among the rows as they stand.      *)
Enters(entries, row, new, k) ==
    /\ Len(new) = Len(entries) + 1
    /\ \A i \in 1..k : new[i] = entries[i]
    /\ new[k + 1] = row
    /\ \A i \in (k + 1)..Len(entries) : new[i + 1] = entries[i]

LEMMA InsertedIs ==
    ASSUME NEW S, log \in Seq(S), NEW row \in S, NEW new \in Inserted(row)
    PROVE  /\ new \in Seq(S)
           /\ \E k \in 0..Len(log) :
                 /\ Enters(log, row, new, k)
                 /\ \A i \in 1..k : log[i].at <= row.at
                 /\ \A i \in (k + 1)..Len(log) : log[i].at >= row.at
<1>1. PICK k \in 0..Len(log) :
        /\ new = SubSeq(log, 1, k) \o <<row>> \o SubSeq(log, k + 1, Len(log))
        /\ \A i \in 1..k : log[i].at <= row.at
        /\ \A i \in k + 1..Len(log) : log[i].at >= row.at
  BY DEF Inserted
<1>2. PICK n \in Nat : n = Len(log)
  OBVIOUS
<1>3. PICK left, right, mid : /\ left = SubSeq(log, 1, k)
                              /\ right = SubSeq(log, k + 1, n)
                              /\ mid = <<row>>
  OBVIOUS
<1>4. \A i \in 1..n : log[i] \in S
  BY <1>2
<1>5. k \in Int /\ 0 <= k /\ k <= n
  BY <1>2
<1>6. /\ left \in Seq(S) /\ Len(left) = k
      /\ \A i \in 1..k : left[i] = log[i]
  <2>1. \A i \in 1..k : log[i] \in S
    BY <1>4, <1>5
  <2>2. /\ left \in Seq(S) /\ Len(left) = IF 1 <= k THEN k - 1 + 1 ELSE 0
        /\ \A i \in 1..k - 1 + 1 : left[i] = log[1 + i - 1]
    BY <1>3, <1>5, <2>1, SubSeqProperties
  <2>3. Len(left) = k
    BY <1>5, <2>2
  <2>4. \A i \in 1..k : i \in 1..k - 1 + 1 /\ 1 + i - 1 = i
    BY <1>5
  <2> QED BY <2>2, <2>3, <2>4
<1>7. /\ right \in Seq(S) /\ Len(right) = n - k
      /\ \A i \in 1..(n - k) : right[i] = log[k + i]
  <2>1. \A i \in (k + 1)..n : log[i] \in S
    BY <1>4, <1>5
  <2>2. /\ right \in Seq(S)
        /\ Len(right) = IF k + 1 <= n THEN n - (k + 1) + 1 ELSE 0
        /\ \A i \in 1..n - (k + 1) + 1 : right[i] = log[(k + 1) + i - 1]
    BY <1>2, <1>3, <1>5, <2>1, SubSeqProperties
  <2>3. Len(right) = n - k
    BY <1>2, <1>5, <2>2
  <2>4. \A i \in 1..(n - k) : i \in 1..n - (k + 1) + 1 /\ (k + 1) + i - 1 = k + i
    BY <1>2, <1>5
  <2> QED BY <2>2, <2>3, <2>4
<1>8. mid \in Seq(S) /\ Len(mid) = 1 /\ mid[1] = row
  BY <1>3
<1>9. PICK front : front = left \o mid
  OBVIOUS
<1>10. /\ front \in Seq(S) /\ Len(front) = k + 1
       /\ \A i \in 1..k : front[i] = log[i]
       /\ front[k + 1] = row
  <2>1. /\ front \in Seq(S) /\ Len(front) = Len(left) + Len(mid)
        /\ \A i \in 1..Len(left) + Len(mid) :
              front[i] = IF i <= Len(left) THEN left[i] ELSE mid[i - Len(left)]
    BY <1>6, <1>8, <1>9, ConcatProperties
  <2>2. Len(front) = k + 1
    BY <1>6, <1>8, <2>1
  <2>3. \A i \in 1..k : front[i] = log[i]
    <3>1. \A i \in 1..k : i \in 1..Len(left) + Len(mid) /\ i <= Len(left)
      BY <1>5, <1>6, <1>8
    <3> QED BY <1>6, <2>1, <3>1
  <2>4. front[k + 1] = row
    <3>1. /\ k + 1 \in 1..Len(left) + Len(mid) /\ ~(k + 1 <= Len(left))
          /\ k + 1 - Len(left) = 1
      BY <1>5, <1>6, <1>8
    <3> QED BY <1>8, <2>1, <3>1
  <2> QED BY <2>1, <2>2, <2>3, <2>4
<1>11. /\ new \in Seq(S) /\ Len(new) = n + 1
       /\ \A i \in 1..(k + 1) : new[i] = front[i]
       /\ \A i \in (k + 1)..n : new[i + 1] = log[i]
  <2>1. new = front \o right
    BY <1>1, <1>2, <1>3, <1>9
  <2>2. /\ new \in Seq(S) /\ Len(new) = Len(front) + Len(right)
        /\ \A i \in 1..Len(front) + Len(right) :
              new[i] = IF i <= Len(front) THEN front[i] ELSE right[i - Len(front)]
    BY <1>7, <1>10, <2>1, ConcatProperties
  <2>3. Len(new) = n + 1
    BY <1>2, <1>5, <1>7, <1>10, <2>2
  <2>4. \A i \in 1..(k + 1) : new[i] = front[i]
    <3>1. \A i \in 1..(k + 1) : i \in 1..Len(front) + Len(right) /\ i <= Len(front)
      BY <1>2, <1>5, <1>7, <1>10
    <3> QED BY <2>2, <3>1
  <2>5. ASSUME NEW i \in (k + 1)..n PROVE new[i + 1] = log[i]
    <3>1. PICK j \in 1..(n - k) : i = k + j
      <4>1. i - k \in 1..(n - k) /\ i = k + (i - k)
        BY <1>2, <1>5
      <4> QED BY <4>1
    <3>2. /\ i + 1 \in 1..Len(front) + Len(right) /\ ~(i + 1 <= Len(front))
          /\ i + 1 - Len(front) = j
      BY <1>2, <1>5, <1>7, <1>10, <3>1
    <3>3. new[i + 1] = right[j]
      BY <2>2, <3>2
    <3> QED BY <1>7, <3>1, <3>3
  <2> QED BY <2>2, <2>3, <2>4, <2>5
<1>12. \A i \in 1..k : i \in 1..(k + 1)
  BY <1>5
<1>13. k + 1 \in 1..(k + 1)
  BY <1>5
<1>14. Enters(log, row, new, k)
  BY <1>2, <1>10, <1>11, <1>12, <1>13 DEF Enters
<1> QED BY <1>1, <1>11, <1>14

(* The order of the log, its ids and what arrived, when a row joins it.    *)
LEMMA EntersKeepsOrder ==
    ASSUME NEW entries \in Seq(Rows), NEW row \in Rows, NEW new \in Seq(Rows),
           NEW k \in 0..Len(entries), Enters(entries, row, new, k), Ordered(entries),
           \A i \in 1..k : entries[i].at <= row.at,
           \A i \in (k + 1)..Len(entries) : entries[i].at >= row.at,
           \A i \in 1..Len(entries) : entries[i].id # row.id
    PROVE  Ordered(new)
<1>1. PICK n \in Nat : n = Len(entries)
  OBVIOUS
<1>2. /\ Len(new) = n + 1 /\ k \in Nat /\ k <= n
      /\ \A i \in 1..k : new[i] = entries[i]
      /\ new[k + 1] = row
      /\ \A i \in (k + 1)..n : new[i + 1] = entries[i]
      /\ DOMAIN new = 1..(n + 1) /\ DOMAIN entries = 1..n
  BY <1>1 DEF Enters
<1>3. \A i, j \in 1..n : i < j => entries[i].at <= entries[j].at /\ entries[i].id # entries[j].id
  BY <1>2 DEF Ordered
<1>4. /\ \A i \in 1..k : entries[i].at <= row.at
      /\ \A i \in (k + 1)..n : row.at <= entries[i].at
      /\ \A i \in 1..n : entries[i].id # row.id
  <2>1. row.at \in Nat /\ \A i \in 1..n : entries[i].at \in Nat
    <3>1. \A x \in Rows : x.at \in Nat
      BY ChainNumbers DEF Rows
    <3> QED BY <1>1, <3>1
  <2> QED BY <1>1, <1>2, <2>1
<1> SUFFICES ASSUME NEW i \in 1..(n + 1), NEW j \in 1..(n + 1), i < j
             PROVE  new[i].at <= new[j].at /\ new[i].id # new[j].id
  BY <1>2 DEF Ordered
<1>5. CASE i <= k /\ j <= k
  <2>1. i \in 1..k /\ j \in 1..k /\ i \in 1..n /\ j \in 1..n
    BY <1>2, <1>5
  <2> QED BY <1>2, <1>3, <2>1
<1>6. CASE i <= k /\ j = k + 1
  <2>1. i \in 1..k /\ i \in 1..n
    BY <1>2, <1>6
  <2> QED BY <1>2, <1>4, <1>6, <2>1
<1>7. CASE i <= k /\ j > k + 1
  <2>1. PICK m \in (k + 1)..n : j = m + 1
    <3>1. j - 1 \in (k + 1)..n /\ j = (j - 1) + 1
      BY <1>2, <1>7
    <3> QED BY <3>1
  <2>2. i \in 1..k /\ i \in 1..n /\ m \in 1..n /\ i < m
    BY <1>2, <1>7, <2>1
  <2> QED BY <1>2, <1>3, <2>1, <2>2
<1>8. CASE i = k + 1 /\ j > k + 1
  <2>1. PICK m \in (k + 1)..n : j = m + 1
    <3>1. j - 1 \in (k + 1)..n /\ j = (j - 1) + 1
      BY <1>2, <1>8
    <3> QED BY <3>1
  <2>2. m \in 1..n
    BY <1>2
  <2> QED BY <1>2, <1>4, <1>8, <2>1, <2>2
<1>9. CASE i > k + 1 /\ j > k + 1
  <2>1. PICK m \in (k + 1)..n : j = m + 1
    <3>1. j - 1 \in (k + 1)..n /\ j = (j - 1) + 1
      BY <1>2, <1>9
    <3> QED BY <3>1
  <2>2. PICK l \in (k + 1)..n : i = l + 1
    <3>1. i - 1 \in (k + 1)..n /\ i = (i - 1) + 1
      BY <1>2, <1>9
    <3> QED BY <3>1
  <2>3. l \in 1..n /\ m \in 1..n /\ l < m
    BY <1>2, <2>1, <2>2
  <2> QED BY <1>2, <1>3, <2>1, <2>2, <2>3
<1> QED BY <1>2, <1>5, <1>6, <1>7, <1>8, <1>9

(* Every element of the longer log is the new row or an older one.         *)
LEMMA EntersAt ==
    ASSUME NEW S, NEW entries \in Seq(S), NEW row, NEW new \in Seq(S),
           NEW k \in 0..Len(entries), Enters(entries, row, new, k),
           NEW i \in DOMAIN new
    PROVE  \/ i = k + 1 /\ new[i] = row
           \/ i \in 1..k /\ i \in DOMAIN entries /\ new[i] = entries[i]
           \/ /\ i > k + 1 /\ i - 1 \in (k + 1)..Len(entries)
              /\ i - 1 \in DOMAIN entries /\ new[i] = entries[i - 1]
<1>1. PICK n \in Nat : n = Len(entries)
  OBVIOUS
<1>2. /\ Len(new) = n + 1 /\ k \in Nat /\ k <= n
      /\ \A j \in 1..k : new[j] = entries[j]
      /\ new[k + 1] = row
      /\ \A j \in (k + 1)..n : new[j + 1] = entries[j]
      /\ i \in 1..(n + 1) /\ DOMAIN entries = 1..n
  BY <1>1 DEF Enters
<1>3. CASE i <= k
  <2>1. i \in 1..k /\ i \in 1..n
    BY <1>2, <1>3
  <2> QED BY <1>2, <2>1
<1>4. CASE i = k + 1
  BY <1>2, <1>4
<1>5. CASE i > k + 1
  <2>1. i - 1 \in (k + 1)..n /\ (i - 1) + 1 = i /\ i - 1 \in 1..n
    BY <1>2, <1>5
  <2> QED BY <1>1, <1>2, <1>5, <2>1
<1> QED BY <1>2, <1>3, <1>4, <1>5

LEMMA ArrivedMore ==
    ASSUME CInv, NEW x \in Arrivals, arrived' = Append(arrived, x)
    PROVE  /\ arrived' \in Seq(Arrivals)
           /\ Len(arrived') = Len(arrived) + 1 /\ Len(arrived) \in Nat
           /\ \A n \in 1..Len(arrived) : arrived'[n] = arrived[n]
           /\ arrived'[Len(arrived) + 1] = x
           /\ DOMAIN arrived = 1..Len(arrived)
           /\ DOMAIN arrived' = 1..(Len(arrived) + 1)
           /\ \A id, at : Arrived(id, at) => Arrived(id, at)'
           /\ Arrived(x.id, x.at)'
           /\ \A id : HasArrived(id)' => HasArrived(id) \/ id = x.id
<1>1. arrived \in Seq(Arrivals)
  BY TypesOf
<1>2. PICK new : new = Append(arrived, x)
  OBVIOUS
<1>3. /\ new \in Seq(Arrivals)
      /\ Len(new) = Len(arrived) + 1 /\ Len(arrived) \in Nat
      /\ \A n \in 1..Len(arrived) : new[n] = arrived[n]
      /\ new[Len(arrived) + 1] = x
      /\ DOMAIN arrived = 1..Len(arrived)
      /\ DOMAIN new = 1..(Len(arrived) + 1)
  BY <1>1, <1>2
<1>4. arrived' = new
  BY <1>2
<1>5. \A n \in 1..Len(arrived) : n \in 1..(Len(arrived) + 1)
  BY <1>3
<1>6. \A n \in 1..(Len(arrived) + 1) : n \in 1..Len(arrived) \/ n = Len(arrived) + 1
  BY <1>3
<1>7. \A id, at : Arrived(id, at) => Arrived(id, at)'
  BY <1>3, <1>4, <1>5 DEF Arrived
<1>8. Len(arrived) + 1 \in 1..(Len(arrived) + 1)
  BY <1>3
<1>9. Arrived(x.id, x.at)'
  BY <1>3, <1>4, <1>8 DEF Arrived
<1>10. \A id : HasArrived(id)' => HasArrived(id) \/ id = x.id
  BY <1>3, <1>4, <1>6 DEF HasArrived
<1> QED BY <1>3, <1>4, <1>7, <1>9, <1>10

(* A row that has not arrived before joins the log.                        *)
LEMMA Arriving ==
    ASSUME CInv, NEW row \in Rows, ~HasArrived(row.id), row.at <= now,
           log' \in Inserted(row), now' = now, quiet' \in BOOLEAN,
           arrived' = Append(arrived, [id |-> row.id, at |-> row.at]),
           pc' \in [Requests -> InFlight \cup {"read", "repair", "done"}],
           mine' \in [Requests -> Minds],
           \A r \in Requests :
              IF r = row.id THEN pc'[r] = "done" /\ mine'[r] = Nothing
                            ELSE pc'[r] = pc[r] /\ mine'[r] = mine[r]
    PROVE  CInv'
<1>1. PICK x \in Arrivals : x = [id |-> row.id, at |-> row.at]
  BY DEF Arrivals, Rows
<1>2. x.id = row.id /\ x.at = row.at /\ arrived' = Append(arrived, x)
  BY <1>1
<1>3. /\ arrived' \in Seq(Arrivals)
      /\ Len(arrived) \in Nat
      /\ \A n \in 1..Len(arrived) : arrived'[n] = arrived[n]
      /\ arrived'[Len(arrived) + 1] = x
      /\ DOMAIN arrived = 1..Len(arrived)
      /\ DOMAIN arrived' = 1..(Len(arrived) + 1)
      /\ \A id, at : Arrived(id, at) => Arrived(id, at)'
      /\ Arrived(x.id, x.at)'
      /\ \A id : HasArrived(id)' => HasArrived(id) \/ id = x.id
  BY <1>2, ArrivedMore
<1>4. PICK new : new = log'
  OBVIOUS
<1>5. log \in Seq(Rows) /\ Ordered(log) /\ new \in Inserted(row)
  BY <1>4, TypesOf
<1>6. /\ new \in Seq(Rows)
      /\ \E k \in 0..Len(log) :
                 /\ Enters(log, row, new, k)
                 /\ \A i \in 1..k : log[i].at <= row.at
                 /\ \A i \in (k + 1)..Len(log) : log[i].at >= row.at
  BY <1>5, InsertedIs
<1>7. PICK k \in 0..Len(log) :
                 /\ Enters(log, row, new, k)
                 /\ \A i \in 1..k : log[i].at <= row.at
                 /\ \A i \in (k + 1)..Len(log) : log[i].at >= row.at
  BY <1>6
<1>8. \A i \in 1..Len(log) : log[i].id # row.id
  BY <1>5 DEF CInv, Arrived, HasArrived
<1>9. Ordered(new)
  BY <1>5, <1>6, <1>7, <1>8, EntersKeepsOrder
<1>10. ChainTypeOK'
  BY <1>3, <1>4, <1>6, <1>9, TypesOf
     DEF ChainTypeOK, Ordered, Minds, Arrivals
<1>11. ArrivedOnce'
  <2> SUFFICES ASSUME NEW n \in 1..(Len(arrived) + 1), NEW m \in 1..(Len(arrived) + 1),
                      arrived'[n].id = arrived'[m].id
               PROVE  n = m
    BY <1>3 DEF ArrivedOnce
  <2>1. \A l \in 1..(Len(arrived) + 1) : l \in 1..Len(arrived) \/ l = Len(arrived) + 1
    BY <1>3
  <2>2. \A l \in 1..Len(arrived) : arrived'[l].id # row.id
    BY <1>3 DEF HasArrived
  <2>3. CASE n \in 1..Len(arrived) /\ m \in 1..Len(arrived)
    BY <1>3, <2>3 DEF CInv, ArrivedOnce
  <2> QED BY <1>2, <1>3, <2>1, <2>2, <2>3
<1>12. \A n \in DOMAIN arrived' : arrived'[n].at <= now'
  <2>1. \A l \in 1..(Len(arrived) + 1) : l \in 1..Len(arrived) \/ l = Len(arrived) + 1
    BY <1>3
  <2> QED BY <1>2, <1>3, <2>1 DEF CInv
<1>13. \A i \in DOMAIN new : Arrived(new[i].id, new[i].at)'
  <2> SUFFICES ASSUME NEW i \in DOMAIN new
               PROVE  Arrived(new[i].id, new[i].at)'
    OBVIOUS
  <2>1. PICK y : y = new[i] /\ (y = row \/ \E j \in DOMAIN log : y = log[j])
    BY <1>5, <1>6, <1>7, EntersAt
  <2>2. Arrived(y.id, y.at)'
    <3>1. CASE y = row
      BY <1>2, <1>3, <3>1 DEF Arrived
    <3>2. CASE \E j \in DOMAIN log : y = log[j]
      BY <1>3, <3>2 DEF CInv
    <3> QED BY <2>1, <3>1, <3>2
  <2> QED BY <2>1, <2>2 DEF Arrived
<1>14. ASSUME NEW r \in Requests PROVE PlaceOK(r, pc[r], mine[r])'
  <2>1. CASE r = row.id
    <3>1. pc'[r] = "done" /\ mine'[r] = Nothing
      BY <2>1
    <3>2. Nothing.plan = <<>>
      BY TypesOf
    <3> QED BY <3>1, <3>2 DEF PlaceOK
  <2>2. CASE r # row.id
    <3>1. pc'[r] = pc[r] /\ mine'[r] = mine[r]
      BY <2>2
    <3>2. PlaceOK(r, pc[r], mine[r])
      BY DEF CInv
    <3>0. PICK plan : plan = mine[r].plan
      OBVIOUS
    <3>5. \A j \in DOMAIN plan : Arrived(plan[j].id, plan[j].at)
      BY <3>0, <3>2 DEF PlaceOK
    <3>3. \A j \in DOMAIN plan : Arrived(plan[j].id, plan[j].at)'
      BY <1>3, <3>5
    <3>4. ~HasArrived(r) => ~HasArrived(r)'
      BY <1>2, <1>3, <2>2
    <3>6. mine'[r].plan = plan
      BY <3>0, <3>1
    <3>7. \A j \in DOMAIN mine'[r].plan : Arrived(mine[r].plan[j].id, mine[r].plan[j].at)'
      BY <3>3, <3>6 DEF Arrived
    <3> QED BY <3>1, <3>2, <3>4, <3>7 DEF PlaceOK
  <2> QED BY <2>1, <2>2
<1>15. \A i \in DOMAIN log' : Arrived(log[i].id, log[i].at)'
  BY <1>4, <1>13 DEF Arrived
<1> QED BY <1>10, <1>11, <1>12, <1>14, <1>15 DEF CInv

LEMMA HashTyped ==
    ASSUME NEW prev \in Hashes, NEW at \in 1..MaxTime, NEW id \in Ids
    PROVE  /\ Hash(prev, at, id) \in Hashes /\ Len(prev) \in Nat
           /\ Hash(prev, at, id) # Genesis
<1>1. PICK S : S = Ids \X (1..MaxTime)
  OBVIOUS
<1>2. PICK x \in S : x = <<id, at>>
  BY <1>1
<1>3. prev \in Seq(S)
  BY <1>1 DEF Hashes
<1>4. Append(prev, x) \in Seq(S) /\ Len(Append(prev, x)) = Len(prev) + 1 /\ Len(prev) \in Nat
  BY <1>3
<1>5. Append(prev, x) # <<>>
  BY <1>4
<1> QED BY <1>1, <1>2, <1>4, <1>5 DEF Hash, Hashes, Genesis

LEMMA InsertKeeps ==
    ASSUME CInv, NEW r \in Requests, Insert(r) PROVE CInv'
<1>1. mine[r] \in Minds /\ ~HasArrived(r) /\ mine[r].at \in 1..now /\ r \in Ids
  BY DEF CInv, PlaceOK, Insert, ChainTypeOK, Minds, Ids
<1>2. /\ mine[r].prev \in Hashes /\ mine[r].at \in 1..MaxTime /\ mine[r].at <= now
  BY <1>1, TypesOf, ChainNumbers DEF Minds
<1>3. Hash(mine[r].prev, mine[r].at, r) \in Hashes
  BY <1>1, <1>2, HashTyped
<1>4. PICK row \in Rows : row = AppendedRow(r)
  BY <1>1, <1>2, <1>3 DEF AppendedRow, Row, Rows
<1>5. row.id = r /\ row.at = mine[r].at
  BY <1>4 DEF AppendedRow, Row
<1>6. /\ log' \in Inserted(row) /\ now' = now /\ quiet' \in BOOLEAN
      /\ arrived' = Append(arrived, [id |-> row.id, at |-> row.at])
      /\ pc' = [pc EXCEPT ![r] = "done"] /\ mine' = [mine EXCEPT ![r] = Nothing]
  BY <1>4, <1>5, TypesOf DEF Insert, Leave, Goto
<1>7. /\ pc' \in [Requests -> InFlight \cup {"read", "repair", "done"}]
      /\ mine' \in [Requests -> Minds]
      /\ \A q \in Requests :
              IF q = row.id THEN pc'[q] = "done" /\ mine'[q] = Nothing
                            ELSE pc'[q] = pc[q] /\ mine'[q] = mine[q]
  BY <1>5, <1>6, TypesOf
<1>8. ~HasArrived(row.id) /\ row.at <= now
  BY <1>1, <1>2, <1>5
<1> QED BY <1>6, <1>7, <1>8, Arriving

LEMMA InsertUnhashedKeeps ==
    ASSUME CInv, NEW u \in Unhashed, InsertUnhashed(u) PROVE CInv'
<1>1. u \in Ids /\ u \notin Requests
  BY ChainNames DEF Ids, Requests
<1>2. now \in 1..MaxTime /\ Genesis \in Hashes /\ now <= now
  BY TypesOf
<1>3. PICK row \in Rows : row = Row(u, now, Genesis, Genesis)
  BY <1>1, <1>2 DEF Row, Rows
<1>4. row.id = u /\ row.at = now
  BY <1>3 DEF Row
<1>5. /\ log' \in Inserted(row) /\ now' = now /\ quiet' = quiet
      /\ arrived' = Append(arrived, [id |-> row.id, at |-> row.at])
      /\ pc' = pc /\ mine' = mine
  BY <1>3, <1>4 DEF InsertUnhashed
<1>6. /\ pc' \in [Requests -> InFlight \cup {"read", "repair", "done"}]
      /\ mine' \in [Requests -> Minds] /\ quiet' \in BOOLEAN
      /\ \A q \in Requests :
              IF q = row.id THEN pc'[q] = "done" /\ mine'[q] = Nothing
                            ELSE pc'[q] = pc[q] /\ mine'[q] = mine[q]
  BY <1>1, <1>4, <1>5, TypesOf
<1>7. ~HasArrived(row.id) /\ row.at <= now
  BY <1>2, <1>4 DEF InsertUnhashed, HasArrived
<1> QED BY <1>5, <1>6, <1>7, Arriving
-----------------------------------------------------------------------------
(* The chain a repair computes.                                            *)
ChainTo(entries, N, c) ==
    c = [i \in 0..N |-> IF i = 0 THEN Genesis
                        ELSE Hash(c[i - 1], entries[i].at, entries[i].id)]

LEMMA SomeChain ==
    ASSUME NEW entries, NEW N \in Nat PROVE \E c : ChainTo(entries, N, c)
<1> DEFINE T == {n \in Nat : \E c : ChainTo(entries, n, c)}
<1>1. 0 \in T
  <2>1. PICK c : c = [i \in 0..0 |-> Genesis]
    OBVIOUS
  <2>2. \A i \in 0..0 : i = 0
    OBVIOUS
  <2>3. c = [i \in 0..0 |-> IF i = 0 THEN Genesis
                        ELSE Hash(c[i - 1], entries[i].at, entries[i].id)]
    BY <2>1, <2>2
  <2> QED BY <2>3 DEF ChainTo
<1>2. ASSUME NEW n \in T PROVE n + 1 \in T
  <2>1. PICK c : ChainTo(entries, n, c)
    OBVIOUS
  <2>2. PICK d : d = [i \in 0..(n + 1) |->
                        IF i = n + 1 THEN Hash(c[n], entries[i].at, entries[i].id) ELSE c[i]]
    OBVIOUS
  <2>3. ASSUME NEW i \in 0..(n + 1)
        PROVE  d[i] = IF i = 0 THEN Genesis
                      ELSE Hash(d[i - 1], entries[i].at, entries[i].id)
    <3>1. n \in Nat
      OBVIOUS
    <3>2. \A j \in 0..n : j \in 0..(n + 1) /\ j # n + 1 /\ d[j] = c[j]
      BY <2>2, <3>1
    <3>3. CASE i = n + 1
      <4>1. i # 0 /\ i - 1 = n /\ n \in 0..n
        BY <3>1, <3>3
      <4> QED BY <2>2, <3>2, <3>3, <4>1
    <3>4. CASE i # n + 1 /\ i = 0
      <4>1. i \in 0..n
        BY <3>1, <3>4
      <4> QED BY <2>1, <3>2, <3>4, <4>1 DEF ChainTo
    <3>5. CASE i # n + 1 /\ i # 0
      <4>1. i \in 0..n /\ i - 1 \in 0..n
        BY <3>1, <3>5
      <4>2. c[i] = Hash(c[i - 1], entries[i].at, entries[i].id)
        BY <2>1, <3>5, <4>1 DEF ChainTo
      <4> QED BY <3>2, <3>5, <4>1, <4>2
    <3> QED BY <3>3, <3>4, <3>5
  <2>4. d = [i \in 0..(n + 1) |-> IF i = 0 THEN Genesis
                        ELSE Hash(d[i - 1], entries[i].at, entries[i].id)]
    BY <2>2, <2>3
  <2>5. ChainTo(entries, n + 1, d)
    BY <2>4 DEF ChainTo
  <2> QED BY <2>5
<1>3. T = Nat
  <2>1. T \in SUBSET Nat
    OBVIOUS
  <2> HIDE DEF T
  <2> QED BY <1>1, <1>2, <2>1, NatSet
<1>4. N \in T
  BY <1>3
<1> QED BY <1>4

LEMMA ChainLinks ==
    ASSUME NEW entries \in Seq(Rows), NEW c, ChainTo(entries, Len(entries), c)
    PROVE  /\ c[0] = Genesis
           /\ \A i \in 0..Len(entries) : c[i] \in Hashes
           /\ \A i \in 1..Len(entries) :
                 c[i] = Hash(c[i - 1], entries[i].at, entries[i].id) /\ i - 1 \in 0..Len(entries)
<1>1. PICK N \in Nat : N = Len(entries)
  OBVIOUS
<1>2. c[0] = Genesis
  BY <1>1 DEF ChainTo
<1>3. ASSUME NEW i \in 1..N
      PROVE  c[i] = Hash(c[i - 1], entries[i].at, entries[i].id) /\ i - 1 \in 0..N
  <2>1. i \in 0..N /\ i # 0 /\ i - 1 \in 0..N
    BY <1>1
  <2> QED BY <1>1, <2>1 DEF ChainTo
<1> DEFINE T == {n \in Nat : n <= N => c[n] \in Hashes}
<1>4. 0 \in T
  <2>1. Genesis \in Hashes
    BY DEF Genesis, Hashes
  <2> QED BY <1>2, <2>1
<1>5. ASSUME NEW n \in T PROVE n + 1 \in T
  <2>1. n \in Nat /\ N \in Nat
    BY <1>1
  <2>2. CASE n + 1 <= N
    <3>1. n + 1 \in 1..N /\ n <= N /\ (n + 1) - 1 = n
      BY <2>1, <2>2
    <3>2. c[n] \in Hashes
      BY <3>1
    <3>3. entries[n + 1] \in Rows
      BY <1>1, <3>1
    <3>4. entries[n + 1].at \in 1..MaxTime /\ entries[n + 1].id \in Ids
      BY <3>3 DEF Rows
    <3>5. c[n + 1] = Hash(c[n], entries[n + 1].at, entries[n + 1].id)
      BY <1>3, <3>1
    <3>6. c[n + 1] \in Hashes
      BY <3>2, <3>4, <3>5, HashTyped
    <3> QED BY <2>1, <3>6
  <2> QED BY <2>1, <2>2
<1>6. T = Nat
  <2>1. T \in SUBSET Nat
    OBVIOUS
  <2> HIDE DEF T
  <2> QED BY <1>4, <1>5, <2>1, NatSet
<1>7. \A i \in 0..N : c[i] \in Hashes
  <2>1. \A i \in 0..N : i \in Nat /\ i <= N
    BY <1>1
  <2> QED BY <1>6, <2>1
<1> HIDE DEF T
<1> QED BY <1>1, <1>2, <1>3, <1>7

LEMMA RehashedIs ==
    ASSUME NEW entries \in Seq(Rows)
    PROVE  /\ Rehashed(entries) \in Seq(Rows) /\ Len(Rehashed(entries)) = Len(entries)
           /\ \A i \in 1..Len(entries) :
                 /\ Rehashed(entries)[i].id = entries[i].id
                 /\ Rehashed(entries)[i].at = entries[i].at
                 /\ Rehashed(entries)[i].hash =
                       Hash(Rehashed(entries)[i].prev, entries[i].at, entries[i].id)
                 /\ IF i = 1 THEN Rehashed(entries)[i].prev = Genesis
                             ELSE Rehashed(entries)[i].prev = Rehashed(entries)[i - 1].hash
<1>1. PICK N \in Nat : N = Len(entries)
  OBVIOUS
<1>2. PICK c : /\ ChainTo(entries, N, c)
               /\ Rehashed(entries) = [i \in DOMAIN entries |->
                     [entries[i] EXCEPT !.prev = c[i - 1], !.hash = c[i]]]
  <2>1. \E c : ChainTo(entries, N, c)
    BY SomeChain
  <2>2. PICK c : c = CHOOSE d : ChainTo(entries, N, d)
    OBVIOUS
  <2>3. ChainTo(entries, N, c)
    BY <2>1, <2>2
  <2>4. Rehashed(entries) = [i \in DOMAIN entries |->
                     [entries[i] EXCEPT !.prev = c[i - 1], !.hash = c[i]]]
    BY <1>1, <2>2 DEF Rehashed, ChainTo
  <2> QED BY <2>3, <2>4
<1>3. /\ c[0] = Genesis
      /\ \A i \in 0..N : c[i] \in Hashes
      /\ \A i \in 1..N :
           c[i] = Hash(c[i - 1], entries[i].at, entries[i].id) /\ i - 1 \in 0..N
  <2>1. ChainTo(entries, Len(entries), c)
    BY <1>1, <1>2
  <2>2. /\ c[0] = Genesis
        /\ \A i \in 0..Len(entries) : c[i] \in Hashes
        /\ \A i \in 1..Len(entries) :
              c[i] = Hash(c[i - 1], entries[i].at, entries[i].id) /\ i - 1 \in 0..Len(entries)
    BY <2>1, ChainLinks
  <2> QED BY <1>1, <2>2
<1>4. PICK new : /\ new = Rehashed(entries)
                 /\ new = [i \in DOMAIN entries |->
                     [entries[i] EXCEPT !.prev = c[i - 1], !.hash = c[i]]]
  BY <1>2
<1>5. DOMAIN entries = 1..N /\ DOMAIN new = 1..N
  <2>1. DOMAIN entries = 1..N
    BY <1>1
  <2> QED BY <1>4, <2>1
<1>6. ASSUME NEW i \in 1..N
      PROVE  /\ new[i] \in Rows
             /\ new[i].id = entries[i].id /\ new[i].at = entries[i].at
             /\ new[i].prev = c[i - 1] /\ new[i].hash = c[i]
  <2>1. entries[i] \in Rows /\ c[i - 1] \in Hashes /\ c[i] \in Hashes
    BY <1>1, <1>3
  <2>2. new[i] = [entries[i] EXCEPT !.prev = c[i - 1], !.hash = c[i]]
    BY <1>4, <1>5
  <2> QED BY <2>1, <2>2 DEF Rows
<1>7. new \in Seq(Rows) /\ Len(new) = N
  <2>1. new = [i \in 1..N |-> new[i]]
    BY <1>4, <1>5
  <2> QED BY <1>6, <2>1
<1>8. ASSUME NEW i \in 1..N
      PROVE  /\ new[i].hash = Hash(new[i].prev, entries[i].at, entries[i].id)
             /\ IF i = 1 THEN new[i].prev = Genesis
                         ELSE new[i].prev = new[i - 1].hash
  <2>1. new[i].hash = Hash(new[i].prev, entries[i].at, entries[i].id)
    BY <1>3, <1>6
  <2>2. CASE i = 1
    <3>1. i - 1 = 0
      BY <2>2
    <3> QED BY <1>3, <1>6, <2>1, <2>2, <3>1
  <2>3. CASE i # 1
    <3>1. i - 1 \in 1..N
      BY <2>3
    <3> QED BY <1>6, <2>1, <2>3, <3>1
  <2> QED BY <2>2, <2>3
<1> QED BY <1>1, <1>4, <1>6, <1>7, <1>8

(* A plan holds the rows that change, in the order of the log.             *)
LEMMA PlanIs ==
    ASSUME NEW entries \in Seq(Rows)
    PROVE  /\ Plan(entries) \in Seq(Rows)
           /\ \A n \in DOMAIN Plan(entries) : \E i \in DOMAIN entries :
                 Plan(entries)[n] = Rehashed(entries)[i] /\ entries[i] # Rehashed(entries)[i]
           /\ \A i \in DOMAIN entries : entries[i] # Rehashed(entries)[i] =>
                 \E n \in DOMAIN Plan(entries) : Plan(entries)[n] = Rehashed(entries)[i]
<1>1. PICK new \in Seq(Rows) : new = Rehashed(entries) /\ Len(new) = Len(entries)
  BY RehashedIs
<1>2. PICK I : I = {i \in DOMAIN entries : entries[i] # new[i]}
  OBVIOUS
<1>3. I \in SUBSET (1..Len(new))
  BY <1>1, <1>2
<1>4. PICK kept : kept = Kept(new, I) /\ kept = Plan(entries)
  BY <1>1, <1>2 DEF Plan
<1>5. /\ kept \in Seq(Rows)
      /\ \E at \in [1..Len(kept) -> I] :
            /\ \A i \in I : \E n \in 1..Len(kept) : at[n] = i
            /\ \A n \in 1..Len(kept) : kept[n] = new[at[n]]
  <2>1. kept = Kept(new, I)
    BY <1>4
  <2>2. /\ kept \in Seq(Rows)
        /\ \E at \in [1..Len(kept) -> I] :
              /\ \A n, m \in 1..Len(kept) : n < m => at[n] < at[m]
              /\ \A i \in I : \E n \in 1..Len(kept) : at[n] = i
              /\ \A n \in 1..Len(kept) : kept[n] = new[at[n]]
    BY <1>3, <2>1, KeptIs
  <2> QED BY <2>2
<1>6. DOMAIN kept = 1..Len(kept)
  BY <1>5
<1>9. PICK at \in [1..Len(kept) -> I] :
            /\ \A i \in I : \E n \in 1..Len(kept) : at[n] = i
            /\ \A n \in 1..Len(kept) : kept[n] = new[at[n]]
  BY <1>5
<1>7. \A n \in DOMAIN kept : \E i \in DOMAIN entries : kept[n] = new[i] /\ entries[i] # new[i]
  BY <1>2, <1>6, <1>9
<1>8. ASSUME NEW i \in DOMAIN entries, entries[i] # new[i]
      PROVE  \E n \in DOMAIN kept : kept[n] = new[i]
  <2>1. i \in I
    BY <1>2, <1>8
  <2>2. PICK n \in 1..Len(kept) : at[n] = i
    BY <1>9, <2>1
  <2> QED BY <1>6, <1>9, <2>2
<1> QED BY <1>1, <1>4, <1>5, <1>7, <1>8

LEMMA PlanArrived ==
    ASSUME CInv
    PROVE  \A n \in DOMAIN Plan(log) : Arrived(Plan(log)[n].id, Plan(log)[n].at)
<1>1. PICK entries \in Seq(Rows) : entries = log
  BY TypesOf
<1>2. PICK new, plan : new = Rehashed(entries) /\ plan = Plan(entries)
  OBVIOUS
<1>3. \A i \in 1..Len(entries) : new[i].id = entries[i].id /\ new[i].at = entries[i].at
  BY <1>2, RehashedIs
<1>4. \A n \in DOMAIN plan : \E i \in DOMAIN entries : plan[n] = new[i]
  BY <1>2, PlanIs
<1>5. \A i \in DOMAIN entries : Arrived(entries[i].id, entries[i].at)
  BY <1>1 DEF CInv
<1>6. DOMAIN entries = 1..Len(entries)
  OBVIOUS
<1> QED BY <1>1, <1>2, <1>3, <1>4, <1>5, <1>6

LEMMA RepairReadKeeps ==
    ASSUME CInv, NEW r \in Requests, RepairRead(r) PROVE CInv'
<1>1. PICK plan \in Seq(Rows) : /\ plan = Plan(log)
                                /\ \A n \in DOMAIN plan : Arrived(plan[n].id, plan[n].at)
  BY TypesOf, PlanIs, PlanArrived
<1>2. Genesis \in Hashes /\ 0 \in 0..MaxTime
  BY TypesOf, ChainNumbers
<1>3. PICK m \in Minds : m = Mine(Genesis, 0, plan)
  BY <1>2 DEF Mine, Minds
<1>4. m.plan = plan
  BY <1>3 DEF Mine
<1>5. PICK place \in InFlight \cup {"read", "repair", "done"} :
        place = IF plan = <<>> THEN "read" ELSE "repairing"
  BY DEF InFlight
<1>6. ~HasArrived(r)
  BY DEF RepairRead, CInv, PlaceOK
<1>7. PlaceOK(r, place, m)
  <2>1. place # "insert" /\ (place = "repairing" => plan # <<>>)
    BY <1>5
  <2> QED BY <1>1, <1>4, <1>6, <2>1 DEF PlaceOK
<1>8. /\ pc' = [pc EXCEPT ![r] = place] /\ mine' = [mine EXCEPT ![r] = m]
      /\ UNCHANGED <<now, log, arrived>> /\ quiet' \in BOOLEAN
  BY <1>1, <1>3, <1>5 DEF RepairRead, Goto, AfterRepair, Alone
<1> QED BY <1>7, <1>8, RequestMoves

(* A row rewritten in its place.                                           *)
LEMMA Patched ==
    ASSUME CInv, NEW row \in Rows, Arrived(row.id, row.at),
           log' = [i \in DOMAIN log |-> IF log[i].id = row.id THEN row ELSE log[i]]
    PROVE  /\ log' \in Seq(Rows) /\ Len(log') = Len(log) /\ DOMAIN log' = DOMAIN log
           /\ \A i \in DOMAIN log : log'[i].id = log[i].id /\ log'[i].at = log[i].at
<1>1. PICK entries \in Seq(Rows) : entries = log
  BY TypesOf
<1>2. PICK N \in Nat : N = Len(entries) /\ DOMAIN entries = 1..N
  OBVIOUS
<1>3. PICK new : new = [i \in 1..N |-> IF entries[i].id = row.id THEN row ELSE entries[i]]
                 /\ new = log'
  BY <1>1, <1>2
<1>4. \A i \in 1..N : new[i] \in Rows
  BY <1>2, <1>3
<1>5. new \in Seq(Rows) /\ Len(new) = N /\ DOMAIN new = 1..N
  BY <1>3, <1>4
<1>6. ASSUME NEW i \in 1..N PROVE new[i].id = entries[i].id /\ new[i].at = entries[i].at
  <2>1. CASE entries[i].id = row.id
    <3>1. Arrived(entries[i].id, entries[i].at)
      BY <1>1, <1>2 DEF CInv
    <3>2. entries[i].at = row.at
      BY <2>1, <3>1 DEF CInv, Arrived, ArrivedOnce
    <3> QED BY <1>3, <2>1, <3>2
  <2>2. CASE entries[i].id # row.id
    BY <1>3, <2>2
  <2> QED BY <2>1, <2>2
<1> QED BY <1>1, <1>2, <1>3, <1>5, <1>6

(* What a row of a repair writes, and what is left of the plan.            *)
LEMMA RowToPatch ==
    ASSUME CInv, NEW r \in Requests, RepairRow(r)
    PROVE  /\ mine[r].plan \in Seq(Rows) /\ mine[r].plan # <<>> /\ ~HasArrived(r)
           /\ \E row \in Rows, rest \in Seq(Rows) :
                 /\ row = Head(mine[r].plan) /\ rest = Tail(mine[r].plan)
                 /\ Arrived(row.id, row.at)
                 /\ \A n \in DOMAIN rest : Arrived(rest[n].id, rest[n].at)
                 /\ log' = [i \in DOMAIN log |-> IF log[i].id = row.id THEN row ELSE log[i]]
                 /\ mine' = [mine EXCEPT ![r] = Mine(Genesis, 0, rest)]
                 /\ Goto(r, AfterRepair(rest))
                 /\ UNCHANGED <<now, arrived, quiet>>
<1>1. PICK plan \in Seq(Rows) : plan = mine[r].plan
  BY TypesOf DEF Minds
<1>2. /\ plan # <<>> /\ ~HasArrived(r)
      /\ \A n \in DOMAIN plan : Arrived(plan[n].id, plan[n].at)
  <2>1. PlaceOK(r, "repairing", mine[r])
    BY DEF RepairRow, CInv
  <2> QED BY <1>1, <2>1 DEF PlaceOK
<1>3. PICK row \in Rows, rest \in Seq(Rows) : row = Head(plan) /\ rest = Tail(plan)
  <2>1. Head(plan) \in Rows /\ Tail(plan) \in Seq(Rows)
    BY <1>2
  <2> QED BY <2>1
<1>4. Arrived(row.id, row.at)
  <2>1. Head(plan) = plan[1] /\ 1 \in DOMAIN plan
    BY <1>2
  <2> QED BY <1>2, <1>3, <2>1
<1>5. \A n \in DOMAIN rest : Arrived(rest[n].id, rest[n].at)
  <2>1. \A n \in DOMAIN Tail(plan) : n + 1 \in DOMAIN plan /\ Tail(plan)[n] = plan[n + 1]
    BY <1>2
  <2> QED BY <1>2, <1>3, <2>1
<1>6. /\ log' = [i \in DOMAIN log |-> IF log[i].id = row.id THEN row ELSE log[i]]
      /\ mine' = [mine EXCEPT ![r] = Mine(Genesis, 0, rest)]
      /\ Goto(r, AfterRepair(rest))
      /\ UNCHANGED <<now, arrived, quiet>>
  BY <1>1, <1>3 DEF RepairRow
<1> QED BY <1>1, <1>2, <1>3, <1>4, <1>5, <1>6

LEMMA RepairRowKeeps ==
    ASSUME CInv, NEW r \in Requests, RepairRow(r) PROVE CInv'
<1>2. ~HasArrived(r)
  BY RowToPatch
<1>4. PICK row \in Rows, rest \in Seq(Rows) :
        /\ Arrived(row.id, row.at)
        /\ \A n \in DOMAIN rest : Arrived(rest[n].id, rest[n].at)
        /\ log' = [i \in DOMAIN log |-> IF log[i].id = row.id THEN row ELSE log[i]]
        /\ mine' = [mine EXCEPT ![r] = Mine(Genesis, 0, rest)]
        /\ Goto(r, AfterRepair(rest))
        /\ UNCHANGED <<now, arrived, quiet>>
  BY RowToPatch
<1>5. PICK m \in Minds : m = Mine(Genesis, 0, rest)
  <2>1. Genesis \in Hashes /\ 0 \in 0..MaxTime
    BY TypesOf, ChainNumbers
  <2> QED BY <2>1 DEF Mine, Minds
<1>6. PICK place \in InFlight \cup {"read", "repair", "done"} :
        place = IF rest = <<>> THEN "read" ELSE "repairing"
  BY DEF InFlight
<1>7. pc' = [pc EXCEPT ![r] = place] /\ mine' = [mine EXCEPT ![r] = m]
  BY <1>4, <1>5, <1>6 DEF Goto, AfterRepair
<1>8. /\ log' \in Seq(Rows) /\ DOMAIN log' = DOMAIN log
      /\ \A i \in DOMAIN log : log'[i].id = log[i].id /\ log'[i].at = log[i].at
  BY <1>4, Patched
<1>9. Ordered(log')
  BY <1>8, TypesOf DEF Ordered
<1>10. ChainTypeOK'
  BY <1>4, <1>7, <1>8, <1>9, TypesOf DEF ChainTypeOK, Ordered, Minds, Arrivals
<1>11. \A i \in DOMAIN log' : Arrived(log[i].id, log[i].at)'
  <2>1. \A i \in DOMAIN log : Arrived(log[i].id, log[i].at)
    BY DEF CInv
  <2> QED BY <1>4, <1>8, <2>1 DEF Arrived
<1>12. ASSUME NEW q \in Requests PROVE PlaceOK(q, pc[q], mine[q])'
  <2>1. CASE q = r
    <3>1. pc'[q] = place /\ mine'[q] = m /\ m.plan = rest
      BY <1>5, <1>7, <2>1, TypesOf DEF Mine
    <3>2. place # "insert" /\ (place = "repairing" => rest # <<>>)
      BY <1>6
    <3>3. \A n \in DOMAIN rest : Arrived(rest[n].id, rest[n].at)'
      BY <1>4 DEF Arrived
    <3>4. ~HasArrived(q)'
      BY <1>2, <1>4, <2>1 DEF HasArrived
    <3>5. \A n \in DOMAIN mine'[q].plan : Arrived(mine[q].plan[n].id, mine[q].plan[n].at)'
      BY <3>1, <3>3 DEF Arrived
    <3> QED BY <3>1, <3>2, <3>4, <3>5 DEF PlaceOK
  <2>2. CASE q # r
    <3>1. pc'[q] = pc[q] /\ mine'[q] = mine[q]
      BY <1>7, <2>2, TypesOf
    <3>2. PlaceOK(q, pc[q], mine[q])
      BY DEF CInv
    <3> QED BY <1>4, <3>1, <3>2 DEF PlaceOK, HasArrived, Arrived
  <2> QED BY <2>1, <2>2
<1> QED BY <1>4, <1>10, <1>11, <1>12 DEF CInv, ArrivedOnce

(* What is removed leaves the others in their order.                       *)
LEMMA Removed ==
    ASSUME CInv, NEW gone, Remove(gone)
    PROVE  /\ log' \in Seq(Rows)
           /\ \E at \in [1..Len(log') -> DOMAIN log] :
                 /\ \A n, m \in 1..Len(log') : n < m => at[n] < at[m]
                 /\ \A n \in 1..Len(log') : log'[n] = log[at[n]]
<1>1. PICK entries \in Seq(Rows) : entries = log
  BY TypesOf
<1>2. PICK I : I = {i \in DOMAIN entries : entries[i] \notin gone}
  OBVIOUS
<1>3. I \in SUBSET (1..Len(entries)) /\ I \subseteq DOMAIN entries
  BY <1>2
<1>4. PICK new : new = Kept(entries, I) /\ new = log'
  BY <1>1, <1>2 DEF Remove
<1>5. new = Kept(entries, I)
  BY <1>4
<1>6. /\ new \in Seq(Rows)
      /\ \E at \in [1..Len(new) -> I] :
            /\ \A n, m \in 1..Len(new) : n < m => at[n] < at[m]
            /\ \A i \in I : \E n \in 1..Len(new) : at[n] = i
            /\ \A n \in 1..Len(new) : new[n] = entries[at[n]]
  BY <1>3, <1>5, KeptIs
<1>7. PICK at \in [1..Len(new) -> I] :
            /\ \A n, m \in 1..Len(new) : n < m => at[n] < at[m]
            /\ \A n \in 1..Len(new) : new[n] = entries[at[n]]
  BY <1>6
<1>8. at \in [1..Len(new) -> DOMAIN entries]
  BY <1>3
<1> QED BY <1>1, <1>4, <1>6, <1>7, <1>8

LEMMA RemoveKeeps ==
    ASSUME CInv, NEW gone, Remove(gone) PROVE CInv'
<1>1. PICK entries \in Seq(Rows) : entries = log
  BY TypesOf
<1>3. PICK new : new = log'
  OBVIOUS
<1>4. /\ new \in Seq(Rows)
      /\ \E at \in [1..Len(new) -> DOMAIN entries] :
            /\ \A n, m \in 1..Len(new) : n < m => at[n] < at[m]
            /\ \A n \in 1..Len(new) : new[n] = entries[at[n]]
  BY <1>1, <1>3, Removed
<1>5. PICK at \in [1..Len(new) -> DOMAIN entries] :
            /\ \A n, m \in 1..Len(new) : n < m => at[n] < at[m]
            /\ \A n \in 1..Len(new) : new[n] = entries[at[n]]
  BY <1>4
<1>6. DOMAIN new = 1..Len(new) /\ DOMAIN entries = 1..Len(entries)
  BY <1>4
<1>7. Ordered(new)
  <2>1. Ordered(entries)
    BY <1>1, TypesOf
  <2> SUFFICES ASSUME NEW n \in 1..Len(new), NEW m \in 1..Len(new), n < m
               PROVE  new[n].at <= new[m].at /\ new[n].id # new[m].id
    BY <1>6 DEF Ordered
  <2>2. PICK i \in DOMAIN entries, k \in DOMAIN entries : i = at[n] /\ k = at[m]
    BY <1>5
  <2>3. i < k /\ new[n] = entries[i] /\ new[m] = entries[k]
    BY <1>5, <2>2
  <2> QED BY <2>1, <2>3 DEF Ordered
<1>8. \A i \in DOMAIN new : Arrived(new[i].id, new[i].at)
  <2>1. \A i \in DOMAIN entries : Arrived(entries[i].id, entries[i].at)
    BY <1>1 DEF CInv
  <2> SUFFICES ASSUME NEW n \in DOMAIN new PROVE Arrived(new[n].id, new[n].at)
    OBVIOUS
  <2>2. PICK i \in DOMAIN entries : new[n] = entries[i]
    BY <1>5, <1>6
  <2> QED BY <2>1, <2>2
<1>9. UNCHANGED <<now, arrived, pc, mine>> /\ quiet' \in BOOLEAN
  BY DEF Remove
<1>10. ChainTypeOK'
  BY <1>3, <1>4, <1>7, <1>9, TypesOf DEF ChainTypeOK, Ordered, Minds, Arrivals
<1>11. \A i \in DOMAIN log' : Arrived(log[i].id, log[i].at)'
  BY <1>3, <1>8, <1>9 DEF Arrived
<1>12. ASSUME NEW q \in Requests PROVE PlaceOK(q, pc[q], mine[q])'
  <2>1. PlaceOK(q, pc[q], mine[q])
    BY DEF CInv
  <2> QED BY <1>9, <2>1 DEF PlaceOK, HasArrived, Arrived
<1> QED BY <1>9, <1>10, <1>11, <1>12 DEF CInv, ArrivedOnce

(* What is altered keeps its id and its time.                              *)
LEMMA Altered ==
    ASSUME CInv, AlterRow
    PROVE  /\ log' \in Seq(Rows) /\ DOMAIN log' = DOMAIN log
           /\ \A i \in DOMAIN log : log'[i].id = log[i].id /\ log'[i].at = log[i].at
           /\ UNCHANGED <<now, arrived, pc, mine>> /\ quiet' = FALSE
<1>1. PICK i \in DOMAIN log :
        \E other \in {Genesis, Hash(log[i].hash, log[i].at, log[i].id)} :
           log' = [log EXCEPT ![i].hash = other]
  BY DEF AlterRow
<1>2. PICK other \in {Genesis, Hash(log[i].hash, log[i].at, log[i].id)} :
        log' = [log EXCEPT ![i].hash = other]
  BY <1>1
<1>3. PICK entries \in Seq(Rows) : entries = log
  BY TypesOf
<1>4. entries[i] \in Rows
  BY <1>3
<1>5. other \in Hashes
  <2>1. entries[i].hash \in Hashes /\ entries[i].at \in 1..MaxTime /\ entries[i].id \in Ids
    BY <1>4 DEF Rows
  <2>2. Hash(entries[i].hash, entries[i].at, entries[i].id) \in Hashes
    BY <2>1, HashTyped
  <2> QED BY <1>2, <1>3, <2>2, TypesOf
<1>6. PICK row : row = [entries[i] EXCEPT !.hash = other]
  OBVIOUS
<1>7. row \in Rows /\ row.id = entries[i].id /\ row.at = entries[i].at
  BY <1>4, <1>5, <1>6 DEF Rows
<1>8. log' = [entries EXCEPT ![i] = row]
  BY <1>2, <1>3, <1>6
<1>9. UNCHANGED <<now, arrived, pc, mine>> /\ quiet' = FALSE
  BY DEF AlterRow
<1>10. log' \in Seq(Rows) /\ DOMAIN log' = DOMAIN log
  BY <1>3, <1>7, <1>8
<1>11. \A k \in DOMAIN log : log'[k].id = log[k].id /\ log'[k].at = log[k].at
  BY <1>3, <1>7, <1>8
<1> QED BY <1>9, <1>10, <1>11

LEMMA AlterRowKeeps ==
    ASSUME CInv, AlterRow PROVE CInv'
<1>1. /\ log' \in Seq(Rows) /\ DOMAIN log' = DOMAIN log
      /\ \A i \in DOMAIN log : log'[i].id = log[i].id /\ log'[i].at = log[i].at
      /\ UNCHANGED <<now, arrived, pc, mine>> /\ quiet' = FALSE
  BY Altered
<1>2. Ordered(log')
  BY <1>1, TypesOf DEF Ordered
<1>3. ChainTypeOK'
  BY <1>1, <1>2, TypesOf DEF ChainTypeOK, Ordered, Minds, Arrivals
<1>4. \A i \in DOMAIN log' : Arrived(log[i].id, log[i].at)'
  <2>1. \A i \in DOMAIN log : Arrived(log[i].id, log[i].at)
    BY DEF CInv
  <2> QED BY <1>1, <2>1 DEF Arrived
<1>5. ASSUME NEW q \in Requests PROVE PlaceOK(q, pc[q], mine[q])'
  <2>1. PlaceOK(q, pc[q], mine[q])
    BY DEF CInv
  <2> QED BY <1>1, <2>1 DEF PlaceOK, HasArrived, Arrived
<1> QED BY <1>1, <1>3, <1>4, <1>5 DEF CInv, ArrivedOnce

LEMMA CrashKeeps ==
    ASSUME CInv, ChainCrash PROVE CInv'
<1>1. /\ pc' \in [Requests -> InFlight \cup {"read", "repair", "done"}]
      /\ mine' \in [Requests -> Minds] /\ quiet' \in BOOLEAN
      /\ \A q \in Requests : /\ mine'[q] = Nothing
                             /\ pc'[q] \in {pc[q], "done"} \ InFlight
      /\ UNCHANGED <<now, log, arrived>>
  BY TypesOf DEF ChainCrash, InFlight
<1>2. ChainTypeOK'
  BY <1>1, TypesOf DEF ChainTypeOK, Ordered, Minds, Arrivals
<1>3. ASSUME NEW q \in Requests PROVE PlaceOK(q, pc[q], mine[q])'
  <2>1. PlaceOK(q, pc[q], mine[q])
    BY DEF CInv
  <2>2. Nothing.plan = <<>>
    BY TypesOf
  <2> QED BY <1>1, <2>1, <2>2 DEF PlaceOK, HasArrived, InFlight
<1> QED BY <1>1, <1>2, <1>3 DEF CInv, ArrivedOnce, Arrived

LEMMA TickKeeps ==
    ASSUME CInv, Tick PROVE CInv'
<1>1. /\ now' = now + 1 /\ now < MaxTime
      /\ UNCHANGED <<log, arrived, pc, mine, quiet>>
  BY DEF Tick
<1>2. now' \in 1..MaxTime /\ now \in Nat /\ now' \in Nat
  BY <1>1, TypesOf, ChainNumbers
<1>3. ChainTypeOK'
  BY <1>1, <1>2, TypesOf DEF ChainTypeOK, Ordered, Minds, Arrivals
<1>4. \A n \in DOMAIN arrived : arrived[n].at <= now'
  <2>1. ASSUME NEW n \in DOMAIN arrived PROVE arrived[n].at \in Nat
    <3>1. PICK x \in Arrivals : x = arrived[n]
      BY TypesOf
    <3>2. x.at \in Nat
      BY ChainNumbers DEF Arrivals
    <3> QED BY <3>1, <3>2
  <2> QED BY <1>1, <1>2, <2>1 DEF CInv
<1>5. ASSUME NEW q \in Requests PROVE PlaceOK(q, pc[q], mine[q])'
  <2>1. PlaceOK(q, pc[q], mine[q])
    BY DEF CInv
  <2>2. 1..now \subseteq 1..now'
    BY <1>1, <1>2
  <2> QED BY <1>1, <2>1, <2>2 DEF PlaceOK, HasArrived, Arrived
<1> QED BY <1>1, <1>3, <1>4, <1>5 DEF CInv, ArrivedOnce, Arrived
-----------------------------------------------------------------------------
LEMMA CInvStarts == ChainInit => CInv
<1> SUFFICES ASSUME ChainInit PROVE CInv
  OBVIOUS
<1>1. Genesis \in Hashes /\ <<>> \in Seq(Rows) /\ <<>> \in Seq(Arrivals)
  BY DEF Genesis, Hashes
<1>2. Nothing \in Minds /\ Nothing.plan = <<>>
  BY <1>1, ChainNumbers DEF Nothing, Mine, Minds
<1>3. now \in 1..MaxTime
  BY ChainNumbers DEF ChainInit
<1>4. /\ log = <<>> /\ arrived = <<>> /\ DOMAIN log = {} /\ DOMAIN arrived = {}
      /\ mine \in [Requests -> Minds] /\ quiet \in BOOLEAN
      /\ pc \in [Requests -> InFlight \cup {"read", "repair", "done"}]
      /\ \A r \in Requests : mine[r] = Nothing /\ pc[r] \in {"read", "repair"}
  BY <1>2 DEF ChainInit
<1>5. ChainTypeOK
  BY <1>1, <1>3, <1>4 DEF ChainTypeOK, Ordered, Minds, Arrivals
<1>6. ASSUME NEW r \in Requests PROVE PlaceOK(r, pc[r], mine[r])
  BY <1>2, <1>4 DEF PlaceOK, HasArrived
<1> QED BY <1>4, <1>5, <1>6 DEF CInv, ArrivedOnce

LEMMA CInvKept == CInv /\ [ChainNext \/ ChainCrash]_chainVars => CInv'
<1> SUFFICES ASSUME CInv, [ChainNext \/ ChainCrash]_chainVars PROVE CInv'
  OBVIOUS
<1>1. ASSUME NEW r \in Requests, ChainStep(r) PROVE CInv'
  <2>1. ASSUME AppendFails(r) PROVE CInv'
    <3>1. Leave(r, "done") /\ UNCHANGED <<now, log, arrived>> /\ quiet' \in BOOLEAN
      BY <2>1, TypesOf DEF AppendFails
    <3> QED BY <3>1, FailKeeps
  <2>2. ASSUME RepairFails(r) PROVE CInv'
    <3>1. Leave(r, "done") /\ UNCHANGED <<now, log, arrived>> /\ quiet' \in BOOLEAN
      BY <2>2 DEF RepairFails
    <3> QED BY <3>1, FailKeeps
  <2> QED BY <1>1, <2>1, <2>2, ReadKeeps, StampKeeps, InsertKeeps,
             RepairReadKeeps, RepairRowKeeps DEF ChainStep
<1>2. ASSUME NEW u \in Unhashed, InsertUnhashed(u) PROVE CInv'
  BY <1>2, InsertUnhashedKeeps
<1>3. ASSUME Expunge PROVE CInv'
  BY <1>3, RemoveKeeps DEF Expunge
<1>4. ASSUME ArchiveOne PROVE CInv'
  BY <1>4, RemoveKeeps DEF ArchiveOne
<1>5. ASSUME UNCHANGED chainVars PROVE CInv'
  BY <1>5 DEF chainVars, CInv, ChainTypeOK, ArrivedOnce, Arrived, PlaceOK, HasArrived
<1> QED BY <1>1, <1>2, <1>3, <1>4, <1>5, AlterRowKeeps, CrashKeeps, TickKeeps DEF ChainNext

(* Whatever appends, repairs, retention, crashes and alterations do, a row *)
(* keeps the time it arrived under, each id arrives once, and the log      *)
(* stays in the order verification reads it (storage.ts:1388-1506).        *)
THEOREM ChainStaysOrdered == ChainSpec => []CInv
BY CInvStarts, CInvKept, PTL DEF ChainSpec

(* Rows, requests and repairs keep their shapes, whatever is removed from  *)
(* the log or altered in it.                                               *)
THEOREM ChainTyped == ChainSpec => []ChainTypeOK
<1>1. CInv => ChainTypeOK
  BY DEF CInv
<1> QED BY <1>1, ChainStaysOrdered, PTL
-----------------------------------------------------------------------------
(* The anchors.  What a step does to the rows of the log, for them: it     *)
(* brings no row back, and a row that joins has not arrived before.        *)
InLog(id) == \E i \in DOMAIN log : log[i].id = id

LogMoves ==
    \/ arrived' = arrived /\ \A id : InLog(id)' => InLog(id)
    \/ \E x \in Arrivals :
          /\ ~HasArrived(x.id)
          /\ arrived' = Append(arrived, x)
          /\ \A id : InLog(id)' => InLog(id) \/ id = x.id

LEMMA JoinsLog ==
    ASSUME CInv, NEW row \in Rows, ~HasArrived(row.id), log' \in Inserted(row),
           arrived' = Append(arrived, [id |-> row.id, at |-> row.at])
    PROVE  LogMoves
<1>1. PICK x \in Arrivals : x = [id |-> row.id, at |-> row.at]
  BY DEF Arrivals, Rows
<1>2. x.id = row.id /\ arrived' = Append(arrived, x)
  BY <1>1
<1>3. PICK new : new = log'
  OBVIOUS
<1>4. log \in Seq(Rows) /\ new \in Inserted(row)
  BY <1>3, TypesOf
<1>5. /\ new \in Seq(Rows)
      /\ \E k \in 0..Len(log) :
                 /\ Enters(log, row, new, k)
                 /\ \A i \in 1..k : log[i].at <= row.at
                 /\ \A i \in (k + 1)..Len(log) : log[i].at >= row.at
  BY <1>4, InsertedIs
<1>6. PICK k \in 0..Len(log) : Enters(log, row, new, k)
  BY <1>5
<1>7. ASSUME NEW i \in DOMAIN new
      PROVE  new[i] = row \/ \E j \in DOMAIN log : new[i] = log[j]
  BY <1>4, <1>5, <1>6, EntersAt
<1>8. \A id : InLog(id)' => InLog(id) \/ id = x.id
  BY <1>2, <1>3, <1>7 DEF InLog
<1> QED BY <1>2, <1>8 DEF LogMoves

LEMMA LogDoesMove ==
    ASSUME CInv, [ChainNext \/ ChainCrash]_chainVars PROVE LogMoves
<1>1. ASSUME UNCHANGED <<log, arrived>> PROVE LogMoves
  BY <1>1 DEF LogMoves, InLog
<1>2. ASSUME NEW r \in Requests, Insert(r) PROVE LogMoves
  <2>1. mine[r] \in Minds /\ ~HasArrived(r) /\ mine[r].at \in 1..now /\ r \in Ids
    BY <1>2 DEF CInv, PlaceOK, Insert, ChainTypeOK, Minds, Ids
  <2>2. mine[r].prev \in Hashes /\ mine[r].at \in 1..MaxTime
    BY <2>1, TypesOf, ChainNumbers DEF Minds
  <2>3. Hash(mine[r].prev, mine[r].at, r) \in Hashes
    BY <2>1, <2>2, HashTyped
  <2>4. PICK row \in Rows : row = AppendedRow(r)
    BY <2>1, <2>2, <2>3 DEF AppendedRow, Row, Rows
  <2>5. row.id = r /\ row.at = mine[r].at
    BY <2>4 DEF AppendedRow, Row
  <2>6. /\ log' \in Inserted(row) /\ ~HasArrived(row.id)
        /\ arrived' = Append(arrived, [id |-> row.id, at |-> row.at])
    BY <1>2, <2>1, <2>4, <2>5 DEF Insert
  <2> QED BY <2>6, JoinsLog
<1>3. ASSUME NEW r \in Requests, RepairRow(r) PROVE LogMoves
  <2>1. PICK row \in Rows :
          /\ Arrived(row.id, row.at) /\ arrived' = arrived
          /\ log' = [i \in DOMAIN log |-> IF log[i].id = row.id THEN row ELSE log[i]]
    BY <1>3, RowToPatch
  <2>2. /\ DOMAIN log' = DOMAIN log
        /\ \A i \in DOMAIN log : log'[i].id = log[i].id
    BY <2>1, Patched
  <2> QED BY <2>1, <2>2 DEF LogMoves, InLog
<1>4. ASSUME NEW r \in Requests, ChainStep(r) PROVE LogMoves
  BY <1>1, <1>2, <1>3, <1>4
     DEF ChainStep, Read, Stamp, AppendFails, RepairRead, RepairFails
<1>5. ASSUME NEW u \in Unhashed, InsertUnhashed(u) PROVE LogMoves
  <2>1. u \in Ids /\ now \in 1..MaxTime /\ Genesis \in Hashes
    BY TypesOf DEF Ids
  <2>2. PICK row \in Rows : row = Row(u, now, Genesis, Genesis)
    BY <2>1 DEF Row, Rows
  <2>3. row.id = u /\ row.at = now
    BY <2>2 DEF Row
  <2>4. /\ log' \in Inserted(row) /\ ~HasArrived(row.id)
        /\ arrived' = Append(arrived, [id |-> row.id, at |-> row.at])
    BY <1>5, <2>2, <2>3 DEF InsertUnhashed, HasArrived
  <2> QED BY <2>4, JoinsLog
<1>6. ASSUME NEW gone, Remove(gone) PROVE LogMoves
  <2>1. PICK new, at : /\ new = log' /\ new \in Seq(Rows)
                       /\ at \in [1..Len(new) -> DOMAIN log]
                       /\ \A n \in 1..Len(new) : new[n] = log[at[n]]
    BY <1>6, Removed
  <2>2. \A n \in DOMAIN new : \E i \in DOMAIN log : new[n] = log[i]
    BY <2>1
  <2>3. arrived' = arrived
    BY <1>6 DEF Remove
  <2> QED BY <2>1, <2>2, <2>3 DEF LogMoves, InLog
<1>7. Expunge \/ ArchiveOne => LogMoves
  BY <1>6 DEF Expunge, ArchiveOne
<1>8. ASSUME AlterRow PROVE LogMoves
  BY <1>8, Altered DEF LogMoves, InLog
<1> QED BY <1>1, <1>4, <1>5, <1>7, <1>8 DEF ChainNext, ChainCrash, Tick, chainVars
-----------------------------------------------------------------------------
Covered(id) == \E j \in DOMAIN anchors : id \in anchors[j].ids

(* No row that was in time and is older than the row of id "end" is left   *)
(* out of both the anchors and "ids".                                      *)
LeavesNone(end, ids) ==
    \A n, e \in DOMAIN arrived :
        (/\ InLog(arrived[n].id) /\ ~Late(n)
         /\ arrived[e].id = end /\ arrived[n].at < arrived[e].at) =>
            arrived[n].id \in ids \/ Covered(arrived[n].id)

Anchored == [first : Ids, last : Ids, root : Seq(Hashes), at : 1..MaxTime, ids : SUBSET Ids]

AnchorOK(anchor) ==
    /\ HasArrived(anchor.last) /\ anchor.last \in anchor.ids
    /\ LeavesNone(anchor.last, {})

EndsAnAnchor(id) == \E k \in DOMAIN anchors : anchors[k].last = id

(* What a run of createAnchor holds: the id its anchor is to start from,   *)
(* then that row, then the rows it goes through.                           *)
RunOK(place, ref, s) ==
    /\ place = "find" => \A x \in ref : x \in Ids /\ EndsAnAnchor(x)
    /\ place = "gather" =>
          \A x \in ref : x \in Rows /\ Arrived(x.id, x.at) /\ EndsAnAnchor(x.id)
    /\ place = "anchor" =>
          /\ s # <<>> /\ HasArrived(s[Len(s)].id)
          /\ LeavesNone(s[Len(s)].id, Members(Field(s, "id")))

AInv ==
    /\ CInv /\ TypeOK
    /\ \A k \in DOMAIN anchors : AnchorOK(anchors[k])
    /\ \A a \in Anchorers : RunOK(apc[a], last[a], rows[a])

LEMMA AnchorTypes ==
    ASSUME AInv
    PROVE  /\ CInv /\ anchors \in Seq(Anchored)
           /\ apc \in [Anchorers -> {"idle", "find", "gather", "anchor"}]
           /\ last \in [Anchorers -> (SUBSET Ids) \cup (SUBSET Rows)]
           /\ rows \in [Anchorers -> Seq(Rows)]
BY DEF AInv, TypeOK, Anchored

LEMMA LeavesNoneStays ==
    ASSUME CInv, LogMoves, NEW end, NEW ids, HasArrived(end), LeavesNone(end, ids),
           \A id : Covered(id) => Covered(id)'
    PROVE  LeavesNone(end, ids)' /\ HasArrived(end)'
<1>1. CASE arrived' = arrived /\ \A id : InLog(id)' => InLog(id)
  <2>1. \A n : Late(n)' = Late(n)
    BY <1>1 DEF Late
  <2> QED BY <1>1, <2>1 DEF LeavesNone, HasArrived
<1>2. ASSUME NEW x \in Arrivals, ~HasArrived(x.id), arrived' = Append(arrived, x),
             \A id : InLog(id)' => InLog(id) \/ id = x.id
      PROVE  LeavesNone(end, ids)' /\ HasArrived(end)'
  <2>1. /\ Len(arrived) \in Nat
        /\ \A n \in 1..Len(arrived) : arrived'[n] = arrived[n]
        /\ arrived'[Len(arrived) + 1] = x
        /\ DOMAIN arrived = 1..Len(arrived)
        /\ DOMAIN arrived' = 1..(Len(arrived) + 1)
        /\ arrived \in Seq(Arrivals)
    BY <1>2, ArrivedMore, TypesOf
  <2>2. PICK N \in Nat : N = Len(arrived)
    BY <2>1
  <2>3. \A n \in 1..N : Late(n)' = Late(n)
    <3> SUFFICES ASSUME NEW n \in 1..N PROVE Late(n)' = Late(n)
      OBVIOUS
    <3>1. \A m \in 1..n - 1 : m \in 1..N
      BY <2>2
    <3> QED BY <2>1, <2>2, <3>1 DEF Late
  <2>4. \A n \in 1..(N + 1) : n \in 1..N \/ n = N + 1
    BY <2>2
  <2>5. end # x.id
    BY <1>2
  <2>6. ASSUME NEW n \in 1..(N + 1), NEW e \in 1..(N + 1),
               InLog(arrived[n].id)', ~Late(n)',
               arrived'[e].id = end, arrived'[n].at < arrived'[e].at
        PROVE  arrived'[n].id \in ids \/ Covered(arrived[n].id)'
    <3>1. e \in 1..N
      BY <2>1, <2>2, <2>4, <2>5, <2>6
    <3>2. CASE n \in 1..N
      <4>1. arrived'[n] = arrived[n] /\ arrived'[e] = arrived[e] /\ ~Late(n)
        BY <2>1, <2>2, <2>3, <2>6, <3>1, <3>2
      <4>2. PICK id : id = arrived[n].id /\ id = arrived'[n].id
        BY <4>1
      <4>3. InLog(id)'
        BY <2>6, <4>2 DEF InLog
      <4>4. id # x.id
        BY <1>2, <2>1, <2>2, <3>2, <4>2 DEF HasArrived
      <4>5. InLog(id)
        BY <1>2, <4>3, <4>4
      <4>6. id \in ids \/ Covered(id)
        BY <2>1, <2>2, <2>6, <3>1, <3>2, <4>1, <4>2, <4>5 DEF LeavesNone
      <4>7. id \in ids \/ Covered(id)'
        BY <4>6
      <4> QED BY <4>2, <4>7 DEF Covered
    <3>3. CASE n = N + 1
      <4>1. e \in 1..n - 1
        BY <2>2, <3>1, <3>3
      <4>2. ~(arrived'[e].at > arrived'[n].at)
        BY <2>6, <4>1 DEF Late
      <4>3. arrived'[e].at \in Nat /\ arrived'[n].at \in Nat
        <5>1. PICK y \in Arrivals : y = arrived'[e]
          BY <2>1, <2>2, <3>1
        <5>2. arrived'[n] = x
          BY <2>1, <2>2, <3>3
        <5>3. x.at \in Nat /\ y.at \in Nat
          BY ChainNumbers DEF Arrivals
        <5> QED BY <5>1, <5>2, <5>3
      <4> QED BY <2>6, <4>2, <4>3
    <3> QED BY <2>4, <3>2, <3>3
  <2>7. LeavesNone(end, ids)'
    BY <2>1, <2>2, <2>6 DEF LeavesNone
  <2>8. HasArrived(end)'
    <3>1. PICK n \in 1..N : arrived[n].id = end
      BY <2>1, <2>2 DEF HasArrived
    <3>2. n \in 1..(N + 1) /\ arrived'[n].id = end
      BY <2>1, <2>2, <3>1
    <3> QED BY <2>1, <2>2, <3>2 DEF HasArrived
  <2> QED BY <2>7, <2>8
<1> QED BY <1>1, <1>2 DEF LogMoves

LEMMA RunStays ==
    ASSUME CInv, LogMoves, NEW place, NEW ref, NEW s, RunOK(place, ref, s),
           \A id : Covered(id) => Covered(id)',
           \A id : EndsAnAnchor(id) => EndsAnAnchor(id)'
    PROVE  RunOK(place, ref, s)'
<1>1. \A id, at : Arrived(id, at) => Arrived(id, at)'
  <2>1. CASE arrived' = arrived
    BY <2>1 DEF Arrived
  <2>2. ASSUME NEW x \in Arrivals, arrived' = Append(arrived, x)
        PROVE  \A id, at : Arrived(id, at) => Arrived(id, at)'
    BY <2>2, ArrivedMore
  <2> QED BY <2>1, <2>2 DEF LogMoves
<1>2. ASSUME place = "find"
      PROVE  \A x \in ref : x \in Ids /\ EndsAnAnchor(x)'
  BY <1>2 DEF RunOK
<1>3. ASSUME place = "gather"
      PROVE  \A x \in ref : x \in Rows /\ Arrived(x.id, x.at)' /\ EndsAnAnchor(x.id)'
  BY <1>1, <1>3 DEF RunOK
<1>4. ASSUME place = "anchor"
      PROVE  /\ s # <<>> /\ HasArrived(s[Len(s)].id)'
             /\ LeavesNone(s[Len(s)].id, Members(Field(s, "id")))'
  <2>1. PICK end, ids : end = s[Len(s)].id /\ ids = Members(Field(s, "id"))
    OBVIOUS
  <2>2. s # <<>> /\ HasArrived(end) /\ LeavesNone(end, ids)
    BY <1>4, <2>1 DEF RunOK
  <2>3. LeavesNone(end, ids)' /\ HasArrived(end)'
    BY <2>2, LeavesNoneStays
  <2> QED BY <2>1, <2>2, <2>3
<1> QED BY <1>2, <1>3, <1>4 DEF RunOK

LEMMA AnchorStays ==
    ASSUME CInv, LogMoves, NEW anchor, AnchorOK(anchor),
           \A id : Covered(id) => Covered(id)'
    PROVE  AnchorOK(anchor)'
<1>1. PICK end : end = anchor.last
  OBVIOUS
<1>2. HasArrived(end) /\ LeavesNone(end, {}) /\ end \in anchor.ids
  BY <1>1 DEF AnchorOK
<1>3. LeavesNone(end, {})' /\ HasArrived(end)'
  BY <1>2, LeavesNoneStays
<1> QED BY <1>1, <1>2, <1>3 DEF AnchorOK

(* The log moves under the anchors and the runs of createAnchor.           *)
LEMMA LogMovesUnder ==
    ASSUME AInv, LogMoves, CInv', UNCHANGED anchors,
           apc' \in [Anchorers -> {"idle", "find", "gather", "anchor"}],
           last' \in [Anchorers -> (SUBSET Ids) \cup (SUBSET Rows)],
           rows' \in [Anchorers -> Seq(Rows)],
           \A a \in Anchorers : \/ apc'[a] = "idle"
                                \/ /\ apc'[a] = apc[a] /\ last'[a] = last[a]
                                   /\ rows'[a] = rows[a]
    PROVE  AInv'
<1>1. TypeOK'
  BY AnchorTypes DEF TypeOK, CInv, Anchored
<1>2. CInv /\ (\A id : Covered(id) => Covered(id)')
      /\ (\A id : EndsAnAnchor(id) => EndsAnAnchor(id)')
  BY AnchorTypes DEF Covered, EndsAnAnchor
<1>3. ASSUME NEW k \in DOMAIN anchors PROVE AnchorOK(anchors[k])'
  <2>1. PICK anchor : anchor = anchors[k]
    OBVIOUS
  <2>2. AnchorOK(anchor)
    BY <2>1 DEF AInv
  <2>3. AnchorOK(anchor)'
    BY <1>2, <2>2, AnchorStays
  <2> QED BY <2>1, <2>3 DEF AnchorOK, HasArrived, LeavesNone, InLog, Late, Covered
<1>4. ASSUME NEW a \in Anchorers PROVE RunOK(apc[a], last[a], rows[a])'
  <2>1. CASE apc'[a] = "idle"
    BY <2>1 DEF RunOK
  <2>2. CASE apc'[a] = apc[a] /\ last'[a] = last[a] /\ rows'[a] = rows[a]
    <3>1. PICK place, ref, s : place = apc[a] /\ ref = last[a] /\ s = rows[a]
      OBVIOUS
    <3>2. RunOK(place, ref, s)
      BY <3>1 DEF AInv
    <3>3. RunOK(place, ref, s)'
      BY <1>2, <3>2, RunStays
    <3> QED BY <2>2, <3>1, <3>3
       DEF RunOK, HasArrived, LeavesNone, InLog, Late, Covered, Arrived, EndsAnAnchor
  <2> QED BY <2>1, <2>2
<1> QED BY <1>1, <1>3, <1>4 DEF AInv

(* A run of createAnchor moves on, without an anchor yet.                  *)
LEMMA RunMoves ==
    ASSUME AInv, UNCHANGED <<chainVars, anchors>>, NEW a \in Anchorers,
           NEW place \in {"idle", "find", "gather", "anchor"},
           NEW ref \in (SUBSET Ids) \cup (SUBSET Rows), NEW s \in Seq(Rows),
           Hold(a, place, ref, s), RunOK(place, ref, s)
    PROVE  AInv'
<1>1. /\ apc' = [apc EXCEPT ![a] = place] /\ last' = [last EXCEPT ![a] = ref]
      /\ rows' = [rows EXCEPT ![a] = s] /\ anchors' = anchors
      /\ UNCHANGED <<now, log, arrived, pc, mine, quiet>>
  BY DEF Hold, chainVars
<1>2. CInv'
  BY <1>1, AnchorTypes DEF CInv, ChainTypeOK, ArrivedOnce, Arrived, PlaceOK, HasArrived
<1>3. TypeOK'
  BY <1>1, <1>2, AnchorTypes DEF TypeOK, CInv, Anchored
<1>4. \A n : Late(n)' = Late(n)
  BY <1>1 DEF Late
<1>5. ASSUME NEW k \in DOMAIN anchors PROVE AnchorOK(anchors[k])'
  <2>1. AnchorOK(anchors[k])
    BY DEF AInv
  <2> QED BY <1>1, <1>4, <2>1 DEF AnchorOK, HasArrived, LeavesNone, InLog, Covered
<1>6. ASSUME NEW b \in Anchorers PROVE RunOK(apc[b], last[b], rows[b])'
  <2>1. CASE b = a
    <3>1. apc'[b] = place /\ last'[b] = ref /\ rows'[b] = s
      BY <1>1, <2>1, AnchorTypes
    <3> QED BY <1>1, <1>4, <3>1
       DEF RunOK, HasArrived, LeavesNone, InLog, Covered, Arrived, EndsAnAnchor
  <2>2. CASE b # a
    <3>1. apc'[b] = apc[b] /\ last'[b] = last[b] /\ rows'[b] = rows[b]
      BY <1>1, <2>2, AnchorTypes
    <3>2. RunOK(apc[b], last[b], rows[b])
      BY DEF AInv
    <3> QED BY <1>1, <1>4, <3>1, <3>2
       DEF RunOK, HasArrived, LeavesNone, InLog, Covered, Arrived, EndsAnAnchor
  <2> QED BY <2>1, <2>2
<1> QED BY <1>1, <1>2, <1>3, <1>5, <1>6 DEF AInv
-----------------------------------------------------------------------------
LEMMA FindLastKeeps ==
    ASSUME AInv, NEW a \in Anchorers, FindLast(a) PROVE AInv'
<1>1. <<>> \in Seq(Rows) /\ {} \in (SUBSET Ids) \cup (SUBSET Rows)
  OBVIOUS
<1>2. UNCHANGED <<chainVars, anchors>>
  BY DEF FindLast
<1>3. CASE Hold(a, "gather", {}, <<>>)
  <2>1. RunOK("gather", {}, <<>>)
    BY DEF RunOK
  <2> QED BY <1>1, <1>2, <1>3, <2>1, RunMoves
<1>4. ASSUME NEW k \in DOMAIN anchors, Hold(a, "find", {anchors[k].last}, <<>>)
      PROVE  AInv'
  <2>1. PICK x : x = anchors[k].last
    OBVIOUS
  <2>2. x \in Ids /\ EndsAnAnchor(x)
    <3>1. PICK anchor \in Anchored : anchor = anchors[k]
      BY AnchorTypes
    <3>2. anchor.last \in Ids
      BY DEF Anchored
    <3> QED BY <2>1, <3>1, <3>2 DEF EndsAnAnchor
  <2>3. RunOK("find", {x}, <<>>)
    BY <2>2 DEF RunOK
  <2>4. Hold(a, "find", {x}, <<>>) /\ {x} \in (SUBSET Ids) \cup (SUBSET Rows)
    BY <1>4, <2>1, <2>2
  <2> QED BY <1>1, <1>2, <2>3, <2>4, RunMoves
<1> QED BY <1>3, <1>4 DEF FindLast

LEMMA FindRefKeeps ==
    ASSUME AInv, NEW a \in Anchorers, FindRef(a) PROVE AInv'
<1>1. PICK ref : ref = RowsOf(last[a])
  OBVIOUS
<1>2. /\ UNCHANGED <<chainVars, anchors>> /\ Hold(a, "gather", ref, <<>>)
      /\ apc[a] = "find"
  BY <1>1 DEF FindRef
<1>3. \A x \in last[a] : EndsAnAnchor(x)
  <2>1. RunOK("find", last[a], rows[a])
    BY <1>2 DEF AInv
  <2> QED BY <2>1 DEF RunOK
<1>4. ASSUME NEW x \in ref
      PROVE  x \in Rows /\ Arrived(x.id, x.at) /\ EndsAnAnchor(x.id)
  <2>1. PICK i \in DOMAIN log : x = log[i] /\ x.id \in last[a]
    BY <1>1 DEF RowsOf, Members
  <2>2. log[i] \in Rows /\ Arrived(log[i].id, log[i].at)
    BY AnchorTypes, TypesOf DEF CInv
  <2> QED BY <1>3, <2>1, <2>2
<1>5. RunOK("gather", ref, <<>>)
  BY <1>4 DEF RunOK
<1>6. <<>> \in Seq(Rows)
  OBVIOUS
<1>7. ref \in (SUBSET Ids) \cup (SUBSET Rows)
  <2>1. ref \in SUBSET Rows
    BY <1>4
  <2> QED BY <2>1
<1> QED BY <1>2, <1>5, <1>6, <1>7, RunMoves

LEMMA StopKeeps ==
    ASSUME AInv, NEW a \in Anchorers, Stop(a), UNCHANGED <<chainVars, anchors>>
    PROVE  AInv'
<1>1. <<>> \in Seq(Rows) /\ {} \in (SUBSET Ids) \cup (SUBSET Rows)
  OBVIOUS
<1>2. RunOK("idle", {}, <<>>) /\ Hold(a, "idle", {}, <<>>)
  BY DEF RunOK, Stop
<1> QED BY <1>1, <1>2, RunMoves

LEMMA ByTimeIs ==
    ASSUME NEW S, NEW s \in Seq(S), NEW t \in ByTime(s)
    PROVE  t \in Seq(S) /\ Members(t) = Members(s) /\ DOMAIN t = DOMAIN s
<1>1. t \in [DOMAIN s -> Members(s)] /\ Members(t) = Members(s)
  BY DEF ByTime
<1>2. Members(s) \subseteq S
  BY DEF Members
<1>3. PICK N \in Nat : DOMAIN s = 1..N
  OBVIOUS
<1>4. t \in [1..N -> S]
  BY <1>1, <1>2, <1>3
<1> QED BY <1>1, <1>3, <1>4

LEMMA HashesOfIs ==
    ASSUME NEW s \in Seq(Rows)
    PROVE  HashesOf(s) \in Seq(Hashes) /\ (s = <<>> => HashesOf(s) = <<>>)
<1>1. PICK I : I = {i \in DOMAIN s : s[i].hash # Genesis}
  OBVIOUS
<1>2. PICK kept : kept = Kept(s, I)
  OBVIOUS
<1>3. I \in SUBSET (1..Len(s))
  BY <1>1
<1>4. /\ kept \in Seq(Rows)
      /\ \E at \in [1..Len(kept) -> I] :
            /\ \A n, m \in 1..Len(kept) : n < m => at[n] < at[m]
            /\ \A i \in I : \E n \in 1..Len(kept) : at[n] = i
            /\ \A n \in 1..Len(kept) : kept[n] = s[at[n]]
  BY <1>2, <1>3, KeptIs
<1>5. PICK N \in Nat : N = Len(kept) /\ DOMAIN kept = 1..N
  BY <1>4
<1>6. HashesOf(s) = [i \in 1..N |-> kept[i].hash]
  BY <1>1, <1>2, <1>5 DEF HashesOf, Hashed, Field
<1>7. \A i \in 1..N : kept[i].hash \in Hashes
  <2>1. \A x \in Rows : x.hash \in Hashes
    BY DEF Rows
  <2> QED BY <1>4, <1>5, <2>1
<1>8. HashesOf(s) \in Seq(Hashes)
  BY <1>6, <1>7
<1>9. ASSUME s = <<>> PROVE HashesOf(s) = <<>>
  <2>1. I = {}
    BY <1>1, <1>9
  <2>2. 1..N = {}
    BY <1>4, <1>5, <2>1
  <2>3. N = 0
    <3>1. N # 0 => 1 \in 1..N
      BY <1>5
    <3> QED BY <2>2, <3>1
  <2> QED BY <1>6, <1>8, <2>3
<1> QED BY <1>8, <1>9

(* A row that is in the log and that Since leaves out is the last anchored *)
(* one, or older than it.                                                  *)
LEMMA SinceIs ==
    ASSUME CInv, NEW ref \in SUBSET Rows
    PROVE  /\ Since(ref) \in Seq(Rows)
           /\ \A x \in Members(Since(ref)) : Arrived(x.id, x.at)
           /\ \A i \in DOMAIN log :
                 \/ log[i] \in Members(Since(ref))
                 \/ \E prev \in ref : log[i].at < prev.at \/ log[i].id = prev.id
<1>1. PICK all \in Seq(Rows) : all = log
  BY TypesOf
<1>2. PICK I : I = {i \in DOMAIN all :
                      \A prev \in ref : all[i].at >= prev.at /\ all[i].id # prev.id}
  OBVIOUS
<1>3. PICK kept : kept = Kept(all, I) /\ kept = Since(ref)
  BY <1>1, <1>2 DEF Since
<1>4. I \in SUBSET (1..Len(all)) /\ kept = Kept(all, I)
  BY <1>2, <1>3
<1>5. /\ kept \in Seq(Rows)
      /\ \E at \in [1..Len(kept) -> I] :
            /\ \A n, m \in 1..Len(kept) : n < m => at[n] < at[m]
            /\ \A i \in I : \E n \in 1..Len(kept) : at[n] = i
            /\ \A n \in 1..Len(kept) : kept[n] = all[at[n]]
  BY <1>4, KeptIs
<1>6. PICK at \in [1..Len(kept) -> I] :
            /\ \A i \in I : \E n \in 1..Len(kept) : at[n] = i
            /\ \A n \in 1..Len(kept) : kept[n] = all[at[n]]
  BY <1>5
<1>7. DOMAIN kept = 1..Len(kept)
  BY <1>5
<1>8. ASSUME NEW x \in Members(kept) PROVE Arrived(x.id, x.at)
  <2>1. PICK n \in 1..Len(kept) : x = kept[n]
    BY <1>7 DEF Members
  <2>2. PICK i \in I : x = all[i]
    BY <1>6, <2>1
  <2>3. i \in DOMAIN log /\ x = log[i]
    BY <1>1, <1>2, <2>2
  <2> QED BY <2>3 DEF CInv
<1>9. ASSUME NEW i \in DOMAIN all
      PROVE  \/ all[i] \in Members(kept)
             \/ \E prev \in ref : all[i].at < prev.at \/ all[i].id = prev.id
  <2>1. CASE i \in I
    <3>1. PICK n \in 1..Len(kept) : at[n] = i
      BY <1>6, <2>1
    <3> QED BY <1>6, <1>7, <3>1 DEF Members
  <2>2. CASE i \notin I
    <3>1. PICK prev \in ref : ~(all[i].at >= prev.at) \/ all[i].id = prev.id
      BY <1>2, <2>2
    <3>2. all[i].at \in Nat /\ prev.at \in Nat
      <4>1. \A x \in Rows : x.at \in Nat
        BY ChainNumbers DEF Rows
      <4> QED BY <1>1, <4>1
    <3> QED BY <3>1, <3>2
  <2> QED BY <2>1, <2>2
<1> QED BY <1>1, <1>3, <1>5, <1>8, <1>9

LEMMA GatherKeeps ==
    ASSUME AInv, NEW a \in Anchorers, Gather(a) PROVE AInv'
<1>1. UNCHANGED <<chainVars, anchors>> /\ apc[a] = "gather" /\ CInv
  BY AnchorTypes DEF Gather
<1>2. PICK ref : ref = last[a]
  OBVIOUS
<1>3. \A x \in ref : x \in Rows /\ Arrived(x.id, x.at) /\ EndsAnAnchor(x.id)
  <2>1. RunOK("gather", last[a], rows[a])
    BY <1>1 DEF AInv
  <2> QED BY <1>2, <2>1 DEF RunOK
<1>4. ref \in SUBSET Rows
  BY <1>3
<1>5. PICK since : since = Since(ref)
  OBVIOUS
<1>6. /\ since \in Seq(Rows)
      /\ \A x \in Members(since) : Arrived(x.id, x.at)
      /\ \A i \in DOMAIN log :
                 \/ log[i] \in Members(since)
                 \/ \E prev \in ref : log[i].at < prev.at \/ log[i].id = prev.id
  BY <1>1, <1>4, <1>5, SinceIs
<1>7. PICK found \in ByTime(since) :
        IF HashesOf(found) = <<>> THEN Stop(a) ELSE Hold(a, "anchor", {}, found)
  BY <1>2, <1>5 DEF Gather
<1>8. found \in Seq(Rows) /\ Members(found) = Members(since)
  BY <1>6, ByTimeIs
<1>9. CASE HashesOf(found) = <<>>
  BY <1>1, <1>7, <1>9, StopKeeps
<1>10. CASE HashesOf(found) # <<>>
  <2>1. Hold(a, "anchor", {}, found) /\ found # <<>>
    BY <1>7, <1>8, <1>10, HashesOfIs
  <2>2. PICK end, ids : end = found[Len(found)].id /\ ids = Members(Field(found, "id"))
    OBVIOUS
  <2>3. \A x \in Members(found) : x.id \in ids
    BY <1>8, <2>2 DEF Members, Field
  <2>4. HasArrived(end)
    <3>1. found[Len(found)] \in Members(found)
      <4>1. Len(found) \in DOMAIN found
        BY <1>8, <2>1
      <4> QED BY <4>1 DEF Members
    <3> QED BY <1>6, <1>8, <2>2, <3>1 DEF Arrived, HasArrived
  <2>5. ASSUME NEW n \in DOMAIN arrived, InLog(arrived[n].id), ~Late(n)
        PROVE  arrived[n].id \in ids \/ Covered(arrived[n].id)
    <3>1. PICK i \in DOMAIN log : log[i].id = arrived[n].id
      BY <2>5 DEF InLog
    <3>2. CASE log[i] \in Members(since)
      BY <1>8, <2>3, <3>1, <3>2
    <3>3. ASSUME NEW prev \in ref, log[i].at < prev.at \/ log[i].id = prev.id
          PROVE  Covered(arrived[n].id)
      <4>1. PICK k \in DOMAIN anchors : anchors[k].last = prev.id
        BY <1>3 DEF EndsAnAnchor
      <4>2. AnchorOK(anchors[k])
        BY DEF AInv
      <4>3. CASE log[i].id = prev.id
        BY <3>1, <4>1, <4>2, <4>3 DEF AnchorOK, Covered
      <4>4. CASE log[i].at < prev.at
        <5>1. PICK e \in DOMAIN arrived : arrived[e].id = prev.id /\ arrived[e].at = prev.at
          BY <1>3 DEF Arrived
        <5>2. arrived[n].at = log[i].at
          BY <1>1, <3>1 DEF CInv, Arrived, ArrivedOnce
        <5>3. arrived[n].at < arrived[e].at /\ arrived[e].id = anchors[k].last
          BY <4>1, <4>4, <5>1, <5>2
        <5>4. LeavesNone(anchors[k].last, {})
          BY <4>2 DEF AnchorOK
        <5> QED BY <2>5, <5>3, <5>4 DEF LeavesNone
      <4> QED BY <3>3, <4>3, <4>4
    <3> QED BY <1>6, <3>2, <3>3
  <2>6. LeavesNone(end, ids)
    BY <2>5 DEF LeavesNone
  <2>7. RunOK("anchor", {}, found)
    BY <2>1, <2>2, <2>4, <2>6 DEF RunOK
  <2>8. {} \in (SUBSET Ids) \cup (SUBSET Rows)
    OBVIOUS
  <2> QED BY <1>1, <1>8, <2>1, <2>7, <2>8, RunMoves
<1> QED BY <1>9, <1>10

LEMMA InsertAnchorKeeps ==
    ASSUME AInv, NEW a \in Anchorers, InsertAnchor(a) PROVE AInv'
<1>1. PICK s \in Seq(Rows) : s = rows[a]
  BY AnchorTypes
<1>2. PICK end, ids : end = s[Len(s)].id /\ ids = Members(Field(s, "id"))
  OBVIOUS
<1>3. s # <<>> /\ HasArrived(end) /\ LeavesNone(end, ids)
  <2>1. RunOK("anchor", last[a], rows[a])
    BY DEF AInv, InsertAnchor
  <2> QED BY <1>1, <1>2, <2>1 DEF RunOK
<1>4. PICK anchor : anchor = [first |-> s[1].id, last |-> end, root |-> HashesOf(s),
                              at |-> now, ids |-> ids]
  OBVIOUS
<1>5. /\ anchors' = Append(anchors, anchor) /\ UNCHANGED chainVars
      /\ apc' = [apc EXCEPT ![a] = "idle"] /\ last' = [last EXCEPT ![a] = {}]
      /\ rows' = [rows EXCEPT ![a] = <<>>]
  BY <1>1, <1>2, <1>4 DEF InsertAnchor, Stop, Hold
<1>6. anchor \in Anchored /\ end \in ids
  <2>1. 1 \in DOMAIN s /\ Len(s) \in DOMAIN s
    BY <1>3
  <2>2. \A x \in Rows : x.id \in Ids
    BY DEF Rows
  <2>3. s[1].id \in Ids /\ end \in Ids
    BY <1>2, <2>1, <2>2
  <2>4. ids \in SUBSET Ids /\ end \in ids
    <3>1. ids = {s[i].id : i \in DOMAIN s}
      BY <1>2 DEF Members, Field
    <3>2. \A i \in DOMAIN s : s[i].id \in Ids
      BY <2>2
    <3> QED BY <1>2, <2>1, <3>1, <3>2
  <2>5. HashesOf(s) \in Seq(Hashes)
    BY HashesOfIs
  <2>6. now \in 1..MaxTime
    BY AnchorTypes, TypesOf
  <2> QED BY <1>4, <2>3, <2>4, <2>5, <2>6 DEF Anchored
<1>7. PICK N, new : /\ N \in Nat /\ N = Len(anchors) /\ new = anchors'
                    /\ new \in Seq(Anchored)
                    /\ DOMAIN anchors = 1..N /\ DOMAIN new = 1..(N + 1)
                    /\ \A k \in 1..N : new[k] = anchors[k]
                    /\ new[N + 1] = anchor
  <2>1. anchors \in Seq(Anchored)
    BY AnchorTypes
  <2>2. PICK new : new = Append(anchors, anchor)
    OBVIOUS
  <2>3. /\ new \in Seq(Anchored) /\ Len(anchors) \in Nat
        /\ DOMAIN anchors = 1..Len(anchors) /\ DOMAIN new = 1..(Len(anchors) + 1)
        /\ \A k \in 1..Len(anchors) : new[k] = anchors[k]
        /\ new[Len(anchors) + 1] = anchor
    BY <1>6, <2>1, <2>2
  <2> QED BY <1>5, <2>2, <2>3
<1>8. \A k \in 1..N : k \in 1..(N + 1)
  BY <1>7
<1>9. N + 1 \in 1..(N + 1) /\ \A k \in 1..(N + 1) : k \in 1..N \/ k = N + 1
  BY <1>7
<1>10. \A id : Covered(id) => Covered(id)'
  BY <1>7, <1>8 DEF Covered
<1>11. \A id : EndsAnAnchor(id) => EndsAnAnchor(id)'
  BY <1>7, <1>8 DEF EndsAnAnchor
<1>12. \A id \in ids : Covered(id)'
  BY <1>4, <1>7, <1>9 DEF Covered
<1>13. CInv /\ UNCHANGED <<now, log, arrived, pc, mine, quiet>>
  BY <1>5, AnchorTypes DEF chainVars
<1>14. CInv'
  BY <1>13 DEF CInv, ChainTypeOK, ArrivedOnce, Arrived, PlaceOK, HasArrived
<1>15. LogMoves
  BY <1>13 DEF LogMoves, InLog
<1>16. TypeOK'
  <2>1. /\ apc' \in [Anchorers -> {"idle", "find", "gather", "anchor"}]
        /\ last' \in [Anchorers -> (SUBSET Ids) \cup (SUBSET Rows)]
        /\ rows' \in [Anchorers -> Seq(Rows)]
    <3>1. <<>> \in Seq(Rows) /\ {} \in (SUBSET Ids) \cup (SUBSET Rows)
      OBVIOUS
    <3> QED BY <1>5, <3>1, AnchorTypes
  <2> QED BY <1>7, <1>14, <2>1 DEF TypeOK, CInv, Anchored
<1>17. ASSUME NEW k \in 1..(N + 1) PROVE AnchorOK(anchors[k])'
  <2>1. CASE k \in 1..N
    <3>1. PICK old : old = anchors[k] /\ old = anchors'[k]
      BY <1>7, <2>1
    <3>2. AnchorOK(old)
      BY <1>7, <2>1, <3>1 DEF AInv
    <3>3. AnchorOK(old)'
      BY <1>10, <1>13, <1>15, <3>2, AnchorStays
    <3> QED BY <3>1, <3>3 DEF AnchorOK, HasArrived, LeavesNone, InLog, Late, Covered
  <2>2. CASE k = N + 1
    <3>1. LeavesNone(end, ids)' /\ HasArrived(end)'
      BY <1>3, <1>10, <1>13, <1>15, LeavesNoneStays
    <3>2. LeavesNone(end, {})'
      BY <1>12, <3>1 DEF LeavesNone, Covered
    <3>3. AnchorOK(anchor)'
      BY <1>4, <1>6, <3>1, <3>2 DEF AnchorOK
    <3> QED BY <1>7, <2>2, <3>3 DEF AnchorOK, HasArrived, LeavesNone, InLog, Late, Covered
  <2> QED BY <1>9, <2>1, <2>2
<1>18. ASSUME NEW b \in Anchorers PROVE RunOK(apc[b], last[b], rows[b])'
  <2>1. CASE b = a
    <3>1. apc'[b] = "idle"
      BY <1>5, <2>1, AnchorTypes
    <3> QED BY <3>1 DEF RunOK
  <2>2. CASE b # a
    <3>1. PICK place, ref, t : place = apc[b] /\ ref = last[b] /\ t = rows[b]
      OBVIOUS
    <3>2. apc'[b] = place /\ last'[b] = ref /\ rows'[b] = t
      BY <1>5, <2>2, <3>1, AnchorTypes
    <3>3. RunOK(place, ref, t)
      BY <3>1 DEF AInv
    <3>4. RunOK(place, ref, t)'
      BY <1>10, <1>11, <1>13, <1>15, <3>3, RunStays
    <3> QED BY <3>2, <3>4
       DEF RunOK, HasArrived, LeavesNone, InLog, Late, Covered, Arrived, EndsAnAnchor
  <2> QED BY <2>1, <2>2
<1> QED BY <1>7, <1>14, <1>16, <1>17, <1>18
       DEF AInv, AnchorOK, HasArrived, LeavesNone, InLog, Late, Covered
-----------------------------------------------------------------------------
LEMMA AInvStarts == Init => AInv
<1> SUFFICES ASSUME Init PROVE AInv
  OBVIOUS
<1>1. CInv
  BY CInvStarts DEF Init
<1>2. /\ anchors = <<>> /\ DOMAIN anchors = {} /\ anchors \in Seq(Anchored)
      /\ \A a \in Anchorers : apc[a] = "idle"
  BY DEF Init
<1>3. <<>> \in Seq(Rows) /\ {} \in (SUBSET Ids) \cup (SUBSET Rows)
  OBVIOUS
<1>4. TypeOK
  BY <1>1, <1>2, <1>3 DEF Init, TypeOK, CInv, Anchored
<1> QED BY <1>1, <1>2, <1>4 DEF AInv, RunOK

LEMMA AInvKept == AInv /\ [Next]_vars => AInv'
<1> SUFFICES ASSUME AInv, [Next]_vars PROVE AInv'
  OBVIOUS
<1>1. ASSUME [ChainNext]_chainVars, UNCHANGED anchorVars PROVE AInv'
  <2>1. CInv' /\ LogMoves
    BY <1>1, AnchorTypes, CInvKept, LogDoesMove
  <2> QED BY <1>1, <2>1, AnchorTypes, LogMovesUnder DEF anchorVars
<1>2. ASSUME NEW a \in Anchorers, Anchoring(a) PROVE AInv'
  BY <1>2, FindLastKeeps, FindRefKeeps, GatherKeeps, InsertAnchorKeeps, StopKeeps
     DEF Anchoring, AnchorFails
<1>3. ASSUME Crash PROVE AInv'
  <2>1. CInv' /\ LogMoves
    BY <1>3, AnchorTypes, CInvKept, LogDoesMove DEF Crash
  <2>2. <<>> \in Seq(Rows) /\ {} \in (SUBSET Ids) \cup (SUBSET Rows)
    OBVIOUS
  <2> QED BY <1>3, <2>1, <2>2, AnchorTypes, LogMovesUnder DEF Crash
<1>4. CASE UNCHANGED vars
  BY <1>1, <1>4 DEF vars
<1> QED BY <1>1, <1>2, <1>3, <1>4 DEF Next

(* Every anchor covers the row it ends with, and every run of createAnchor *)
(* holds rows after which no older one is left out, whatever joins or      *)
(* leaves the log meanwhile (blockchain-anchor.ts:60-124).                 *)
THEOREM AnchorsStaySound == Spec => []AInv
BY AInvStarts, AInvKept, PTL DEF Spec

(* Anchors and the runs that make them keep their shapes.                  *)
THEOREM AnchorTyped == Spec => []TypeOK
<1>1. AInv => TypeOK
  BY DEF AInv
<1> QED BY <1>1, AnchorsStaySound, PTL

(* Whatever is older than the last row of an anchor, was in time and is    *)
(* still in the log is in some anchor: for any number of runs that         *)
(* overlap, fail or lose the row they were to continue from, and any       *)
(* retention (blockchain-anchor.ts:60-124).                                *)
THEOREM AnchorsSkipNone == Spec => []NoTimelyRowIsSkipped
<1>1. AInv => NoTimelyRowIsSkipped
  <2> SUFFICES ASSUME AInv, NEW n \in DOMAIN arrived, NEW e \in DOMAIN arrived,
                      NEW k \in DOMAIN anchors, RowsOf({arrived[n].id}) # {}, ~Late(n),
                      arrived[e].id = anchors[k].last, arrived[n].at < arrived[e].at
               PROVE  \E j \in DOMAIN anchors : arrived[n].id \in anchors[j].ids
    BY DEF NoTimelyRowIsSkipped
  <2>1. InLog(arrived[n].id)
    BY DEF RowsOf, Members, InLog
  <2>2. LeavesNone(anchors[k].last, {})
    BY DEF AInv, AnchorOK
  <2> QED BY <2>1, <2>2 DEF LeavesNone, Covered
<1> QED BY <1>1, AnchorsStaySound, PTL
-----------------------------------------------------------------------------
(* Verification, told of the log itself: a row that has a hash follows the *)
(* nearest such row before it, or starts a chain.                          *)
Chained(all, i) ==
    /\ all[i].hash = Hash(all[i].prev, all[i].at, all[i].id)
    /\ \/ all[i].prev = Genesis
       \/ \E j \in DOMAIN all :
             /\ j < i /\ all[j].hash = all[i].prev
             /\ \A m \in DOMAIN all : j < m /\ m < i => all[m].hash = Genesis

AllChained(all) == \A i \in DOMAIN all : all[i].hash # Genesis => Chained(all, i)

LEMMA ChainedVerifies ==
    ASSUME NEW all \in Seq(Rows), AllChained(all) PROVE Verifies(all)
<1>1. PICK I : I = {i \in DOMAIN all : all[i].hash # Genesis}
  OBVIOUS
<1>2. PICK entries : entries = Kept(all, I) /\ entries = Hashed(all)
  BY <1>1 DEF Hashed
<1>3. I \in SUBSET (1..Len(all)) /\ entries = Kept(all, I)
  BY <1>1, <1>2
<1>4. /\ entries \in Seq(Rows)
      /\ \E at \in [1..Len(entries) -> I] :
            /\ \A n, m \in 1..Len(entries) : n < m => at[n] < at[m]
            /\ \A i \in I : \E n \in 1..Len(entries) : at[n] = i
            /\ \A n \in 1..Len(entries) : entries[n] = all[at[n]]
  BY <1>3, KeptIs
<1>5. PICK at \in [1..Len(entries) -> I] :
            /\ \A n, m \in 1..Len(entries) : n < m => at[n] < at[m]
            /\ \A i \in I : \E n \in 1..Len(entries) : at[n] = i
            /\ \A n \in 1..Len(entries) : entries[n] = all[at[n]]
  BY <1>4
<1>6. PICK N \in Nat : N = Len(entries) /\ DOMAIN entries = 1..N
  BY <1>4
<1>7. ASSUME NEW n \in 1..N
      PROVE  /\ Linked(entries, n)
             /\ entries[n].hash = Hash(entries[n].prev, entries[n].at, entries[n].id)
  <2>1. PICK i \in I : i = at[n] /\ entries[n] = all[i]
    BY <1>5, <1>6
  <2>2. i \in DOMAIN all /\ Chained(all, i)
    BY <1>1 DEF AllChained
  <2>3. entries[n].hash = Hash(entries[n].prev, entries[n].at, entries[n].id)
    BY <2>1, <2>2 DEF Chained
  <2>4. CASE all[i].prev = Genesis
    BY <2>1, <2>3, <2>4 DEF Linked
  <2>5. CASE all[i].prev # Genesis
    <3>1. PICK j \in DOMAIN all :
             /\ j < i /\ all[j].hash = all[i].prev
             /\ \A m \in DOMAIN all : j < m /\ m < i => all[m].hash = Genesis
      BY <2>2, <2>5 DEF Chained
    <3>2. j \in I
      BY <1>1, <2>5, <3>1
    <3>3. PICK m \in 1..N : at[m] = j /\ entries[m] = all[j]
      BY <1>5, <1>6, <3>2
    <3>4. i \in Nat /\ j \in Nat
      BY <2>2
    <3>5. m < n
      <4>1. m # n
        BY <2>1, <3>1, <3>3, <3>4
      <4>2. ~(n < m)
        <5>1. n < m => at[n] < at[m]
          BY <1>5, <1>6
        <5> QED BY <2>1, <3>1, <3>3, <3>4, <5>1
      <4> QED BY <4>1, <4>2
    <3>6. m = n - 1
      <4> SUFFICES ASSUME m < n - 1 PROVE FALSE
        BY <3>5
      <4>1. PICK l \in 1..N : l = n - 1
        BY <3>5
      <4>2. m < l /\ l < n
        BY <4>1
      <4>3. PICK h \in I : h = at[l]
        BY <1>5, <1>6
      <4>4. j < h /\ h < i
        BY <1>5, <1>6, <2>1, <3>3, <4>2, <4>3
      <4>5. h \in DOMAIN all /\ all[h].hash # Genesis
        BY <1>1
      <4> QED BY <3>1, <4>4, <4>5
    <3>7. n > 1 /\ entries[n].prev = entries[n - 1].hash
      BY <2>1, <3>1, <3>3, <3>5, <3>6
    <3> QED BY <2>3, <3>7 DEF Linked
  <2> QED BY <2>4, <2>5
<1> QED BY <1>2, <1>6, <1>7 DEF Verifies
-----------------------------------------------------------------------------
(* Where a row of the log stands once another has entered after place k.   *)
Shift(k, i) == IF i <= k THEN i ELSE i + 1

Shifted(entries, row, new, k) ==
    /\ k + 1 \in DOMAIN new /\ new[k + 1] = row
    /\ \A i \in DOMAIN entries :
          /\ Shift(k, i) \in DOMAIN new /\ new[Shift(k, i)] = entries[i]
          /\ i <= k => Shift(k, i) < k + 1
          /\ i > k => Shift(k, i) > k + 1
          /\ Shift(k, i) \in Nat /\ i \in Nat
    /\ \A i, j \in DOMAIN entries : i < j <=> Shift(k, i) < Shift(k, j)
    /\ \A n \in DOMAIN new : n = k + 1 \/ \E i \in DOMAIN entries : n = Shift(k, i)

LEMMA EntersShifts ==
    ASSUME NEW entries \in Seq(Rows), NEW row, NEW new \in Seq(Rows),
           NEW k \in 0..Len(entries), Enters(entries, row, new, k)
    PROVE  Shifted(entries, row, new, k)
<1>1. PICK N \in Nat : N = Len(entries)
  OBVIOUS
<1>2. /\ Len(new) = N + 1 /\ k \in Nat /\ k <= N
      /\ \A i \in 1..k : new[i] = entries[i]
      /\ new[k + 1] = row
      /\ \A i \in (k + 1)..N : new[i + 1] = entries[i]
      /\ DOMAIN new = 1..(N + 1) /\ DOMAIN entries = 1..N
  BY <1>1 DEF Enters
<1>3. k + 1 \in 1..(N + 1)
  BY <1>2
<1>4. ASSUME NEW i \in 1..N
      PROVE  /\ Shift(k, i) \in 1..(N + 1) /\ new[Shift(k, i)] = entries[i]
             /\ i <= k => Shift(k, i) < k + 1
             /\ i > k => Shift(k, i) > k + 1
             /\ Shift(k, i) \in Nat /\ i \in Nat
  <2>1. CASE i <= k
    <3>1. i \in 1..k /\ i \in 1..(N + 1) /\ Shift(k, i) = i
      BY <1>2, <2>1 DEF Shift
    <3> QED BY <1>2, <2>1, <3>1
  <2>2. CASE i > k
    <3>1. i \in (k + 1)..N /\ i + 1 \in 1..(N + 1) /\ Shift(k, i) = i + 1
      BY <1>2, <2>2 DEF Shift
    <3> QED BY <1>2, <2>2, <3>1
  <2> QED BY <1>2, <2>1, <2>2
<1>5. \A i, j \in 1..N : i < j <=> Shift(k, i) < Shift(k, j)
  BY <1>2 DEF Shift
<1>6. ASSUME NEW n \in 1..(N + 1)
      PROVE  n = k + 1 \/ \E i \in 1..N : n = Shift(k, i)
  <2>1. CASE n < k + 1
    <3>1. n \in 1..N /\ n = Shift(k, n)
      BY <1>2, <2>1 DEF Shift
    <3> QED BY <3>1
  <2>2. CASE n > k + 1
    <3>1. n - 1 \in 1..N /\ n = Shift(k, n - 1)
      BY <1>2, <2>2 DEF Shift
    <3> QED BY <3>1
  <2> QED BY <1>2, <2>1, <2>2
<1> QED BY <1>2, <1>3, <1>4, <1>5, <1>6 DEF Shifted

(* The last row with a hash has this one: what the next one is to follow.  *)
Ends(all, prev) ==
    \/ prev = Genesis
    \/ \E j \in DOMAIN all :
          /\ all[j].hash = prev
          /\ \A m \in DOMAIN all : j < m => all[m].hash = Genesis

(* A row without a hash joins: the others are chained as before.           *)
LEMMA UnhashedJoins ==
    ASSUME NEW all \in Seq(Rows), NEW row \in Rows, row.hash = Genesis,
           NEW new \in Seq(Rows), NEW k \in 0..Len(all), Enters(all, row, new, k)
    PROVE  /\ AllChained(all) => AllChained(new)
           /\ \A prev : Ends(all, prev) => Ends(new, prev)
<1>1. /\ k + 1 \in DOMAIN new /\ new[k + 1] = row
      /\ \A i \in DOMAIN all :
                 /\ Shift(k, i) \in DOMAIN new /\ new[Shift(k, i)] = all[i]
                 /\ i <= k => Shift(k, i) < k + 1
                 /\ i > k => Shift(k, i) > k + 1
                 /\ Shift(k, i) \in Nat /\ i \in Nat
      /\ \A i, j \in DOMAIN all : i < j <=> Shift(k, i) < Shift(k, j)
      /\ \A n \in DOMAIN new :
                 n = k + 1 \/ \E i \in DOMAIN all : n = Shift(k, i)
  <2>1. Shifted(all, row, new, k)
    BY EntersShifts
  <2> QED BY <2>1 DEF Shifted
<1>2. ASSUME AllChained(all), NEW n \in DOMAIN new, new[n].hash # Genesis
      PROVE  Chained(new, n)
  <2>1. PICK i \in DOMAIN all : n = Shift(k, i)
    BY <1>1, <1>2
  <2>2. new[n] = all[i] /\ Chained(all, i)
    BY <1>1, <1>2, <2>1 DEF AllChained
  <2>3. CASE all[i].prev = Genesis
    BY <2>2, <2>3 DEF Chained
  <2>4. CASE all[i].prev # Genesis
    <3>1. PICK j \in DOMAIN all :
             /\ j < i /\ all[j].hash = all[i].prev
             /\ \A m \in DOMAIN all : j < m /\ m < i => all[m].hash = Genesis
      BY <2>2, <2>4 DEF Chained
    <3>2. PICK l \in DOMAIN new : l = Shift(k, j) /\ l < n /\ new[l] = all[j]
      BY <1>1, <2>1, <3>1
    <3>3. ASSUME NEW m \in DOMAIN new, l < m, m < n PROVE new[m].hash = Genesis
      <4>1. CASE m = k + 1
        BY <1>1, <4>1
      <4>2. CASE m # k + 1
        <5>1. PICK h \in DOMAIN all : m = Shift(k, h)
          BY <1>1, <4>2
        <5>2. j < h /\ h < i
          BY <1>1, <2>1, <3>2, <3>3, <5>1
        <5> QED BY <1>1, <3>1, <5>1, <5>2
      <4> QED BY <4>1, <4>2
    <3> QED BY <2>2, <3>1, <3>2, <3>3 DEF Chained
  <2> QED BY <2>3, <2>4
<1>3. ASSUME NEW prev, Ends(all, prev) PROVE Ends(new, prev)
  <2>1. CASE prev = Genesis
    BY <2>1 DEF Ends
  <2>2. CASE prev # Genesis
    <3>1. PICK j \in DOMAIN all :
             /\ all[j].hash = prev
             /\ \A m \in DOMAIN all : j < m => all[m].hash = Genesis
      BY <1>3, <2>2 DEF Ends
    <3>2. PICK l \in DOMAIN new : l = Shift(k, j) /\ new[l] = all[j]
      BY <1>1
    <3>3. ASSUME NEW m \in DOMAIN new, l < m PROVE new[m].hash = Genesis
      <4>1. CASE m = k + 1
        BY <1>1, <4>1
      <4>2. CASE m # k + 1
        <5>1. PICK h \in DOMAIN all : m = Shift(k, h)
          BY <1>1, <4>2
        <5>2. j < h
          BY <1>1, <3>2, <3>3, <5>1
        <5> QED BY <1>1, <3>1, <5>1, <5>2
      <4> QED BY <4>1, <4>2
    <3> QED BY <3>1, <3>2, <3>3 DEF Ends
  <2> QED BY <2>1, <2>2
<1> QED BY <1>2, <1>3 DEF AllChained

(* A row that follows the last hash joins after every row that has one.    *)
LEMMA HashedJoins ==
    ASSUME NEW all \in Seq(Rows), NEW row \in Rows,
           row.hash = Hash(row.prev, row.at, row.id), Ends(all, row.prev),
           NEW new \in Seq(Rows), NEW k \in 0..Len(all), Enters(all, row, new, k),
           \A i \in DOMAIN all : i > k => all[i].hash = Genesis,
           AllChained(all)
    PROVE  AllChained(new)
<1>1. /\ k + 1 \in DOMAIN new /\ new[k + 1] = row
      /\ \A i \in DOMAIN all :
                 /\ Shift(k, i) \in DOMAIN new /\ new[Shift(k, i)] = all[i]
                 /\ i <= k => Shift(k, i) < k + 1
                 /\ i > k => Shift(k, i) > k + 1
                 /\ Shift(k, i) \in Nat /\ i \in Nat
      /\ \A i, j \in DOMAIN all : i < j <=> Shift(k, i) < Shift(k, j)
      /\ \A n \in DOMAIN new :
                 n = k + 1 \/ \E i \in DOMAIN all : n = Shift(k, i)
  <2>1. Shifted(all, row, new, k)
    BY EntersShifts
  <2> QED BY <2>1 DEF Shifted
<1>2. k \in Nat
  OBVIOUS
<1> SUFFICES ASSUME NEW n \in DOMAIN new, new[n].hash # Genesis
             PROVE  Chained(new, n)
  BY DEF AllChained
<1>3. CASE n = k + 1
  <2>1. CASE row.prev = Genesis
    BY <1>1, <1>3, <2>1 DEF Chained
  <2>2. CASE row.prev # Genesis
    <3>1. PICK j \in DOMAIN all :
             /\ all[j].hash = row.prev
             /\ \A m \in DOMAIN all : j < m => all[m].hash = Genesis
      BY <2>2 DEF Ends
    <3>2. j <= k
      <4>1. ~(j > k)
        BY <2>2, <3>1
      <4> QED BY <1>1, <1>2, <4>1
    <3>3. PICK l \in DOMAIN new : l = Shift(k, j) /\ new[l] = all[j] /\ l < k + 1
      BY <1>1, <3>2
    <3>4. ASSUME NEW m \in DOMAIN new, l < m, m < n PROVE new[m].hash = Genesis
      <4>1. PICK h \in DOMAIN all : m = Shift(k, h)
        BY <1>1, <1>2, <1>3, <3>4
      <4>2. j < h
        BY <1>1, <3>3, <3>4, <4>1
      <4> QED BY <1>1, <3>1, <4>1, <4>2
    <3> QED BY <1>1, <1>3, <3>1, <3>3, <3>4 DEF Chained
  <2> QED BY <2>1, <2>2
<1>4. CASE n # k + 1
  <2>1. PICK i \in DOMAIN all : n = Shift(k, i)
    BY <1>1, <1>4
  <2>2. new[n] = all[i] /\ Chained(all, i)
    BY <1>1, <2>1 DEF AllChained
  <2>3. i <= k /\ n < k + 1
    <3>1. ~(i > k)
      BY <2>2
    <3>2. i <= k
      BY <1>1, <1>2, <3>1
    <3> QED BY <1>1, <2>1, <3>2
  <2>4. CASE all[i].prev = Genesis
    BY <2>2, <2>4 DEF Chained
  <2>5. CASE all[i].prev # Genesis
    <3>1. PICK j \in DOMAIN all :
             /\ j < i /\ all[j].hash = all[i].prev
             /\ \A m \in DOMAIN all : j < m /\ m < i => all[m].hash = Genesis
      BY <2>2, <2>5 DEF Chained
    <3>2. PICK l \in DOMAIN new : l = Shift(k, j) /\ l < n /\ new[l] = all[j]
      BY <1>1, <2>1, <3>1
    <3>3. ASSUME NEW m \in DOMAIN new, l < m, m < n PROVE new[m].hash = Genesis
      <4>0. m # k + 1
        <5>1. m \in Nat /\ n \in Nat
          OBVIOUS
        <5> QED BY <1>2, <2>3, <3>3, <5>1
      <4>1. PICK h \in DOMAIN all : m = Shift(k, h)
        BY <1>1, <4>0
      <4>2. j < h /\ h < i
        BY <1>1, <2>1, <3>2, <3>3, <4>1
      <4> QED BY <1>1, <3>1, <4>1, <4>2
    <3> QED BY <2>2, <3>1, <3>2, <3>3 DEF Chained
  <2> QED BY <2>4, <2>5
<1> QED BY <1>3, <1>4
-----------------------------------------------------------------------------
(* What a repair is to make of the log: with what is left of its plan      *)
(* written, every row that has a hash is chained.                          *)
Fits(target, all, plan) ==
    /\ Len(target) = Len(all)
    /\ \A i \in DOMAIN all :
          /\ target[i].id = all[i].id
          /\ target[i] = all[i] \/ \E n \in DOMAIN plan : plan[n] = target[i]
    /\ \A n \in DOMAIN plan : \E i \in DOMAIN all : plan[n] = target[i]

Promise(all, plan) ==
    \E target \in Seq(Rows) : AllChained(target) /\ Fits(target, all, plan)

LEMMA RehashedChained ==
    ASSUME NEW all \in Seq(Rows) PROVE AllChained(Rehashed(all))
<1>1. PICK new \in Seq(Rows) : new = Rehashed(all) /\ Len(new) = Len(all)
  BY RehashedIs
<1>2. \A i \in 1..Len(all) :
         /\ new[i].id = all[i].id /\ new[i].at = all[i].at
         /\ new[i].hash = Hash(new[i].prev, all[i].at, all[i].id)
         /\ IF i = 1 THEN new[i].prev = Genesis ELSE new[i].prev = new[i - 1].hash
  BY <1>1, RehashedIs
<1>3. ASSUME NEW i \in DOMAIN new PROVE Chained(new, i)
  <2>1. i \in 1..Len(all)
    BY <1>1
  <2>2. new[i].hash = Hash(new[i].prev, new[i].at, new[i].id)
    BY <1>2, <2>1
  <2>3. CASE i = 1
    BY <1>2, <2>1, <2>2, <2>3 DEF Chained
  <2>4. CASE i # 1
    <3>1. PICK j \in DOMAIN new : j = i - 1
      BY <2>4
    <3>2. j < i /\ new[j].hash = new[i].prev
      BY <1>2, <2>1, <2>4, <3>1
    <3>3. \A m \in DOMAIN new : ~(j < m /\ m < i)
      BY <3>1
    <3> QED BY <2>2, <3>2, <3>3 DEF Chained
  <2> QED BY <2>3, <2>4
<1> QED BY <1>1, <1>3 DEF AllChained

LEMMA PlanPromises ==
    ASSUME NEW all \in Seq(Rows)
    PROVE  Promise(all, Plan(all)) /\ (Plan(all) = <<>> => AllChained(all))
<1>1. PICK new \in Seq(Rows) : new = Rehashed(all) /\ Len(new) = Len(all)
  BY RehashedIs
<1>2. \A i \in 1..Len(all) : new[i].id = all[i].id
  BY <1>1, RehashedIs
<1>3. PICK plan : plan = Plan(all)
  OBVIOUS
<1>4. /\ \A n \in DOMAIN plan : \E i \in DOMAIN all : plan[n] = new[i]
      /\ \A i \in DOMAIN all : all[i] # new[i] => \E n \in DOMAIN plan : plan[n] = new[i]
  BY <1>1, <1>3, PlanIs
<1>5. DOMAIN all = 1..Len(all) /\ DOMAIN new = DOMAIN all
  BY <1>1
<1>6. Fits(new, all, plan)
  BY <1>1, <1>2, <1>4, <1>5 DEF Fits
<1>7. AllChained(new)
  BY <1>1, RehashedChained
<1>8. ASSUME plan = <<>> PROVE AllChained(all)
  <2>1. \A i \in DOMAIN all : new[i] = all[i]
    BY <1>4, <1>8
  <2> QED BY <1>5, <1>7, <2>1 DEF AllChained, Chained
<1> QED BY <1>3, <1>6, <1>7, <1>8 DEF Promise

LEMMA PromiseFulfilled ==
    ASSUME NEW all \in Seq(Rows), Promise(all, <<>>) PROVE AllChained(all)
<1>1. PICK target \in Seq(Rows) : AllChained(target) /\ Fits(target, all, <<>>)
  BY DEF Promise
<1>2. DOMAIN target = DOMAIN all
  BY <1>1 DEF Fits
<1>3. \A i \in DOMAIN all : target[i] = all[i]
  BY <1>1 DEF Fits
<1> QED BY <1>1, <1>2, <1>3 DEF AllChained, Chained

(* The first row of the plan is written.                                   *)
Written(all, row) == [i \in DOMAIN all |-> IF all[i].id = row.id THEN row ELSE all[i]]

LEMMA PatchKeepsPromise ==
    ASSUME NEW all \in Seq(Rows), \A i, k \in DOMAIN all : all[i].id = all[k].id => i = k,
           NEW plan \in Seq(Rows), plan # <<>>,
           NEW row, row = Head(plan), NEW rest, rest = Tail(plan),
           NEW new, new = Written(all, row), Promise(all, plan)
    PROVE  Promise(new, rest)
<1>1. PICK target \in Seq(Rows) : AllChained(target) /\ Fits(target, all, plan)
  BY DEF Promise
<1>2. PICK N \in Nat : N = Len(all) /\ DOMAIN all = 1..N
  OBVIOUS
<1>3. DOMAIN new = 1..N /\ Len(new) = N
  BY <1>2 DEF Written
<1>4. row = plan[1] /\ 1 \in DOMAIN plan
  OBVIOUS
<1>5. /\ \A n \in DOMAIN rest : n + 1 \in DOMAIN plan /\ rest[n] = plan[n + 1]
      /\ \A n \in DOMAIN plan : n = 1 \/ \E m \in DOMAIN rest : plan[n] = rest[m]
  <2>1. PICK M \in Nat : M = Len(plan) /\ M # 0 /\ DOMAIN plan = 1..M
    OBVIOUS
  <2>2. DOMAIN rest = 1..(M - 1) /\ \A n \in 1..(M - 1) : rest[n] = plan[n + 1]
    BY <2>1
  <2>3. \A n \in 1..(M - 1) : n + 1 \in 1..M
    BY <2>1
  <2>4. ASSUME NEW n \in 1..M, n # 1 PROVE \E m \in DOMAIN rest : plan[n] = rest[m]
    <3>1. PICK m \in 1..(M - 1) : n = m + 1
      <4>1. n - 1 \in 1..(M - 1) /\ n = (n - 1) + 1
        BY <2>1, <2>4
      <4> QED BY <4>1
    <3> QED BY <2>2, <3>1
  <2> QED BY <2>1, <2>2, <2>3, <2>4
<1>6. PICK k \in DOMAIN all : target[k] = row
  BY <1>1, <1>4 DEF Fits
<1>7. all[k].id = row.id
  BY <1>1, <1>6 DEF Fits
<1>8. ASSUME NEW i \in DOMAIN all
      PROVE  /\ target[i].id = new[i].id
             /\ target[i] = new[i] \/ \E n \in DOMAIN rest : rest[n] = target[i]
  <2>1. CASE i = k
    <3>1. new[i] = row
      BY <1>7, <2>1 DEF Written
    <3> QED BY <1>6, <2>1, <3>1
  <2>2. CASE i # k
    <3>1. all[i].id # row.id
      BY <1>7, <2>2
    <3>2. new[i] = all[i] /\ target[i].id = all[i].id
      BY <1>1, <3>1 DEF Fits, Written
    <3>3. target[i] = all[i] \/ \E n \in DOMAIN plan : plan[n] = target[i]
      BY <1>1 DEF Fits
    <3>4. ASSUME NEW n \in DOMAIN plan, plan[n] = target[i]
          PROVE  \E m \in DOMAIN rest : rest[m] = target[i]
      <4>1. n # 1
        BY <1>4, <3>1, <3>2, <3>4
      <4> QED BY <1>5, <3>4, <4>1
    <3> QED BY <3>2, <3>3, <3>4
  <2> QED BY <2>1, <2>2
<1>9. \A n \in DOMAIN rest : \E i \in DOMAIN all : rest[n] = target[i]
  <2>1. \A n \in DOMAIN plan : \E i \in DOMAIN all : plan[n] = target[i]
    BY <1>1 DEF Fits
  <2> SUFFICES ASSUME NEW n \in DOMAIN rest
               PROVE  \E i \in DOMAIN all : rest[n] = target[i]
    OBVIOUS
  <2>2. PICK m \in DOMAIN plan : rest[n] = plan[m]
    BY <1>5
  <2> QED BY <2>1, <2>2
<1>10. Fits(target, new, rest)
  <2>1. Len(target) = Len(new) /\ DOMAIN new = DOMAIN all
    BY <1>1, <1>2, <1>3 DEF Fits
  <2> QED BY <1>8, <1>9, <2>1 DEF Fits
<1> QED BY <1>1, <1>10 DEF Promise

(* A row without a hash joins while the plan is being written.             *)
LEMMA UnhashedKeepsPromise ==
    ASSUME NEW all \in Seq(Rows), NEW row \in Rows, row.hash = Genesis,
           NEW new \in Seq(Rows), NEW k \in 0..Len(all), Enters(all, row, new, k),
           NEW plan, Promise(all, plan)
    PROVE  Promise(new, plan)
<1>1. PICK target \in Seq(Rows) : AllChained(target) /\ Fits(target, all, plan)
  BY DEF Promise
<1>2. PICK N \in Nat : /\ N = Len(all) /\ DOMAIN all = 1..N /\ N = Len(target)
                       /\ DOMAIN target = 1..N /\ k \in 0..N
                       /\ Len(new) = N + 1 /\ DOMAIN new = 1..(N + 1)
  BY <1>1 DEF Fits, Enters
<1>3. PICK wide : wide = [i \in 1..(N + 1) |-> IF i <= k THEN target[i]
                                               ELSE IF i = k + 1 THEN row
                                               ELSE target[i - 1]]
  OBVIOUS
<1>4. \A i \in 1..(N + 1) : wide[i] \in Rows
  <2> SUFFICES ASSUME NEW i \in 1..(N + 1) PROVE wide[i] \in Rows
    OBVIOUS
  <2>1. CASE i <= k
    <3>1. i \in 1..N
      BY <1>2, <2>1
    <3> QED BY <1>2, <1>3, <2>1, <3>1
  <2>2. CASE i = k + 1
    <3>1. ~(i <= k)
      BY <1>2, <2>2
    <3> QED BY <1>3, <2>2, <3>1
  <2>3. CASE ~(i <= k) /\ i # k + 1
    <3>1. i - 1 \in 1..N
      BY <1>2, <2>3
    <3> QED BY <1>2, <1>3, <2>3, <3>1
  <2> QED BY <2>1, <2>2, <2>3
<1>5. wide \in Seq(Rows) /\ Len(wide) = N + 1
  BY <1>3, <1>4
<1>6. Enters(target, row, wide, k)
  <2>1. \A i \in 1..k : wide[i] = target[i]
    <3>1. \A i \in 1..k : i \in 1..(N + 1) /\ i <= k
      BY <1>2
    <3> QED BY <1>3, <3>1
  <2>2. wide[k + 1] = row
    <3>1. k + 1 \in 1..(N + 1) /\ ~(k + 1 <= k)
      BY <1>2
    <3> QED BY <1>3, <3>1
  <2>3. ASSUME NEW i \in (k + 1)..N PROVE wide[i + 1] = target[i]
    <3>1. i + 1 \in 1..(N + 1) /\ ~(i + 1 <= k) /\ i + 1 # k + 1 /\ (i + 1) - 1 = i
      BY <1>2
    <3> QED BY <1>3, <3>1
  <2> QED BY <1>2, <1>5, <2>1, <2>2, <2>3 DEF Enters
<1>7. k \in 0..Len(target)
  BY <1>2
<1>8. AllChained(wide)
  BY <1>1, <1>5, <1>6, <1>7, UnhashedJoins
<1>9. /\ k + 1 \in DOMAIN wide /\ wide[k + 1] = row
      /\ \A i \in DOMAIN target : Shift(k, i) \in DOMAIN wide /\ wide[Shift(k, i)] = target[i]
      /\ \A n \in DOMAIN wide : n = k + 1 \/ \E i \in DOMAIN target : n = Shift(k, i)
  <2>1. Shifted(target, row, wide, k)
    BY <1>5, <1>6, <1>7, EntersShifts
  <2> QED BY <2>1 DEF Shifted
<1>10. /\ k + 1 \in DOMAIN new /\ new[k + 1] = row
       /\ \A i \in DOMAIN all : Shift(k, i) \in DOMAIN new /\ new[Shift(k, i)] = all[i]
  <2>1. Shifted(all, row, new, k)
    BY EntersShifts
  <2> QED BY <2>1 DEF Shifted
<1>11. DOMAIN wide = DOMAIN new
  BY <1>2, <1>5
<1>12. ASSUME NEW n \in DOMAIN new
       PROVE  /\ wide[n].id = new[n].id
              /\ wide[n] = new[n] \/ \E m \in DOMAIN plan : plan[m] = wide[n]
  <2>1. CASE n = k + 1
    BY <1>9, <1>10, <2>1
  <2>2. ASSUME NEW i \in DOMAIN target, n = Shift(k, i)
        PROVE  /\ wide[n].id = new[n].id
               /\ wide[n] = new[n] \/ \E m \in DOMAIN plan : plan[m] = wide[n]
    <3>1. wide[n] = target[i] /\ new[n] = all[i] /\ i \in DOMAIN all
      BY <1>2, <1>9, <1>10, <2>2
    <3> QED BY <1>1, <3>1 DEF Fits
  <2> QED BY <1>9, <1>11, <2>1, <2>2
<1>13. \A m \in DOMAIN plan : \E n \in DOMAIN new : plan[m] = wide[n]
  <2> SUFFICES ASSUME NEW m \in DOMAIN plan PROVE \E n \in DOMAIN new : plan[m] = wide[n]
    OBVIOUS
  <2>1. PICK i \in DOMAIN all : plan[m] = target[i]
    BY <1>1 DEF Fits
  <2>2. Shift(k, i) \in DOMAIN wide /\ wide[Shift(k, i)] = target[i]
    BY <1>2, <1>9, <2>1
  <2> QED BY <1>11, <2>1, <2>2
<1>14. Fits(wide, new, plan)
  BY <1>2, <1>5, <1>12, <1>13 DEF Fits
<1> QED BY <1>5, <1>8, <1>14 DEF Promise
-----------------------------------------------------------------------------
(* What the log, the requests and what they hold have in common as long as *)
(* nothing was removed and no append or repair overlapped another.         *)
Distinct(all) == \A i, k \in DOMAIN all : all[i].at = all[k].at => i = k

HoldsOK(all, place, m) ==
    /\ place = "repairing" => Promise(all, m.plan)
    /\ place \in {"stamp", "insert"} /\ Distinct(all) => Ends(all, m.prev)
    /\ place = "insert" =>
          \A i \in DOMAIN all : all[i].hash # Genesis => all[i].at <= m.at

QuietOK(all, places, minds) ==
    /\ \A r, q \in Requests : places[r] \in InFlight /\ places[q] \in InFlight => r = q
    /\ Distinct(all) /\ (\A r \in Requests : places[r] # "repairing") => AllChained(all)
    /\ \A r \in Requests : HoldsOK(all, places[r], minds[r])

QInv == CInv /\ (quiet => QuietOK(log, pc, mine))

(* A request with no other in flight has moved on.                         *)
LEMMA MovesAlone ==
    ASSUME CInv, NEW r \in Requests, \A q \in Requests \ {r} : pc[q] \notin InFlight,
           NEW place, pc' = [pc EXCEPT ![r] = place],
           NEW m, mine' = [mine EXCEPT ![r] = m],
           NEW all, log' = all, HoldsOK(all, place, m),
           place # "repairing" /\ Distinct(all) => AllChained(all)
    PROVE  QuietOK(log, pc, mine)'
<1>1. PICK places, minds : places = pc' /\ minds = mine'
  OBVIOUS
<1>2. places[r] = place /\ minds[r] = m
  BY <1>1, TypesOf
<1>3. \A q \in Requests \ {r} : places[q] = pc[q] /\ places[q] \notin InFlight
  BY <1>1, TypesOf
<1>4. \A q \in Requests \ {r} : HoldsOK(all, places[q], minds[q])
  BY <1>3 DEF HoldsOK, InFlight
<1>5. QuietOK(all, places, minds)
  <2>1. \A p, q \in Requests : places[p] \in InFlight /\ places[q] \in InFlight => p = q
    BY <1>3
  <2>2. Distinct(all) /\ (\A q \in Requests : places[q] # "repairing") => AllChained(all)
    BY <1>2
  <2>3. \A q \in Requests : HoldsOK(all, places[q], minds[q])
    BY <1>2, <1>4
  <2> QED BY <2>1, <2>2, <2>3 DEF QuietOK
<1> QED BY <1>1, <1>5

LEMMA OthersAreOut ==
    ASSUME QuietOK(log, pc, mine), NEW r \in Requests, pc[r] \in InFlight
    PROVE  \A q \in Requests \ {r} : pc[q] \notin InFlight
BY DEF QuietOK

LEMMA QuietRead ==
    ASSUME CInv, quiet => QuietOK(log, pc, mine), NEW r \in Requests, Read(r), quiet'
    PROVE  QuietOK(log, pc, mine)'
<1>1. PICK hash \in LatestHashes : mine' = [mine EXCEPT ![r] = Mine(hash, 0, <<>>)]
  BY DEF Read
<1>2. /\ QuietOK(log, pc, mine) /\ \A q \in Requests \ {r} : pc[q] \notin InFlight
      /\ pc' = [pc EXCEPT ![r] = "stamp"] /\ log' = log /\ pc[r] = "read"
  BY DEF Read, Alone, Goto
<1>3. PICK m : m = Mine(hash, 0, <<>>)
  OBVIOUS
<1>4. m.prev = hash
  BY <1>3 DEF Mine
<1>5. ASSUME Distinct(log) PROVE Ends(log, hash)
  <2>1. CASE hash = Genesis
    BY <2>1 DEF Ends
  <2>2. CASE hash # Genesis
    <3>1. PICK k \in DOMAIN log :
            hash = log[k].hash /\ \A j \in DOMAIN log : log[j].at <= log[k].at
      BY <2>2, LatestHashIs
    <3>2. ASSUME NEW j \in DOMAIN log, k < j PROVE FALSE
      <4>1. log[k].at <= log[j].at /\ log[j].at <= log[k].at
        BY <3>1, <3>2, TypesOf DEF Ordered
      <4>2. log[k].at \in Nat /\ log[j].at \in Nat
        <5>1. \A x \in Rows : x.at \in Nat
          BY ChainNumbers DEF Rows
        <5>2. log[k] \in Rows /\ log[j] \in Rows
          BY TypesOf
        <5> QED BY <5>1, <5>2
      <4>3. log[k].at = log[j].at
        BY <4>1, <4>2
      <4>4. k = j
        BY <1>5, <4>3 DEF Distinct
      <4>5. k \in Nat
        BY TypesOf
      <4> QED BY <3>2, <4>4, <4>5
    <3> QED BY <3>1, <3>2 DEF Ends
  <2> QED BY <2>1, <2>2
<1>6. HoldsOK(log, "stamp", m)
  BY <1>4, <1>5 DEF HoldsOK
<1>7. Distinct(log) => AllChained(log)
  <2>1. \A q \in Requests : pc[q] # "repairing"
    BY <1>2 DEF InFlight
  <2> QED BY <1>2, <2>1 DEF QuietOK
<1>8. PICK all : all = log
  OBVIOUS
<1>9. log' = all /\ HoldsOK(all, "stamp", m) /\ (Distinct(all) => AllChained(all))
  BY <1>2, <1>6, <1>7, <1>8
<1> QED BY <1>1, <1>2, <1>3, <1>9, MovesAlone

LEMMA QuietStamp ==
    ASSUME CInv, QuietOK(log, pc, mine), NEW r \in Requests, Stamp(r)
    PROVE  QuietOK(log, pc, mine)'
<1>1. /\ pc[r] = "stamp" /\ pc' = [pc EXCEPT ![r] = "insert"] /\ log' = log
      /\ mine' = [mine EXCEPT ![r] = Mine(mine[r].prev, now, <<>>)]
  BY TypesOf DEF Stamp, Goto
<1>2. \A q \in Requests \ {r} : pc[q] \notin InFlight
  BY <1>1, OthersAreOut DEF InFlight
<1>3. PICK m : m = Mine(mine[r].prev, now, <<>>)
  OBVIOUS
<1>4. m.prev = mine[r].prev /\ m.at = now
  BY <1>3 DEF Mine
<1>5. Distinct(log) => Ends(log, m.prev)
  BY <1>1, <1>4 DEF QuietOK, HoldsOK
<1>6. \A i \in DOMAIN log : log[i].at <= now
  BY DEF CInv, Arrived
<1>7. HoldsOK(log, "insert", m)
  BY <1>4, <1>5, <1>6 DEF HoldsOK
<1>8. Distinct(log) => AllChained(log)
  <2>1. \A q \in Requests : pc[q] # "repairing"
    BY <1>1, <1>2 DEF InFlight
  <2> QED BY <2>1 DEF QuietOK
<1>9. PICK all : all = log
  OBVIOUS
<1>10. log' = all /\ HoldsOK(all, "insert", m) /\ (Distinct(all) => AllChained(all))
  BY <1>1, <1>7, <1>8, <1>9
<1> QED BY <1>1, <1>2, <1>3, <1>10, MovesAlone

LEMMA DistinctBefore ==
    ASSUME NEW all \in Seq(Rows), NEW row \in Rows, NEW new \in Seq(Rows),
           NEW k \in 0..Len(all), Enters(all, row, new, k), Distinct(new)
    PROVE  Distinct(all) /\ \A i \in DOMAIN all : all[i].at # row.at
<1>1. Shifted(all, row, new, k)
  BY EntersShifts
<1>2. ASSUME NEW i \in DOMAIN all, NEW j \in DOMAIN all, all[i].at = all[j].at
      PROVE  i = j
  <2>1. Shift(k, i) = Shift(k, j)
    BY <1>1, <1>2 DEF Shifted, Distinct
  <2>2. ~(i < j) /\ ~(j < i)
    BY <1>1, <2>1 DEF Shifted
  <2>3. i \in Nat /\ j \in Nat
    BY <1>1 DEF Shifted
  <2> QED BY <2>2, <2>3
<1>3. ASSUME NEW i \in DOMAIN all, all[i].at = row.at PROVE FALSE
  <2>1. Shift(k, i) = k + 1
    BY <1>1, <1>3 DEF Shifted, Distinct
  <2>2. i \in Nat /\ k \in Nat
    BY <1>1 DEF Shifted
  <2> QED BY <1>1, <2>1, <2>2 DEF Shifted
<1> QED BY <1>2, <1>3 DEF Distinct

LEMMA QuietInsert ==
    ASSUME CInv, QuietOK(log, pc, mine), NEW r \in Requests, Insert(r)
    PROVE  QuietOK(log, pc, mine)'
<1>1. /\ pc[r] = "insert" /\ pc' = [pc EXCEPT ![r] = "done"]
      /\ mine' = [mine EXCEPT ![r] = Nothing]
  BY DEF Insert, Leave, Goto
<1>2. \A q \in Requests \ {r} : pc[q] \notin InFlight
  BY <1>1, OthersAreOut DEF InFlight
<1>3. PICK prev \in Hashes, at \in 1..MaxTime : prev = mine[r].prev /\ at = mine[r].at
  <2>1. mine[r] \in Minds /\ mine[r].at \in 1..now
    BY <1>1 DEF CInv, PlaceOK, ChainTypeOK, Minds
  <2> QED BY <2>1, TypesOf, ChainNumbers DEF Minds
<1>4. r \in Ids /\ Hash(prev, at, r) \in Hashes
  <2>1. r \in Ids
    BY DEF Ids
  <2> QED BY <2>1, HashTyped
<1>5. PICK row \in Rows : row = Row(r, at, prev, Hash(prev, at, r))
  BY <1>4 DEF Row, Rows
<1>6. row.at = at /\ row.prev = prev /\ row.hash = Hash(row.prev, row.at, row.id)
  BY <1>5 DEF Row
<1>7. PICK all \in Seq(Rows), new \in Inserted(row) : all = log /\ new = log'
  BY <1>3, <1>5, TypesOf DEF Insert, AppendedRow
<1>8. /\ new \in Seq(Rows)
      /\ \E k \in 0..Len(log) :
                 /\ Enters(log, row, new, k)
                 /\ \A i \in 1..k : log[i].at <= row.at
                 /\ \A i \in (k + 1)..Len(log) : log[i].at >= row.at
  <2>1. log \in Seq(Rows) /\ new \in Inserted(row)
    BY <1>7
  <2> QED BY <2>1, InsertedIs
<1>9. PICK k \in 0..Len(all) : /\ Enters(all, row, new, k)
                               /\ \A i \in (k + 1)..Len(all) : all[i].at >= row.at
  BY <1>7, <1>8
<1>10. ASSUME Distinct(new) PROVE AllChained(new)
  <2>1. Distinct(all) /\ \A i \in DOMAIN all : all[i].at # row.at
    BY <1>8, <1>9, <1>10, DistinctBefore
  <2>2. HoldsOK(all, "insert", mine[r])
    BY <1>1, <1>7 DEF QuietOK
  <2>3. Ends(all, row.prev)
    BY <1>3, <1>6, <2>1, <2>2 DEF HoldsOK
  <2>4. ASSUME NEW i \in DOMAIN all, i > k, all[i].hash # Genesis PROVE FALSE
    <3>1. all[i].at <= row.at
      BY <1>3, <1>6, <2>2, <2>4 DEF HoldsOK
    <3>2. i \in (k + 1)..Len(all)
      BY <2>4
    <3>3. all[i].at >= row.at
      BY <1>9, <3>2
    <3>4. all[i].at \in Nat /\ row.at \in Nat
      <4>1. \A x \in Rows : x.at \in Nat
        BY ChainNumbers DEF Rows
      <4> QED BY <4>1
    <3> QED BY <2>1, <3>1, <3>3, <3>4
  <2>5. AllChained(all)
    <3>1. \A q \in Requests : pc[q] # "repairing"
      BY <1>1, <1>2 DEF InFlight
    <3> QED BY <1>7, <2>1, <3>1 DEF QuietOK
  <2>6. \A i \in DOMAIN all : i > k => all[i].hash = Genesis
    BY <2>4
  <2> QED BY <1>6, <1>8, <1>9, <2>3, <2>5, <2>6, HashedJoins
<1>11. HoldsOK(new, "done", Nothing)
  BY DEF HoldsOK
<1> QED BY <1>1, <1>2, <1>7, <1>10, <1>11, MovesAlone

LEMMA QuietUnhashed ==
    ASSUME CInv, QuietOK(log, pc, mine), NEW u \in Unhashed, InsertUnhashed(u)
    PROVE  QuietOK(log, pc, mine)'
<1>1. u \in Ids /\ now \in 1..MaxTime /\ Genesis \in Hashes
  BY TypesOf DEF Ids
<1>2. PICK row \in Rows : row = Row(u, now, Genesis, Genesis)
  BY <1>1 DEF Row, Rows
<1>3. row.hash = Genesis
  BY <1>2 DEF Row
<1>4. PICK all \in Seq(Rows), new \in Inserted(row) : all = log /\ new = log'
  BY <1>2, TypesOf DEF InsertUnhashed
<1>5. /\ new \in Seq(Rows)
      /\ \E k \in 0..Len(log) :
                 /\ Enters(log, row, new, k)
                 /\ \A i \in 1..k : log[i].at <= row.at
                 /\ \A i \in (k + 1)..Len(log) : log[i].at >= row.at
  <2>1. log \in Seq(Rows) /\ new \in Inserted(row)
    BY <1>4
  <2> QED BY <2>1, InsertedIs
<1>6. PICK k \in 0..Len(all) : Enters(all, row, new, k)
  BY <1>4, <1>5
<1>7. PICK places, minds : /\ places = pc /\ minds = mine /\ places = pc' /\ minds = mine'
                           /\ QuietOK(all, places, minds)
  BY <1>4 DEF InsertUnhashed
<1>8. Distinct(new) => Distinct(all)
  BY <1>5, <1>6, DistinctBefore
<1>9. AllChained(all) => AllChained(new)
  BY <1>3, <1>5, <1>6, UnhashedJoins
<1>10. ASSUME NEW q \in Requests PROVE HoldsOK(new, places[q], minds[q])
  <2>1. HoldsOK(all, places[q], minds[q])
    BY <1>7 DEF QuietOK
  <2>2. ASSUME places[q] = "repairing" PROVE Promise(new, minds[q].plan)
    <3>1. PICK plan : plan = minds[q].plan
      OBVIOUS
    <3>2. Promise(all, plan)
      BY <2>1, <2>2, <3>1 DEF HoldsOK
    <3>3. Promise(new, plan)
      BY <1>3, <1>5, <1>6, <3>2, UnhashedKeepsPromise
    <3> QED BY <3>1, <3>3
  <2>3. ASSUME places[q] \in {"stamp", "insert"}, Distinct(new)
        PROVE  Ends(new, minds[q].prev)
    <3>1. Ends(all, minds[q].prev)
      BY <1>8, <2>1, <2>3 DEF HoldsOK
    <3> QED BY <1>3, <1>5, <1>6, <3>1, UnhashedJoins
  <2>4. ASSUME places[q] = "insert", NEW n \in DOMAIN new, new[n].hash # Genesis
        PROVE  new[n].at <= minds[q].at
    <3>1. Shifted(all, row, new, k)
      BY <1>5, <1>6, EntersShifts
    <3>2. PICK i \in DOMAIN all : new[n] = all[i]
      BY <1>3, <2>4, <3>1 DEF Shifted
    <3> QED BY <2>1, <2>4, <3>2 DEF HoldsOK
  <2> QED BY <2>2, <2>3, <2>4 DEF HoldsOK
<1>11. QuietOK(new, places, minds)
  BY <1>7, <1>8, <1>9, <1>10 DEF QuietOK
<1> QED BY <1>4, <1>7, <1>11

LEMMA QuietRepairRead ==
    ASSUME CInv, NEW r \in Requests, RepairRead(r), quiet'
    PROVE  /\ QuietOK(log, pc, mine)'
           /\ pc'[r] = "read" => AllChained(log')
<1>1. PICK all \in Seq(Rows), plan \in Seq(Rows) : all = log /\ plan = Plan(all)
  BY TypesOf, PlanIs
<1>2. /\ log' = all /\ \A q \in Requests \ {r} : pc[q] \notin InFlight
      /\ mine' = [mine EXCEPT ![r] = Mine(Genesis, 0, plan)]
  BY <1>1 DEF RepairRead, Alone
<1>3. PICK place : place = IF plan = <<>> THEN "read" ELSE "repairing"
  OBVIOUS
<1>4. pc' = [pc EXCEPT ![r] = place]
  BY <1>1, <1>3 DEF RepairRead, Goto, AfterRepair
<1>5. PICK m : m = Mine(Genesis, 0, plan)
  OBVIOUS
<1>6. m.plan = plan
  BY <1>5 DEF Mine
<1>7. Promise(all, plan) /\ (plan = <<>> => AllChained(all))
  BY <1>1, PlanPromises
<1>8. HoldsOK(all, place, m)
  BY <1>3, <1>6, <1>7 DEF HoldsOK
<1>9. place # "repairing" => AllChained(all)
  BY <1>3, <1>7
<1>10. QuietOK(log, pc, mine)'
  BY <1>2, <1>4, <1>5, <1>8, <1>9, MovesAlone
<1>11. pc'[r] = place
  BY <1>4, TypesOf
<1> QED BY <1>2, <1>9, <1>10, <1>11

LEMMA QuietRepairRow ==
    ASSUME CInv, QuietOK(log, pc, mine), NEW r \in Requests, RepairRow(r)
    PROVE  /\ QuietOK(log, pc, mine)'
           /\ pc'[r] = "read" => AllChained(log')
<1>1. pc[r] = "repairing"
  BY DEF RepairRow
<1>2. \A q \in Requests \ {r} : pc[q] \notin InFlight
  BY <1>1, OthersAreOut DEF InFlight
<1>3. PICK all \in Seq(Rows), plan \in Seq(Rows) :
        all = log /\ plan = mine[r].plan /\ plan # <<>>
  BY TypesOf, RowToPatch
<1>4. PICK row \in Rows, rest \in Seq(Rows) :
        /\ row = Head(plan) /\ rest = Tail(plan)
        /\ Arrived(row.id, row.at)
        /\ log' = [i \in DOMAIN all |-> IF all[i].id = row.id THEN row ELSE all[i]]
        /\ mine' = [mine EXCEPT ![r] = Mine(Genesis, 0, rest)]
        /\ Goto(r, AfterRepair(rest))
  BY <1>3, RowToPatch
<1>5. PICK new : /\ new = [i \in DOMAIN all |-> IF all[i].id = row.id THEN row ELSE all[i]]
                 /\ new = log'
  BY <1>4
<1>6. new \in Seq(Rows)
  <2>1. log' = [i \in DOMAIN log |-> IF log[i].id = row.id THEN row ELSE log[i]]
    BY <1>3, <1>4
  <2>2. log' \in Seq(Rows)
    BY <1>4, <2>1, Patched
  <2> QED BY <1>5, <2>2
<1>7. Promise(all, plan)
  BY <1>1, <1>3 DEF QuietOK, HoldsOK
<1>8. \A i, k \in DOMAIN all : all[i].id = all[k].id => i = k
  <2> SUFFICES ASSUME NEW i \in DOMAIN all, NEW k \in DOMAIN all, all[i].id = all[k].id
               PROVE  i = k
    OBVIOUS
  <2>1. ~(i < k) /\ ~(k < i)
    BY <1>3, TypesOf DEF Ordered
  <2>2. i \in Nat /\ k \in Nat
    OBVIOUS
  <2> QED BY <2>1, <2>2
<1>9. Promise(new, rest)
  <2>1. row = Head(plan) /\ rest = Tail(plan)
    BY <1>4
  <2>2. new = Written(all, row)
    BY <1>5 DEF Written
  <2>3. plan # <<>>
    BY <1>3
  <2> QED BY <1>7, <1>8, <2>1, <2>2, <2>3, PatchKeepsPromise
<1>10. PICK place : place = IF rest = <<>> THEN "read" ELSE "repairing"
  OBVIOUS
<1>11. pc' = [pc EXCEPT ![r] = place]
  BY <1>4, <1>10 DEF Goto, AfterRepair
<1>12. PICK m : m = Mine(Genesis, 0, rest)
  OBVIOUS
<1>13. m.plan = rest
  BY <1>12 DEF Mine
<1>14. HoldsOK(new, place, m)
  BY <1>9, <1>10, <1>13 DEF HoldsOK
<1>15. place # "repairing" => AllChained(new)
  BY <1>6, <1>9, <1>10, PromiseFulfilled
<1>16. QuietOK(log, pc, mine)'
  <2>1. log' = new /\ mine' = [mine EXCEPT ![r] = m]
    BY <1>4, <1>5, <1>12
  <2> QED BY <1>2, <1>11, <1>14, <1>15, <2>1, MovesAlone
<1>17. pc'[r] = place
  BY <1>11, TypesOf
<1> QED BY <1>5, <1>10, <1>15, <1>16, <1>17

LEMMA QuietFails ==
    ASSUME CInv, QuietOK(log, pc, mine), NEW r \in Requests, pc[r] # "repairing",
           Leave(r, "done"), log' = log
    PROVE  QuietOK(log, pc, mine)'
<1>1. PICK all, places, minds : all = log /\ places = pc' /\ minds = mine'
  OBVIOUS
<1>2. /\ places[r] = "done" /\ minds[r] = Nothing
      /\ \A q \in Requests \ {r} : places[q] = pc[q] /\ minds[q] = mine[q]
  BY <1>1, TypesOf DEF Leave, Goto
<1>3. \A p, q \in Requests : places[p] \in InFlight /\ places[q] \in InFlight => p = q
  BY <1>2 DEF QuietOK, InFlight
<1>4. Distinct(all) /\ (\A q \in Requests : places[q] # "repairing") => AllChained(all)
  BY <1>1, <1>2 DEF QuietOK
<1>5. ASSUME NEW q \in Requests PROVE HoldsOK(all, places[q], minds[q])
  <2>1. CASE q = r
    BY <1>2, <2>1 DEF HoldsOK
  <2>2. CASE q # r
    BY <1>1, <1>2, <2>2 DEF QuietOK
  <2> QED BY <2>1, <2>2
<1>6. QuietOK(all, places, minds)
  BY <1>3, <1>4, <1>5 DEF QuietOK
<1> QED BY <1>1, <1>6

LEMMA QuietCrash ==
    ASSUME CInv, quiet => QuietOK(log, pc, mine), ChainCrash, quiet'
    PROVE  QuietOK(log, pc, mine)'
<1>1. PICK all, places, minds : all = log /\ places = pc' /\ minds = mine'
  OBVIOUS
<1>2. QuietOK(log, pc, mine) /\ log' = log /\ \A q \in Requests : pc[q] # "repairing"
  BY DEF ChainCrash
<1>3. \A q \in Requests : places[q] \notin InFlight
  BY <1>1 DEF ChainCrash, InFlight
<1>4. Distinct(all) => AllChained(all)
  BY <1>1, <1>2 DEF QuietOK
<1>5. \A q \in Requests : HoldsOK(all, places[q], minds[q])
  BY <1>3 DEF HoldsOK, InFlight
<1>6. QuietOK(all, places, minds)
  BY <1>3, <1>4, <1>5 DEF QuietOK
<1> QED BY <1>1, <1>2, <1>6

LEMMA QInvStarts == ChainInit => QInv
<1> SUFFICES ASSUME ChainInit PROVE QInv
  OBVIOUS
<1>1. CInv
  BY CInvStarts
<1>2. log = <<>> /\ DOMAIN log = {} /\ \A r \in Requests : pc[r] \in {"read", "repair"}
  BY DEF ChainInit
<1>3. QuietOK(log, pc, mine)
  BY <1>2 DEF QuietOK, HoldsOK, AllChained, InFlight
<1> QED BY <1>1, <1>3 DEF QInv

LEMMA QInvKept == QInv /\ [ChainNext \/ ChainCrash]_chainVars => QInv'
<1> SUFFICES ASSUME QInv, [ChainNext \/ ChainCrash]_chainVars, quiet'
             PROVE  QuietOK(log, pc, mine)'
  <2>1. CInv /\ [ChainNext \/ ChainCrash]_chainVars => CInv'
    BY CInvKept
  <2> QED BY <2>1 DEF QInv
<1>1. CInv /\ (quiet => QuietOK(log, pc, mine))
  BY DEF QInv
<1>2. ASSUME NEW r \in Requests, ChainStep(r) PROVE QuietOK(log, pc, mine)'
  <2>1. CASE Read(r)
    BY <1>1, <2>1, QuietRead
  <2>2. CASE Stamp(r)
    BY <1>1, <2>2, QuietStamp DEF Stamp
  <2>3. CASE Insert(r)
    BY <1>1, <2>3, QuietInsert DEF Insert
  <2>4. CASE AppendFails(r)
    <3>1. quiet /\ pc[r] # "repairing" /\ Leave(r, "done") /\ log' = log
      BY <2>4 DEF AppendFails
    <3> QED BY <1>1, <3>1, QuietFails
  <2>5. CASE RepairRead(r)
    BY <1>1, <2>5, QuietRepairRead
  <2>6. CASE RepairRow(r)
    BY <1>1, <2>6, QuietRepairRow DEF RepairRow
  <2>7. CASE RepairFails(r)
    <3>1. quiet /\ pc[r] # "repairing" /\ Leave(r, "done") /\ log' = log
      BY <2>7 DEF RepairFails
    <3> QED BY <1>1, <3>1, QuietFails
  <2> QED BY <1>2, <2>1, <2>2, <2>3, <2>4, <2>5, <2>6, <2>7 DEF ChainStep
<1>3. ASSUME NEW u \in Unhashed, InsertUnhashed(u) PROVE QuietOK(log, pc, mine)'
  BY <1>1, <1>3, QuietUnhashed DEF InsertUnhashed
<1>4. CASE Expunge \/ ArchiveOne \/ AlterRow
  BY <1>4 DEF Expunge, ArchiveOne, Remove, AlterRow
<1>5. ASSUME UNCHANGED <<log, pc, mine, quiet>> PROVE QuietOK(log, pc, mine)'
  BY <1>1, <1>5
<1> QED BY <1>1, <1>2, <1>3, <1>4, <1>5, QuietCrash DEF ChainNext, Tick, chainVars

(* While appends and repairs come one after the other and nothing is       *)
(* removed or altered, every request holds what the log still says, and    *)
(* the rest of a repair's plan would make the log verify                   *)
(* (storage.ts:1388-1506).                                                 *)
THEOREM QuietStays == ChainSpec => []QInv
BY QInvStarts, QInvKept, PTL DEF ChainSpec

(* An undisturbed log with no two rows of one millisecond verifies, for    *)
(* any number of appends, repairs, failures and rows without a hash        *)
(* (storage.ts:1388-1506).                                                 *)
THEOREM UndisturbedLogVerifies == ChainSpec => []QuietLogVerifies
<1>1. QInv => QuietLogVerifies
  <2> SUFFICES ASSUME QInv, quiet, DistinctTimes, ~Repairing PROVE Verifies(log)
    BY DEF QuietLogVerifies
  <2>1. QuietOK(log, pc, mine) /\ log \in Seq(Rows)
    BY TypesOf DEF QInv
  <2>2. Distinct(log) /\ \A r \in Requests : pc[r] # "repairing"
    BY DEF DistinctTimes, Distinct, Repairing
  <2>3. AllChained(log)
    BY <2>1, <2>2 DEF QuietOK
  <2> QED BY <2>1, <2>3, ChainedVerifies
<1> QED BY <1>1, QuietStays, PTL

(* A repair that nothing disturbed leaves a log that verifies, whatever it *)
(* found: rows altered by hand, rows of one millisecond in an order no     *)
(* append saw, gaps that retention left, links broken by overlapping       *)
(* appends, and rows without a hash that joined while it ran               *)
(* (storage.ts:1490-1506).                                                 *)
THEOREM RepairsMend == ChainSpec => RepairMends
<1>1. QInv /\ QInv' /\ [ChainNext \/ ChainCrash]_chainVars =>
        [\A r \in Repairs :
            pc[r] \in {"repair", "repairing"} /\ pc'[r] = "read" /\ quiet' =>
               Verifies(log')]_chainVars
  <2> SUFFICES ASSUME QInv, QInv', ChainNext \/ ChainCrash, NEW r \in Repairs,
                      pc[r] \in {"repair", "repairing"}, pc'[r] = "read", quiet'
               PROVE  Verifies(log')
    OBVIOUS
  <2>1. CInv /\ (quiet => QuietOK(log, pc, mine)) /\ log' \in Seq(Rows)
    BY DEF QInv, CInv, ChainTypeOK
  <2>2. r \in Requests
    BY DEF Requests
  <2>3. RepairRead(r) \/ RepairRow(r)
    <3>1. ASSUME NEW q \in Requests, ChainStep(q) PROVE RepairRead(r) \/ RepairRow(r)
      <4>1. q = r
        <5>1. q # r => pc'[r] = pc[r]
          BY <2>1, <2>2, <3>1, TypesOf
             DEF ChainStep, Read, Stamp, Insert, AppendFails, RepairRead, RepairRow,
                 RepairFails, Leave, Goto
        <5> QED BY <5>1
      <4> QED BY <2>1, <2>2, <3>1, <4>1, TypesOf
          DEF ChainStep, Read, Stamp, Insert, AppendFails, RepairFails, Leave, Goto
    <3>2. pc' # pc
      OBVIOUS
    <3>3. ~ChainCrash
      BY <2>2 DEF ChainCrash
    <3> QED BY <3>1, <3>2, <3>3 DEF ChainNext, InsertUnhashed, Expunge, ArchiveOne, Remove, AlterRow, Tick
  <2>4. AllChained(log')
    <3>1. RepairRow(r) => quiet
      BY DEF RepairRow
    <3> QED BY <2>1, <2>2, <2>3, <3>1, QuietRepairRead, QuietRepairRow
  <2>5. PICK all \in Seq(Rows) : all = log' /\ AllChained(all)
    BY <2>1, <2>4
  <2>6. Verifies(all)
    BY <2>5, ChainedVerifies
  <2> QED BY <2>5, <2>6
<1> QED BY <1>1, QuietStays, PTL DEF ChainSpec, RepairMends
=============================================================================
