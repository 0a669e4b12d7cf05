--------------------------- MODULE RepositoryProofs ---------------------------
(***************************************************************************)
(* The lists of multipleObject attributes, and the repository on them.     *)
(*                                                                         *)
(* First what filling, emptying and packing do to a list, for any objects. *)
(* Then an attribute (Objects), for any constraint and any number of       *)
(* objects: its size counts them, its list is as long as the most there    *)
(* ever were, and the path of an object locates that object alone.         *)
(* PathsResolve is not inductive: that an object's path names its own      *)
(* place (InPlace) and that no object is newer than the last one made      *)
(* (Distinct) is.                                                          *)
(*                                                                         *)
(* Then the Event attribute (Events, here over the list events), for any   *)
(* codes and any length of the list: it implements a bag of codes          *)
(* (EventStore).                                                           *)
(*                                                                         *)
(* Last the repository, for any data model with one list.  Its invariant   *)
(* (RInv) is that of the list and its type correctness: the values and     *)
(* callbacks are those of the attributes that the slots say there are.     *)
(* What evcpe_repo_locate does with a path, SetParameterValues with its    *)
(* list and the handlers with the tree are recursive functions.  Of each   *)
(* it is shown first that the function exists (ChainExists, WalkExists),   *)
(* then what it computes: along a path or a list by induction over its     *)
(* length (ChainStays), down the tree by induction over the depth          *)
(* (WalkInduct).                                                           *)
(***************************************************************************)
EXTENDS Repository, Events, FiniteSetTheorems, FunctionTheorems, SequenceTheorems, TLAPS

-----------------------------------------------------------------------------

\* A larger element of a finite set of numbers has a higher rank.
LEMMA RankGrows ==
  ASSUME NEW T \in SUBSET Nat, IsFiniteSet(T), NEW i \in T, NEW j \in T, i < j
  PROVE  Rank(T, i) < Rank(T, j)
<1> DEFINE A == {m \in T : m <= i}
           B == {m \in T : m <= j}
<1>1. IsFiniteSet(B)
  BY FS_Subset
<1>2. A \in SUBSET B /\ j \in B /\ j \notin A
  <2>1. i \in Nat /\ j \in Nat
    OBVIOUS
  <2>2. \A m \in T : m \in Nat /\ (m <= i => m <= j)
    BY <2>1
  <2>3. j <= j /\ ~(j <= i)
    BY <2>1
  <2>4. A \in SUBSET B
    BY <2>2, Zenon
  <2> QED
    BY <2>3, <2>4, Zenon
<1>3. /\ IsFiniteSet(A)
      /\ Cardinality(A) <= Cardinality(B)
      /\ Cardinality(B) = Cardinality(A) => B = A
  BY <1>1, <1>2, FS_Subset
<1>4. Cardinality(A) \in Nat /\ Cardinality(B) \in Nat
  BY <1>1, <1>3, FS_CardinalityType
<1>5. B # A
  BY <1>2
<1> QED
  BY <1>3, <1>4, <1>5 DEF Rank

\* The rank of an element is at most the cardinality of the set.
LEMMA RankInRange ==
  ASSUME NEW T \in SUBSET Nat, IsFiniteSet(T), NEW i \in T
  PROVE  Rank(T, i) \in 1..Cardinality(T)
<1> DEFINE A == {m \in T : m <= i}
<1>1. IsFiniteSet(A) /\ Cardinality(A) <= Cardinality(T)
  BY FS_Subset
<1>2. Cardinality(A) \in Nat /\ Cardinality(T) \in Nat
  BY <1>1, FS_CardinalityType
<1>3. i \in A
  BY SMT
<1>4. Cardinality(A) # 0
  BY <1>1, <1>3, FS_EmptySet
<1> QED
  BY <1>1, <1>2, <1>4 DEF Rank

\* No two elements have the same rank.
LEMMA RankOneToOne ==
  ASSUME NEW T \in SUBSET Nat, IsFiniteSet(T), NEW i \in T, NEW j \in T,
         Rank(T, i) = Rank(T, j)
  PROVE  i = j
<1>1. i \in Nat /\ j \in Nat
  OBVIOUS
<1>2. Rank(T, i) \in Nat /\ Rank(T, j) \in Nat
  BY RankInRange, FS_CardinalityType
<1>3. ~(i < j)
  BY <1>2, RankGrows
<1>4. ~(j < i)
  BY <1>2, RankGrows
<1> QED
  BY <1>1, <1>3, <1>4

\* Every number up to the cardinality of the set is the rank of an element.
LEMMA RankOnto ==
  ASSUME NEW T \in SUBSET Nat, IsFiniteSet(T), NEW k \in 1..Cardinality(T)
  PROVE  \E i \in T : Rank(T, i) = k
<1> DEFINE n == Cardinality(T)
           f == [i \in T |-> Rank(T, i)]
<1>1. n \in Nat
  BY FS_CardinalityType
<1>2. f \in Injection(T, 1..n)
  <2>1. f \in [T -> 1..n]
    BY RankInRange
  <2>2. \A i, j \in T : f[i] = f[j] => i = j
    BY RankOneToOne
  <2> QED
    BY <2>1, <2>2 DEF Injection, IsInjective
<1>3. IsFiniteSet(1..n) /\ Cardinality(1..n) = n
  BY <1>1, FS_Interval
<1>4. f \in Surjection(T, 1..n)
  BY <1>2, <1>3, FS_Injection
<1> QED
  BY <1>4 DEF Surjection

\* A finite set of numbers that is not empty has a least element.
LEMMA HasLeast ==
  ASSUME NEW T \in SUBSET Nat, IsFiniteSet(T), T # {}
  PROVE  \E i \in T : \A j \in T : i <= j
<1>1. Cardinality(T) \in Nat /\ Cardinality(T) # 0
  BY FS_CardinalityType, FS_EmptySet
<1>2. PICK i \in T : Rank(T, i) = 1
  BY <1>1, RankOnto
<1>3. ASSUME NEW j \in T, j < i PROVE FALSE
  <2> DEFINE A == {m \in T : m <= j}
  <2>1. Rank(T, j) < 1
    BY <1>2, <1>3, RankGrows
  <2>2. IsFiniteSet(A) /\ j \in A
    BY FS_Subset
  <2>3. Cardinality(A) \in Nat /\ Cardinality(A) # 0
    BY <2>2, FS_CardinalityType, FS_EmptySet
  <2> QED
    BY <2>1, <2>3 DEF Rank
<1>4. \A j \in T : i <= j
  BY <1>3
<1> QED
  BY <1>4

\* Packing the slots of a set leaves a list with one place for each of them.
LEMMA PackedKeeps ==
  ASSUME NEW S, NEW s \in Seq(S), NEW T \in SUBSET (1..Len(s))
  PROVE  /\ IsFiniteSet(T) /\ Cardinality(T) \in Nat
         /\ Packed(s, T) \in Seq(S)
         /\ Len(Packed(s, T)) = Cardinality(T)
         /\ \A k \in 1..Cardinality(T) : \E i \in T :
              Rank(T, i) = k /\ Packed(s, T)[k] = s[i]
<1> DEFINE n == Cardinality(T)
           p == Packed(s, T)
<1>1. IsFiniteSet(T) /\ n \in Nat
  <2>1. Len(s) \in Int /\ 1 \in Int
    OBVIOUS
  <2>2. IsFiniteSet(1..Len(s))
    BY <2>1, FS_Interval
  <2>3. IsFiniteSet(T)
    BY <2>2, FS_Subset
  <2> QED
    BY <2>3, FS_CardinalityType
<1>2. ASSUME NEW k \in 1..n
      PROVE  \E i \in T : Rank(T, i) = k /\ p[k] = s[i]
  <2> DEFINE i == CHOOSE m \in T : Rank(T, m) = k
  <2>1. \E m \in T : Rank(T, m) = k
    BY <1>1, RankOnto
  <2>2. i \in T /\ Rank(T, i) = k
    BY <2>1
  <2>3. p[k] = s[i]
    BY DEF Packed
  <2> QED
    BY <2>2, <2>3
<1>3. \A k \in 1..n : p[k] \in S
  BY <1>2
<1>4. p = [k \in 1..n |-> p[k]]
  BY DEF Packed
<1>5. p \in [1..n -> S]
  BY <1>3, <1>4
<1>6. p \in Seq(S) /\ Len(p) = n
  BY <1>1, <1>5
<1> QED
  BY <1>1, <1>2, <1>6

-----------------------------------------------------------------------------

\* The objects of a list are finitely many, and no more than its slots.
LEMMA LiveFinite ==
  ASSUME NEW S, NEW s \in Seq(S), NEW e
  PROVE  /\ Live(s, e) \in SUBSET Nat
         /\ IsFiniteSet(Live(s, e))
         /\ Cardinality(Live(s, e)) \in Nat
         /\ Cardinality(Live(s, e)) <= Len(s)
         /\ Vacant(s, e) # {} => Cardinality(Live(s, e)) < Len(s)
         /\ Vacant(s, e) = {} => Cardinality(Live(s, e)) = Len(s)
<1>1. IsFiniteSet(1..Len(s)) /\ Cardinality(1..Len(s)) = Len(s)
  <2>1. Len(s) \in Nat /\ 1 \in Int /\ Len(s) \in Int
    OBVIOUS
  <2>2. IsFiniteSet(1..Len(s)) /\ Cardinality(1..Len(s)) = IF 1 > Len(s) THEN 0 ELSE Len(s) - 1 + 1
    BY <2>1, FS_Interval
  <2> QED
    BY <2>1, <2>2
<1>2. Live(s, e) \in SUBSET (1..Len(s))
  BY DEF Live
<1>3. /\ IsFiniteSet(Live(s, e))
      /\ Cardinality(Live(s, e)) <= Len(s)
      /\ Len(s) = Cardinality(Live(s, e)) => 1..Len(s) = Live(s, e)
  BY <1>1, <1>2, FS_Subset
<1>4. Cardinality(Live(s, e)) \in Nat
  BY <1>3, FS_CardinalityType
<1>5. Vacant(s, e) = {} <=> Live(s, e) = 1..Len(s)
  BY DEF Vacant, Live
<1> QED
  BY <1>1, <1>2, <1>3, <1>4, <1>5

\* The slot evcpe_attr_add_obj takes is an empty one, if there is one, and
\* else the next after the last.
LEMMA FirstFreeIsFree ==
  ASSUME NEW S, NEW s \in Seq(S), NEW e
  PROVE  IF Vacant(s, e) = {} THEN FirstFree(s, e) = Len(s) + 1
                              ELSE FirstFree(s, e) \in Vacant(s, e)
<1> DEFINE T == Vacant(s, e)
<1>1. T \in SUBSET Nat /\ T \in SUBSET (1..Len(s))
  BY DEF Vacant
<1>2. IsFiniteSet(T)
  BY <1>1, FS_Interval, FS_Subset
<1>3. CASE T = {}
  BY <1>3 DEF FirstFree
<1>4. CASE T # {}
  <2>1. \E i \in T : \A j \in T : i <= j
    BY <1>1, <1>2, <1>4, HasLeast
  <2> QED
    BY <1>4, <2>1 DEF FirstFree
<1> QED
  BY <1>3, <1>4

\* Filling the slot evcpe_attr_add_obj takes adds one object and moves none;
\* the list grows only if it had no empty slot.
LEMMA FillAdds ==
  ASSUME NEW S, NEW s \in Seq(S), NEW e, NEW obj \in S, obj # e,
         NEW i, i = FirstFree(s, e), NEW t, t = Fill(s, i, obj)
  PROVE  /\ t \in Seq(S)
         /\ i \in 1..Len(t) /\ i \notin Live(s, e) /\ t[i] = obj
         /\ Live(t, e) = Live(s, e) \cup {i}
         /\ \A j \in Live(s, e) : t[j] = s[j]
         /\ Len(t) = IF Vacant(s, e) = {} THEN Len(s) + 1 ELSE Len(s)
         /\ Cardinality(Live(t, e)) = Cardinality(Live(s, e)) + 1
<1>1. CASE Vacant(s, e) = {}
  <2>1. i = Len(s) + 1
    BY <1>1, FirstFreeIsFree
  <2>2. t = Append(s, obj)
    BY <2>1 DEF Fill
  <2>3. /\ t \in Seq(S)
        /\ Len(t) = Len(s) + 1
        /\ t[Len(s) + 1] = obj
        /\ \A j \in 1..Len(s) : t[j] = s[j]
    BY <2>2
  <2>4. i \notin Live(s, e)
    BY <2>1 DEF Live
  <2>5. Live(t, e) = Live(s, e) \cup {i}
    BY <2>1, <2>3 DEF Live
  <2>6. Cardinality(Live(t, e)) = Cardinality(Live(s, e)) + 1
    <3>1. IsFiniteSet(Live(s, e))
      BY LiveFinite
    <3> QED
      BY <2>4, <2>5, <3>1, FS_AddElement
  <2>7. i \in 1..Len(t) /\ t[i] = obj
    BY <2>1, <2>3
  <2>8. \A j \in Live(s, e) : t[j] = s[j]
    BY <2>3, <2>4 DEF Live
  <2> QED
    BY <1>1, <2>3, <2>4, <2>5, <2>6, <2>7, <2>8
<1>2. CASE Vacant(s, e) # {}
  <2>1. i \in 1..Len(s) /\ s[i] = e
    BY <1>2, FirstFreeIsFree DEF Vacant
  <2>2. t = [s EXCEPT ![i] = obj]
    BY <2>1 DEF Fill
  <2>3. /\ t \in Seq(S)
        /\ Len(t) = Len(s)
        /\ t[i] = obj
        /\ \A j \in 1..Len(s) : j # i => t[j] = s[j]
    BY <2>1, <2>2
  <2>4. i \notin Live(s, e)
    BY <2>1 DEF Live
  <2>5. Live(t, e) = Live(s, e) \cup {i}
    BY <2>1, <2>3 DEF Live
  <2>6. Cardinality(Live(t, e)) = Cardinality(Live(s, e)) + 1
    <3>1. IsFiniteSet(Live(s, e))
      BY LiveFinite
    <3> QED
      BY <2>4, <2>5, <3>1, FS_AddElement
  <2>7. i \in 1..Len(t) /\ t[i] = obj
    BY <2>1, <2>3
  <2>8. \A j \in Live(s, e) : t[j] = s[j]
    BY <2>3, <2>4 DEF Live
  <2> QED
    BY <1>2, <2>3, <2>4, <2>5, <2>6, <2>7, <2>8
<1> QED
  BY <1>1, <1>2

\* Emptying a slot removes its object and moves no other.
LEMMA EmptyRemoves ==
  ASSUME NEW S, NEW e \in S, NEW s \in Seq(S), NEW i \in Live(s, e),
         NEW t, t = Clear(s, i, e)
  PROVE  /\ t \in Seq(S)
         /\ Len(t) = Len(s)
         /\ t[i] = e
         /\ Live(t, e) = Live(s, e) \ {i}
         /\ \A j \in 1..Len(s) : j # i => t[j] = s[j]
         /\ Cardinality(Live(t, e)) = Cardinality(Live(s, e)) - 1
<1>1. i \in 1..Len(s) /\ s[i] # e
  BY DEF Live
<1>2. /\ t \in Seq(S)
      /\ Len(t) = Len(s)
      /\ t[i] = e
      /\ \A j \in 1..Len(s) : j # i => t[j] = s[j]
  BY <1>1 DEF Clear
<1>3. Live(t, e) = Live(s, e) \ {i}
  BY <1>1, <1>2 DEF Live
<1> QED
  BY <1>2, <1>3, LiveFinite, FS_RemoveElement

\* The list that is read back has one slot for each object of the list that
\* was written, in the place of that object among them.
LEMMA CompactKeeps ==
  ASSUME NEW S, NEW s \in Seq(S), NEW e
  PROVE  /\ Compact(s, e) \in Seq(S)
         /\ Len(Compact(s, e)) = Cardinality(Live(s, e))
         /\ \A k \in 1..Cardinality(Live(s, e)) : \E i \in Live(s, e) :
              Rank(Live(s, e), i) = k /\ Compact(s, e)[k] = s[i]
<1>1. Live(s, e) \in SUBSET (1..Len(s))
  BY DEF Live
<1> QED
  BY <1>1, PackedKeeps DEF Compact

-----------------------------------------------------------------------------

\* What an object's slot holds.
Slot == [id : Nat, instance : Nat]

\* The path of every object names the slot it is in.
InPlace == \A i \in Live(slots, Free) : slots[i].instance = i

\* No two objects are the same, and none is one still to be made.
Distinct ==
  \A i \in Live(slots, Free) :
    /\ slots[i].id \in 1..made
    /\ \A j \in Live(slots, Free) : slots[j].id = slots[i].id => j = i

IInv ==
  /\ ListTypeOK
  /\ InPlace
  /\ Distinct
  /\ SizeIsLive
  /\ ListIsPeak

\* The steps for AddListObject.
LEMMA AddObjectStep == IInv /\ AddListObject => IInv'
<1> SUFFICES ASSUME IInv, AddListObject PROVE IInv'
  OBVIOUS
<1> USE ObjectsAssumption
<1> DEFINE i == FirstFree(slots, Free)
           obj == Object(made + 1, i)
<1>0. slots \in Seq(Slot)
  BY DEF IInv, ListTypeOK, Slot
<1>1. i \in Nat
  BY <1>0, FirstFreeIsFree DEF Vacant
<1>2. obj \in Slot /\ obj # Free /\ obj.id = made + 1 /\ obj.instance = i
  BY <1>1 DEF IInv, ListTypeOK, Slot, Object, Free
<1>3. slots' = Fill(slots, i, obj) /\ RoomFor(size) /\ made < MaxMade
  BY DEF AddListObject, AddToList
<1>4. /\ made' = made + 1 /\ size' = size + 1 /\ number' = size + 1
      /\ peak' = Larger(peak, size + 1)
      /\ told' = [id |-> made + 1, instanceNumber |-> i - 1]
  BY DEF AddListObject, AddToList
<1>5. /\ slots' \in Seq(Slot)
      /\ i \in 1..Len(slots') /\ i \notin Live(slots, Free) /\ slots'[i] = obj
      /\ Live(slots', Free) = Live(slots, Free) \cup {i}
      /\ \A j \in Live(slots, Free) : slots'[j] = slots[j]
      /\ Len(slots') = IF Vacant(slots, Free) = {} THEN Len(slots) + 1 ELSE Len(slots)
      /\ Cardinality(Live(slots', Free)) = Cardinality(Live(slots, Free)) + 1
  BY <1>0, <1>2, <1>3, FillAdds
<1>6. Live(slots, Free)' = Live(slots', Free)
  BY DEF Live, Free, Object
<1>7. ListTypeOK'
  BY <1>1, <1>3, <1>4, <1>5 DEF IInv, ListTypeOK, Slot, Larger
<1>8. InPlace'
  BY <1>2, <1>5, <1>6 DEF IInv, InPlace
<1>9. Distinct'
  <2>1. made \in Nat
    BY DEF IInv, ListTypeOK
  <2>2. ASSUME NEW j \in Live(slots, Free)
        PROVE  slots'[j].id = slots[j].id /\ slots[j].id \in 1..made
    BY <1>5 DEF IInv, Distinct
  <2>3. ASSUME NEW j \in Live(slots', Free)
        PROVE  slots'[j].id \in 1..made'
    BY <1>2, <1>4, <1>5, <2>1, <2>2
  <2>4. ASSUME NEW j \in Live(slots', Free), NEW k \in Live(slots', Free),
               slots'[k].id = slots'[j].id
        PROVE  k = j
    <3>1. CASE j = i \/ k = i
      BY <1>2, <1>5, <2>1, <2>2, <2>4, <3>1
    <3>2. CASE j \in Live(slots, Free) /\ k \in Live(slots, Free)
      BY <2>2, <2>4, <3>2 DEF IInv, Distinct
    <3> QED
      BY <1>5, <3>1, <3>2
  <2> QED
    BY <1>6, <2>3, <2>4 DEF Distinct
<1>10. SizeIsLive'
  BY <1>4, <1>5, <1>6 DEF IInv, SizeIsLive
<1>11. ListIsPeak'
  <2>1. Len(slots) = peak /\ (Limit # 0 => Len(slots) <= Limit) /\ peak \in Nat
    BY DEF IInv, ListIsPeak, ListTypeOK
  <2>2. IF Vacant(slots, Free) = {} THEN size = Len(slots) ELSE size < Len(slots)
    BY <1>0, LiveFinite DEF IInv, SizeIsLive
  <2>3. size \in Nat /\ (Limit # 0 => size < Limit)
    BY <1>3 DEF RoomFor, IInv, ListTypeOK
  <2>4. Len(slots') = peak'
    BY <1>4, <1>5, <2>1, <2>2, <2>3 DEF Larger
  <2>5. Limit # 0 => Len(slots') <= Limit
    BY <1>5, <2>1, <2>2, <2>3
  <2> QED
    BY <2>4, <2>5 DEF ListIsPeak
<1> QED
  BY <1>7, <1>8, <1>9, <1>10, <1>11 DEF IInv

\* The step for evcpe_attr_del_obj.
LEMMA DelObjStep == ASSUME NEW i PROVE IInv /\ DelListObject(i) => IInv'
<1> SUFFICES ASSUME IInv, DelListObject(i) PROVE IInv'
  OBVIOUS
<1>0. slots \in Seq(Slot) /\ Free \in Slot
  BY DEF IInv, ListTypeOK, Slot, Free, Object
<1>1. i \in Live(slots, Free) /\ slots' = Clear(slots, i, Free)
  BY DEF DelListObject
<1>2. size' = size - 1 /\ UNCHANGED <<number, made, peak, told>>
  BY DEF DelListObject
<1>3. /\ slots' \in Seq(Slot)
      /\ Len(slots') = Len(slots)
      /\ Live(slots', Free) = Live(slots, Free) \ {i}
      /\ \A j \in 1..Len(slots) : j # i => slots'[j] = slots[j]
      /\ Cardinality(Live(slots', Free)) = Cardinality(Live(slots, Free)) - 1
  BY <1>0, <1>1, EmptyRemoves
<1>4. Live(slots, Free)' = Live(slots', Free)
  BY DEF Live, Free, Object
<1>5. \A j \in Live(slots', Free) :
        j \in Live(slots, Free) /\ slots'[j] = slots[j]
  BY <1>3 DEF Live
<1>6. SizeIsLive'
  BY <1>2, <1>3, <1>4 DEF IInv, SizeIsLive
<1>7. size' \in Nat
  BY <1>3, <1>4, <1>6, LiveFinite DEF SizeIsLive
<1>8. ListTypeOK'
  BY <1>2, <1>3, <1>7 DEF IInv, ListTypeOK, Slot
<1>9. InPlace'
  BY <1>4, <1>5 DEF IInv, InPlace
<1>10. Distinct'
  BY <1>2, <1>4, <1>5 DEF IInv, Distinct
<1>11. ListIsPeak'
  BY <1>2, <1>3 DEF IInv, ListIsPeak
<1> QED
  BY <1>6, <1>8, <1>9, <1>10, <1>11 DEF IInv

\* The step for a restart.
LEMMA ReloadStep == IInv /\ ReloadList => IInv'
<1> SUFFICES ASSUME IInv, ReloadList PROVE IInv'
  OBVIOUS
<1> USE ObjectsAssumption
<1> DEFINE left == Compact(slots, Free)
           n == Cardinality(Live(slots, Free))
<1>0. slots \in Seq(Slot)
  BY DEF IInv, ListTypeOK, Slot
<1>1. n \in Nat /\ n = size /\ n <= Len(slots)
  BY <1>0, LiveFinite DEF IInv, SizeIsLive
<1>2. /\ left \in Seq(Slot)
      /\ Len(left) = n
      /\ \A k \in 1..n : \E i \in Live(slots, Free) :
           Rank(Live(slots, Free), i) = k /\ left[k] = slots[i]
  BY <1>0, CompactKeeps
<1>3. /\ slots' = [i \in DOMAIN left |-> Object(left[i].id, i)]
      /\ size' = Len(left)
      /\ number' = IF left = <<>> THEN number ELSE Len(left)
      /\ peak' = Len(left)
      /\ made' = made /\ told' = told
  BY DEF ReloadList
<1>4. \A k \in 1..n : left[k].id \in 1..made
  BY <1>2 DEF IInv, Distinct
<1>5. \A k, l \in 1..n : left[k].id = left[l].id => k = l
  <2> SUFFICES ASSUME NEW k \in 1..n, NEW l \in 1..n, left[k].id = left[l].id
               PROVE  k = l
    OBVIOUS
  <2>1. PICK i \in Live(slots, Free) : Rank(Live(slots, Free), i) = k /\ left[k] = slots[i]
    BY <1>2
  <2>2. PICK j \in Live(slots, Free) : Rank(Live(slots, Free), j) = l /\ left[l] = slots[j]
    BY <1>2
  <2>3. i = j
    BY <2>1, <2>2 DEF IInv, Distinct
  <2> QED
    BY <2>1, <2>2, <2>3
<1>6. made \in Nat
  BY DEF IInv, ListTypeOK
<1>7. DOMAIN left = 1..n
  BY <1>2
<1>8. \A k \in 1..n : /\ slots'[k] = Object(left[k].id, k)
                       /\ slots'[k] \in Slot
                       /\ slots'[k] # Free
                       /\ slots'[k].id = left[k].id
                       /\ slots'[k].instance = k
  BY <1>1, <1>3, <1>4, <1>6, <1>7 DEF Object, Slot, Free
<1>9. slots' \in [1..n -> Slot]
  BY <1>3, <1>7, <1>8
<1>10. slots' \in Seq(Slot) /\ Len(slots') = n
  BY <1>1, <1>9
<1>11. Live(slots, Free)' = 1..n
  BY <1>8, <1>10 DEF Live, Free, Object
<1>12. ListTypeOK'
  BY <1>1, <1>2, <1>3, <1>10 DEF IInv, ListTypeOK, Slot
<1>13. InPlace'
  BY <1>8, <1>11 DEF InPlace
<1>14. Distinct'
  <2>1. \A k \in 1..n : slots'[k].id \in 1..made'
    BY <1>3, <1>4, <1>8
  <2>2. \A k, l \in 1..n : slots'[l].id = slots'[k].id => l = k
    BY <1>5, <1>8
  <2> HIDE DEF n
  <2> QED
    BY <1>11, <2>1, <2>2 DEF Distinct
<1>15. SizeIsLive'
  <2>1. Cardinality(1..n) = n
    BY <1>1, FS_Interval
  <2> QED
    BY <1>2, <1>3, <1>11, <2>1 DEF SizeIsLive
<1>16. ListIsPeak'
  BY <1>1, <1>2, <1>3, <1>10 DEF IInv, ListIsPeak, ListTypeOK
<1> QED
  BY <1>12, <1>13, <1>14, <1>15, <1>16 DEF IInv

-----------------------------------------------------------------------------

\* No step on the list leaves the strengthened invariant.
LEMMA ListStep == IInv /\ [ListNext]_listVars => IInv'
<1> SUFFICES ASSUME IInv, [ListNext]_listVars PROVE IInv'
  OBVIOUS
<1>1. CASE AddListObject
  BY <1>1, AddObjectStep
<1>2. CASE \E i \in DOMAIN slots : DelListObject(i)
  BY <1>2, DelObjStep
<1>3. CASE ReloadList
  BY <1>3, ReloadStep
<1>4. CASE UNCHANGED listVars
  BY <1>4 DEF listVars, IInv, ListTypeOK, InPlace, Distinct, SizeIsLive, ListIsPeak,
              Live, Free, Object
<1>5. CASE \E n \in 0..MaxValue : SetNumber(n)
  BY <1>5 DEF SetNumber, IInv, ListTypeOK, InPlace, Distinct, SizeIsLive,
              ListIsPeak, Live, Free, Object
<1> QED
  BY <1>1, <1>2, <1>3, <1>4, <1>5 DEF ListNext

\* An empty list has it.
LEMMA ListInitInv == ListInit => IInv
<1> SUFFICES ASSUME ListInit PROVE IInv
  OBVIOUS
<1>1. Live(slots, Free) = {}
  BY DEF ListInit, Live
<1>2. ListTypeOK
  BY ObjectsAssumption DEF ListInit, ListTypeOK
<1>3. InPlace /\ Distinct
  BY <1>1 DEF InPlace, Distinct
<1>4. SizeIsLive
  BY <1>1, FS_EmptySet DEF ListInit, SizeIsLive
<1>5. ListIsPeak
  BY ObjectsAssumption DEF ListInit, ListIsPeak
<1> QED
  BY <1>2, <1>3, <1>4, <1>5 DEF IInv

\* The strengthened invariant holds in every reachable state.
THEOREM Invariance == ListSpec => []IInv
BY ListInitInv, ListStep, PTL DEF ListSpec

\* The path of an object locates that object, whatever was added, deleted and
\* reloaded before (evcpe_obj_init, evcpe_repo_locate).
THEOREM AlwaysPathsResolve == ListSpec => []PathsResolve
<1>1. IInv => PathsResolve
  BY DEF IInv, InPlace, Distinct, PathsResolve, ObjectAt
<1> QED
  BY <1>1, Invariance, PTL

\* The count the constraint is compared with is the number of objects.
THEOREM AlwaysSizeIsLive == ListSpec => []SizeIsLive
<1>1. IInv => SizeIsLive
  BY DEF IInv
<1> QED
  BY <1>1, Invariance, PTL

\* The list never grows past the most objects there were, nor past the
\* constraint.
THEOREM AlwaysListIsPeak == ListSpec => []ListIsPeak
<1>1. IInv => ListIsPeak
  BY DEF IInv
<1> QED
  BY <1>1, Invariance, PTL

\* Between two restarts an object keeps its instance number.
THEOREM AlwaysStaysPut == ListSpec => StaysPut
<1>1. IInv /\ [ListNext]_listVars =>
        [~ReloadList => \A i \in Live(slots, Free) : Stays(i)]_listVars
  <2> SUFFICES ASSUME IInv, ListNext, ~ReloadList, NEW i \in Live(slots, Free)
               PROVE  Stays(i)
    BY DEF listVars
  <2>0. slots \in Seq(Slot) /\ Free \in Slot /\ i \in 1..Len(slots)
    BY DEF IInv, ListTypeOK, Slot, Free, Object, Live
  <2>1. CASE AddListObject
    <3> DEFINE f == FirstFree(slots, Free)
               obj == Object(made + 1, f)
    <3>1. f \in Nat
      BY <2>0, FirstFreeIsFree DEF Vacant
    <3>2. obj \in Slot /\ obj # Free
      BY <3>1 DEF IInv, ListTypeOK, Slot, Object, Free
    <3>3. slots' = Fill(slots, f, obj)
      BY <2>1 DEF AddListObject, AddToList
    <3>4. /\ slots' \in Seq(Slot)
          /\ slots'[i] = slots[i]
          /\ Len(slots') >= Len(slots)
      BY <2>0, <3>2, <3>3, FillAdds
    <3> QED
      BY <2>0, <3>4 DEF Stays
  <2>2. ASSUME NEW j \in DOMAIN slots, DelListObject(j) PROVE Stays(i)
    <3>1. j \in Live(slots, Free) /\ slots' = Clear(slots, j, Free) /\ size' = size - 1
      BY <2>2 DEF DelListObject
    <3>2. /\ slots' \in Seq(Slot)
          /\ Len(slots') = Len(slots)
          /\ slots'[j] = Free
          /\ i # j => slots'[i] = slots[i]
      BY <2>0, <3>1, EmptyRemoves
    <3> QED
      BY <2>0, <3>1, <3>2 DEF Stays
  <2>3. ASSUME NEW n \in 0..MaxValue, SetNumber(n) PROVE Stays(i)
    BY <2>0, <2>3 DEF SetNumber, Stays
  <2> QED
    BY <2>1, <2>2, <2>3 DEF ListNext
<1> QED
  BY <1>1, Invariance, PTL DEF ListSpec, StaysPut

-----------------------------------------------------------------------------

\* The slots that hold c.
Holding(s, c) == {i \in DOMAIN s : s[i] = c}

\* They are finitely many.
LEMMA HoldingFinite ==
  ASSUME NEW S, NEW s \in Seq(S), NEW c
  PROVE  /\ Holding(s, c) \in SUBSET (1..Len(s))
         /\ Holding(s, c) \in SUBSET Nat
         /\ IsFiniteSet(Holding(s, c))
         /\ Cardinality(Holding(s, c)) \in Nat
<1>1. Holding(s, c) \in SUBSET (1..Len(s))
  BY DEF Holding
<1> QED
  BY <1>1, PackedKeeps

\* Filling the slot evcpe_attr_add_obj takes changes what one slot holds, and
\* that one was empty.
LEMMA FillHolds ==
  ASSUME NEW S, NEW s \in Seq(S), NEW e, NEW obj \in S, NEW c, c # e,
         NEW i, i = FirstFree(s, e), NEW t, t = Fill(s, i, obj)
  PROVE  /\ t \in Seq(S)
         /\ i \notin Holding(s, c)
         /\ Holding(t, c) = IF c = obj THEN Holding(s, c) \cup {i} ELSE Holding(s, c)
<1>1. CASE Vacant(s, e) = {}
  <2>1. i = Len(s) + 1
    BY <1>1, FirstFreeIsFree
  <2>2. t = Append(s, obj)
    BY <2>1 DEF Fill
  <2>3. /\ t \in Seq(S)
        /\ Len(t) = Len(s) + 1
        /\ t[Len(s) + 1] = obj
        /\ \A j \in 1..Len(s) : t[j] = s[j]
    BY <2>2
  <2> QED
    BY <2>1, <2>3 DEF Holding
<1>2. CASE Vacant(s, e) # {}
  <2>1. i \in 1..Len(s) /\ s[i] = e
    BY <1>2, FirstFreeIsFree DEF Vacant
  <2>2. t = [s EXCEPT ![i] = obj]
    BY <2>1 DEF Fill
  <2>3. /\ t \in Seq(S)
        /\ Len(t) = Len(s)
        /\ t[i] = obj
        /\ \A j \in 1..Len(s) : j # i => t[j] = s[j]
    BY <2>1, <2>2
  <2> QED
    BY <2>1, <2>3 DEF Holding
<1> QED
  BY <1>1, <1>2

\* Packing the slots of a set keeps how many of them hold c.
LEMMA PackedHolds ==
  ASSUME NEW S, NEW s \in Seq(S), NEW T \in SUBSET (1..Len(s)), NEW c
  PROVE  Cardinality(Holding(Packed(s, T), c)) = Cardinality(T \cap Holding(s, c))
<1> DEFINE n == Cardinality(T)
           p == Packed(s, T)
           P == Holding(p, c)
           Q == T \cap Holding(s, c)
           f == [i \in Q |-> Rank(T, i)]
<1>1. /\ IsFiniteSet(T) /\ n \in Nat
      /\ p \in Seq(S) /\ Len(p) = n
      /\ \A k \in 1..n : \E i \in T : Rank(T, i) = k /\ p[k] = s[i]
  BY PackedKeeps
<1>2. T \in SUBSET Nat
  OBVIOUS
<1>3. ASSUME NEW i \in T PROVE Rank(T, i) \in 1..n
  BY <1>1, <1>2, RankInRange
<1>4. ASSUME NEW i \in T, NEW j \in T, Rank(T, i) = Rank(T, j) PROVE i = j
  BY <1>1, <1>2, <1>4, RankOneToOne
<1>5. ASSUME NEW i \in T PROVE p[Rank(T, i)] = s[i]
  BY <1>1, <1>3, <1>4
<1>6. \A i \in Q : Rank(T, i) \in P
  BY <1>1, <1>3, <1>5 DEF Holding
<1>7. \A k \in P : \E i \in Q : Rank(T, i) = k
  BY <1>1 DEF Holding
<1>8. f \in Bijection(Q, P)
  <2>1. f \in [Q -> P]
    BY <1>6
  <2>2. \A i, j \in Q : f[i] = f[j] => i = j
    BY <1>4
  <2>3. \A k \in P : \E i \in Q : f[i] = k
    BY <1>7
  <2> HIDE DEF f, P, Q
  <2> QED
    BY <2>1, <2>2, <2>3 DEF Bijection, Injection, Surjection, IsInjective
<1>9. IsFiniteSet(Q)
  BY <1>1, FS_Subset
<1>10. ExistsBijection(Q, P)
  BY <1>8 DEF ExistsBijection
<1> HIDE DEF P, Q
<1> QED
  BY <1>9, <1>10, FS_Bijection DEF P, Q

-----------------------------------------------------------------------------

\* What a slot of the Event attribute holds.
EventSlot == Code \cup {NoEvent}

EventsTypeOK ==
  /\ events \in Seq(EventSlot)
  /\ inform \in Seq(Code)
  /\ file \in Seq(Code)

\* A count is the number of slots that hold the code.
LEMMA CountHolding ==
  ASSUME NEW s, NEW c \in Code
  PROVE  Counts(s)[c] = Cardinality(Holding(s, c))
BY DEF Counts, Holding

\* Lists whose counts agree for every code are the same bag.
LEMMA SameBag ==
  ASSUME NEW s, NEW b, \A c \in Code : Cardinality(Holding(s, c)) = b[c],
         b = [c \in Code |-> b[c]]
  PROVE  Counts(s) = b
<1>1. Counts(s) = [c \in Code |-> Cardinality(Holding(s, c))]
  BY DEF Counts, Holding
<1> QED
  BY <1>1

\* A list without slots is the empty bag.
LEMMA NothingHeld == Counts(<<>>) = Bag!NoEvents
<1> DEFINE b == Bag!NoEvents
<1>1. b = [c \in Code |-> 0]
  BY DEF Bag!NoEvents
<1>2. \A c \in Code : Holding(<<>>, c) = {}
  BY DEF Holding
<1>3. \A c \in Code : Cardinality(Holding(<<>>, c)) = b[c]
  BY <1>1, <1>2, FS_EmptySet
<1>4. b = [c \in Code |-> b[c]]
  BY <1>1
<1> HIDE DEF b
<1> QED
  BY <1>3, <1>4, SameBag DEF b

\* A list is one of any set that has all its elements.
LEMMA SeqOfElements ==
  ASSUME NEW S, NEW s \in Seq(S), NEW R, \A k \in 1..Len(s) : s[k] \in R
  PROVE  s \in Seq(R)
<1>1. Len(s) \in Nat /\ s \in [1..Len(s) -> R]
  OBVIOUS
<1> QED
  BY <1>1

-----------------------------------------------------------------------------

\* The step for evcpe_repo_add_event.
LEMMA AddEventRefines ==
  ASSUME EventsTypeOK, NEW c \in Code, AddEvent(c)
  PROVE  EventsTypeOK' /\ Bag!Add(c)
<1> DEFINE i == FirstFree(events, NoEvent)
           held == Counts(events)
<1>1. events' = Fill(events, i, c) /\ UNCHANGED <<inform, file>>
  BY DEF AddEvent
<1>2. \A d \in Code : d # NoEvent
  BY EventsAssumption
<1>3. events \in Seq(EventSlot) /\ c \in EventSlot
  BY DEF EventsTypeOK, EventSlot
<1>4. ASSUME NEW d \in Code
      PROVE  /\ events' \in Seq(EventSlot)
             /\ i \notin Holding(events, d)
             /\ Holding(events', d) = IF d = c THEN Holding(events, d) \cup {i}
                                              ELSE Holding(events, d)
  BY <1>1, <1>2, <1>3, FillHolds
<1>5. EventsTypeOK'
  BY <1>1, <1>4 DEF EventsTypeOK, EventSlot
<1>6. ASSUME NEW d \in Code
      PROVE  Cardinality(Holding(events', d)) = IF d = c THEN held[d] + 1 ELSE held[d]
  <2>1. IsFiniteSet(Holding(events, d))
    BY <1>3, HoldingFinite
  <2>2. held[d] = Cardinality(Holding(events, d))
    BY CountHolding
  <2>3. Cardinality(Holding(events, d) \cup {i}) = Cardinality(Holding(events, d)) + 1
    BY <1>4, <2>1, FS_AddElement
  <2> QED
    BY <1>4, <2>2, <2>3
<1>7. held = [d \in Code |-> held[d]]
  BY DEF Counts
<1>8. Counts(events') = [held EXCEPT ![c] = @ + 1]
  <2> DEFINE b == [held EXCEPT ![c] = @ + 1]
  <2>1. b = [d \in Code |-> IF d = c THEN held[d] + 1 ELSE held[d]]
    BY <1>7
  <2>2. \A d \in Code : b[d] = IF d = c THEN held[d] + 1 ELSE held[d]
    BY <2>1
  <2>3. b = [d \in Code |-> b[d]]
    BY <2>1
  <2>4. \A d \in Code : Cardinality(Holding(events', d)) = b[d]
    BY <1>6, <2>2
  <2> HIDE DEF b
  <2>5. Counts(events') = b
    BY <2>3, <2>4, SameBag
  <2> QED
    BY <2>5 DEF b
<1>9. /\ Counts(inform)' = Counts(inform)
      /\ Counts(file)' = Counts(file)
      /\ Counts(events)' = Counts(events')
  BY <1>1 DEF Counts
<1> QED
  BY <1>5, <1>8, <1>9 DEF Bag!Add

\* The step for evcpe_repo_add_event when the data model refuses the event: the
\* bag is as it was.
LEMMA AddEventFailsRefines ==
  ASSUME EventsTypeOK, NEW c \in Code, AddEventFails(c)
  PROVE  EventsTypeOK' /\ UNCHANGED Bag!vars
<1> DEFINE i == FirstFree(events, NoEvent)
           held == Counts(events)
<1>1. events' = Fill(events, i, NoEvent) /\ UNCHANGED <<inform, file>>
  BY DEF AddEventFails
<1>2. \A d \in Code : d # NoEvent
  BY EventsAssumption
<1>3. events \in Seq(EventSlot) /\ NoEvent \in EventSlot
  BY DEF EventsTypeOK, EventSlot
<1>4. ASSUME NEW d \in Code
      PROVE  events' \in Seq(EventSlot) /\ Holding(events', d) = Holding(events, d)
  BY <1>1, <1>2, <1>3, FillHolds
<1>5. EventsTypeOK'
  BY <1>1, <1>4 DEF EventsTypeOK, EventSlot
<1>6. Counts(events') = held
  <2>1. \A d \in Code : Cardinality(Holding(events', d)) = held[d]
    BY <1>4, CountHolding
  <2>2. held = [d \in Code |-> held[d]]
    BY DEF Counts
  <2> HIDE DEF held
  <2> QED
    BY <2>1, <2>2, SameBag
<1>7. /\ Counts(inform)' = Counts(inform)
      /\ Counts(file)' = Counts(file)
      /\ Counts(events)' = Counts(events')
  BY <1>1 DEF Counts
<1> QED
  BY <1>5, <1>6, <1>7 DEF Bag!vars

\* The slots that hold c after the events of a code are deleted.
LEMMA DelEventHolds ==
  ASSUME NEW S, NEW s \in Seq(S), NEW code, NoEvent \in S, NEW c, c # NoEvent
  PROVE  /\ DelEvent(s, code) \in Seq(S)
         /\ Holding(DelEvent(s, code), c) = IF c = code THEN {} ELSE Holding(s, c)
<1> DEFINE t == DelEvent(s, code)
<1>1. t = [j \in DOMAIN s |-> IF s[j] = code THEN NoEvent ELSE s[j]]
  BY DEF DelEvent
<1>2. /\ DOMAIN s = 1..Len(s)
      /\ \A j \in 1..Len(s) : s[j] \in S
  OBVIOUS
<1>3. t \in [1..Len(s) -> S]
  BY <1>1, <1>2
<1>4. t \in Seq(S) /\ DOMAIN t = 1..Len(s)
  BY <1>3
<1>5. \A j \in 1..Len(s) : t[j] = IF s[j] = code THEN NoEvent ELSE s[j]
  BY <1>1, <1>2
<1> HIDE DEF t
<1>6. Holding(t, c) = IF c = code THEN {} ELSE Holding(s, c)
  BY <1>2, <1>4, <1>5 DEF Holding
<1> QED
  BY <1>4, <1>6 DEF t

\* The step for an InformResponse.
LEMMA AcknowledgeRefines ==
  ASSUME EventsTypeOK, Acknowledge
  PROVE  EventsTypeOK' /\ Bag!Acknowledge
<1> DEFINE held == Counts(events)
           b == [c \in Code |-> IF c \in Boot THEN 0 ELSE held[c]]
<1>1. PICK first, second \in Boot :
        /\ Boot = {first, second}
        /\ events' = DelEvent(DelEvent(events, first), second)
        /\ UNCHANGED <<inform, file>>
  BY DEF Acknowledge
<1>2. \A d \in Code : d # NoEvent
  BY EventsAssumption
<1>3. events \in Seq(EventSlot) /\ NoEvent \in EventSlot
  BY DEF EventsTypeOK, EventSlot
<1>4. DelEvent(events, first) \in Seq(EventSlot) /\ events' \in Seq(EventSlot)
  <2>1. first # NoEvent
    BY <1>1, EventsAssumption
  <2>2. DelEvent(events, first) \in Seq(EventSlot)
    BY <1>3, <2>1, DelEventHolds
  <2> QED
    BY <1>1, <1>3, <2>1, <2>2, DelEventHolds
<1>5. ASSUME NEW d \in Code
      PROVE  Holding(events', d) = IF d \in Boot THEN {} ELSE Holding(events, d)
  <2>1. Holding(DelEvent(events, first), d) =
          IF d = first THEN {} ELSE Holding(events, d)
    BY <1>2, <1>3, DelEventHolds
  <2>2. Holding(events', d) =
          IF d = second THEN {} ELSE Holding(DelEvent(events, first), d)
    BY <1>1, <1>2, <1>3, <1>4, DelEventHolds
  <2> QED
    BY <1>1, <2>1, <2>2
<1>6. EventsTypeOK'
  BY <1>1, <1>4 DEF EventsTypeOK, EventSlot
<1>7. \A d \in Code : Cardinality(Holding(events', d)) = b[d]
  BY <1>5, CountHolding, FS_EmptySet
<1>8. b = [c \in Code |-> b[c]]
  OBVIOUS
<1>9. Counts(events') = b
  <2> HIDE DEF b
  <2> QED
    BY <1>7, <1>8, SameBag
<1>10. /\ Counts(inform)' = Counts(inform)
       /\ Counts(file)' = Counts(file)
       /\ Counts(events)' = Counts(events')
  BY <1>1 DEF Counts
<1> QED
  BY <1>6, <1>9, <1>10 DEF Bag!Acknowledge

\* The step for the data file: it holds the events of the list.
LEMMA PersistRefines ==
  ASSUME EventsTypeOK, Persist
  PROVE  EventsTypeOK' /\ Bag!Save
<1> DEFINE held == Counts(events)
           T == Live(events, NoEvent)
<1>1. file' = Packed(events, T) /\ UNCHANGED <<events, inform>>
  BY DEF Persist, Compact
<1>2. events \in Seq(EventSlot) /\ T \in SUBSET (1..Len(events))
  BY DEF EventsTypeOK, Live
<1>3. file' \in Seq(Code)
  <2>1. /\ file' \in Seq(EventSlot)
        /\ Cardinality(T) \in Nat
        /\ Len(file') = Cardinality(T)
        /\ \A k \in 1..Cardinality(T) : \E i \in T : file'[k] = events[i]
    BY <1>1, <1>2, PackedKeeps
  <2>2. \A k \in 1..Len(file') : file'[k] \in Code
    BY <1>2, <2>1 DEF Live, EventSlot
  <2> QED
    BY <2>1, <2>2, SeqOfElements
<1>4. EventsTypeOK'
  BY <1>1, <1>3 DEF EventsTypeOK, EventSlot
<1>5. ASSUME NEW d \in Code PROVE Cardinality(Holding(file', d)) = held[d]
  <2>1. d # NoEvent
    BY EventsAssumption
  <2>2. T \cap Holding(events, d) = Holding(events, d)
    BY <2>1 DEF Live, Holding
  <2> QED
    BY <1>1, <1>2, <2>2, PackedHolds, CountHolding
<1>6. held = [d \in Code |-> held[d]]
  BY DEF Counts
<1>7. Counts(file') = held
  <2> HIDE DEF held
  <2> QED
    BY <1>5, <1>6, SameBag
<1>8. /\ Counts(inform)' = Counts(inform)
      /\ Counts(events)' = Counts(events)
      /\ Counts(file)' = Counts(file')
  BY <1>1 DEF Counts
<1> QED
  BY <1>4, <1>7, <1>8 DEF Bag!Save

\* The step for a restart: the list is that of the data file.
LEMMA RestartRefines ==
  ASSUME EventsTypeOK, Restart
  PROVE  EventsTypeOK' /\ Bag!Restart
<1>1. events' = file /\ inform' = <<>> /\ UNCHANGED file
  BY DEF Restart
<1>2. file \in Seq(EventSlot)
  BY SeqOfElements DEF EventsTypeOK, EventSlot
<1>3. EventsTypeOK'
  BY <1>1, <1>2 DEF EventsTypeOK, EventSlot
<1>4. Counts(<<>>) = Bag!NoEvents
  BY NothingHeld
<1>5. /\ Counts(inform)' = Counts(<<>>)
      /\ Counts(events)' = Counts(file)
      /\ Counts(file)' = Counts(file)
  BY <1>1 DEF Counts
<1> QED
  BY <1>3, <1>4, <1>5 DEF Bag!Restart

\* Of the slots that hold a code an Inform lists all, if the code may repeat,
\* and the first otherwise.
LEMMA ListedHolds ==
  ASSUME NEW s \in Seq(EventSlot), NEW c \in Code,
         NEW T, T = {i \in DOMAIN s : Listed(s, i)}
  PROVE  Cardinality(T \cap Holding(s, c)) =
           IF c \in Multiple \/ Cardinality(Holding(s, c)) = 0
             THEN Cardinality(Holding(s, c)) ELSE 1
<1> DEFINE H == Holding(s, c)
<1>1. c # NoEvent
  BY EventsAssumption
<1>2. H \in SUBSET (1..Len(s)) /\ H \in SUBSET Nat /\ IsFiniteSet(H)
  BY HoldingFinite
<1>3. CASE c \in Multiple
  <2>1. T \cap H = H
    BY <1>1, <1>3 DEF Holding, Listed
  <2> QED
    BY <1>3, <2>1
<1>4. CASE c \notin Multiple /\ H = {}
  BY <1>4, FS_EmptySet
<1>5. CASE c \notin Multiple /\ H # {}
  <2>1. PICK i \in H : \A j \in H : i <= j
    BY <1>2, <1>5, HasLeast
  <2>2. i \in T
    <3>1. i \in DOMAIN s /\ i \in 1..Len(s) /\ s[i] = c
      BY DEF Holding
    <3>2. \A j \in 1..(i - 1) : s[j] # s[i]
      BY <2>1, <3>1 DEF Holding
    <3> QED
      BY <1>1, <3>1, <3>2 DEF Listed
  <2>3. ASSUME NEW j \in T \cap H PROVE j = i
    <3>1. s[j] = c /\ s[i] = c /\ i \in 1..Len(s) /\ j \in 1..Len(s)
      BY DEF Holding
    <3>2. \A k \in 1..(j - 1) : s[k] # c
      BY <1>5, <3>1 DEF Listed
    <3>3. i <= j
      BY <2>1
    <3> QED
      BY <3>1, <3>2, <3>3
  <2>4. T \cap H = {i}
    BY <2>2, <2>3
  <2>5. Cardinality({i}) = 1
    BY FS_Singleton
  <2>6. Cardinality(H) # 0
    BY <1>2, <1>5, FS_EmptySet
  <2> QED
    BY <1>5, <2>4, <2>5, <2>6
<1> QED
  BY <1>3, <1>4, <1>5

\* The step for evcpe_repo_to_inform.
LEMMA ToInformRefines ==
  ASSUME EventsTypeOK, ToInform
  PROVE  EventsTypeOK' /\ Bag!Report
<1> DEFINE held == Counts(events)
           T == {i \in DOMAIN events : Listed(events, i)}
           b == [c \in Code |-> IF c \in Multiple \/ held[c] = 0
                                  THEN held[c] ELSE 1]
<1>1. inform' = Packed(events, T) /\ UNCHANGED <<events, file>>
  BY DEF ToInform
<1>2. events \in Seq(EventSlot) /\ T \in SUBSET (1..Len(events))
  BY DEF EventsTypeOK
<1>3. inform' \in Seq(Code)
  <2>1. /\ inform' \in Seq(EventSlot)
        /\ Cardinality(T) \in Nat
        /\ Len(inform') = Cardinality(T)
        /\ \A k \in 1..Cardinality(T) : \E i \in T : inform'[k] = events[i]
    <3> HIDE DEF T
    <3> QED
      BY <1>1, <1>2, PackedKeeps
  <2>2. \A k \in 1..Len(inform') : inform'[k] \in Code
    BY <1>2, <2>1 DEF Listed, EventSlot
  <2> QED
    BY <2>1, <2>2, SeqOfElements
<1>4. EventsTypeOK'
  BY <1>1, <1>3 DEF EventsTypeOK, EventSlot
<1>5. ASSUME NEW d \in Code PROVE Cardinality(Holding(inform', d)) = b[d]
  <2>1. Cardinality(Holding(inform', d)) = Cardinality(T \cap Holding(events, d))
    BY <1>1, <1>2, PackedHolds
  <2>2. Cardinality(T \cap Holding(events, d)) =
          IF d \in Multiple \/ Cardinality(Holding(events, d)) = 0
            THEN Cardinality(Holding(events, d)) ELSE 1
    BY <1>2, ListedHolds
  <2>3. held[d] = Cardinality(Holding(events, d))
    BY CountHolding
  <2> HIDE DEF held
  <2> QED
    BY <2>1, <2>2, <2>3
<1>6. b = [d \in Code |-> b[d]]
  OBVIOUS
<1>7. Counts(inform') = b
  <2> HIDE DEF b
  <2> QED
    BY <1>5, <1>6, SameBag
<1>8. /\ Counts(inform)' = Counts(inform')
      /\ Counts(events)' = Counts(events)
      /\ Counts(file)' = Counts(file)
  BY <1>1 DEF Counts
<1> QED
  BY <1>4, <1>7, <1>8 DEF Bag!Report

-----------------------------------------------------------------------------

\* Every step on the list keeps its type and is a step of the bag, or none.
LEMMA StepIsOfBag ==
  EventsTypeOK /\ [EventsNext]_eventVars => EventsTypeOK' /\ [Bag!Next]_(Bag!vars)
<1> SUFFICES ASSUME EventsTypeOK, [EventsNext]_eventVars
             PROVE  EventsTypeOK' /\ [Bag!Next]_(Bag!vars)
  OBVIOUS
<1>1. ASSUME NEW c \in Code, AddEvent(c)
      PROVE  EventsTypeOK' /\ Bag!Next
  BY <1>1, AddEventRefines DEF Bag!Next
<1>2. ASSUME NEW c \in Code, AddEventFails(c)
      PROVE  EventsTypeOK' /\ UNCHANGED Bag!vars
  BY <1>2, AddEventFailsRefines
<1>3. CASE Acknowledge
  BY <1>3, AcknowledgeRefines DEF Bag!Next
<1>4. CASE ToInform
  BY <1>4, ToInformRefines DEF Bag!Next
<1>5. CASE Persist
  BY <1>5, PersistRefines DEF Bag!Next
<1>6. CASE Restart
  BY <1>6, RestartRefines DEF Bag!Next
<1>7. CASE UNCHANGED eventVars
  BY <1>7 DEF eventVars, Bag!vars, Counts, EventsTypeOK, EventSlot
<1> QED
  BY <1>1, <1>2, <1>3, <1>4, <1>5, <1>6, <1>7 DEF EventsNext

\* The list of the Event attribute, with its empty slots and double entries, is
\* the bag the scheduler relies on: of every code as many events are stored as
\* were added since it was acknowledged, an Inform lists what is stored, and a
\* restart brings back what was saved (repo.c).
THEOREM EventsAreABag == EventsSpec => StoreIsABag
<1>1. EventsInit => EventsTypeOK /\ Bag!Init
  <2> SUFFICES ASSUME EventsInit PROVE EventsTypeOK /\ Bag!Init
    OBVIOUS
  <2>1. events = <<>> /\ inform = <<>> /\ file = <<>>
    BY DEF EventsInit
  <2>2. EventsTypeOK
    BY <2>1 DEF EventsTypeOK
  <2>3. Bag!Init
    BY <2>1, NothingHeld DEF Bag!Init
  <2> QED
    BY <2>2, <2>3
<1> QED
  BY <1>1, StepIsOfBag, PTL DEF EventsSpec, StoreIsABag, Bag!Spec

-----------------------------------------------------------------------------
(***************************************************************************)
(* Paths.                                                                  *)
(***************************************************************************)

\* Sequences are equal if they have the same elements in the same places.
LEMMA SameSequence ==
  ASSUME NEW S, NEW s \in Seq(S), NEW t \in Seq(S), Len(s) = Len(t),
         \A k \in 1..Len(s) : s[k] = t[k]
  PROVE  s = t
OBVIOUS

\* A sequence without its last element.
LEMMA FrontIs ==
  ASSUME NEW S, NEW s \in Seq(S), s # <<>>
  PROVE  /\ Len(s) \in Nat /\ Len(s) > 0
         /\ Front(s) \in Seq(S) /\ Len(Front(s)) = Len(s) - 1
         /\ \A k \in 1..(Len(s) - 1) : Front(s)[k] = s[k]
         /\ Last(s) \in S /\ s = Append(Front(s), Last(s))
<1>1. Len(s) \in Nat /\ Len(s) > 0
  BY EmptySeq
<1>2. /\ Front(s) \in Seq(S) /\ Len(Front(s)) = Len(s) - 1
      /\ \A k \in 1..(Len(s) - 1) : Front(s)[k] = s[k]
  <2>1. Front(s) = SubSeq(s, 1, Len(s) - 1)
    BY DEF Front
  <2>2. PICK n \in Int : n = Len(s) - 1
    BY <1>1
  <2>3. 1 \in Int /\ \A k \in 1..n : s[k] \in S
    BY <1>1, <2>2
  <2>4. /\ SubSeq(s, 1, n) \in Seq(S)
        /\ Len(SubSeq(s, 1, n)) = IF 1 <= n THEN n - 1 + 1 ELSE 0
        /\ \A k \in 1..(n - 1 + 1) : SubSeq(s, 1, n)[k] = s[1 + k - 1]
    BY <2>3, SubSeqProperties
  <2>5. Len(SubSeq(s, 1, n)) = n /\ \A k \in 1..n : SubSeq(s, 1, n)[k] = s[k]
    BY <1>1, <2>2, <2>4
  <2> QED
    BY <2>1, <2>2, <2>4, <2>5
<1>3. Last(s) \in S
  BY <1>1 DEF Last
<1>4. s = Append(Front(s), Last(s))
  BY <1>1, <1>2, <1>3, SameSequence DEF Last
<1> QED
  BY <1>1, <1>2, <1>3, <1>4

\* What follows the first n elements.
LEMMA AfterIs ==
  ASSUME NEW S, NEW s \in Seq(S), NEW n \in Nat, n <= Len(s)
  PROVE  /\ After(s, n) \in Seq(S) /\ Len(After(s, n)) = Len(s) - n
         /\ \A k \in 1..(Len(s) - n) : After(s, n)[k] = s[n + k]
BY DEF After

\* Two sequences one after the other.
LEMMA JoinedIs ==
  ASSUME NEW S, NEW s \in Seq(S), NEW t \in Seq(S)
  PROVE  /\ s \o t \in Seq(S) /\ Len(s \o t) = Len(s) + Len(t)
         /\ \A k \in 1..Len(s) : (s \o t)[k] = s[k]
         /\ \A k \in (Len(s) + 1)..(Len(s) + Len(t)) : (s \o t)[k] = t[k - Len(s)]
OBVIOUS

\* One path begins another if they agree as far as it goes.
LEMMA PrefixIs ==
  ASSUME NEW s \in Seq(Part), NEW t \in Seq(Part)
  PROVE  IsPrefix(s, t) <=> Len(s) <= Len(t) /\ \A k \in 1..Len(s) : s[k] = t[k]
BY DEF IsPrefix

\* The root, the list and its number in the schema.
LEMMA SchemaFacts ==
  /\ ListAttr \in DOMAIN Schema /\ Schema[ListAttr] = "multiple"
  /\ \A a \in DOMAIN Schema : Schema[a] = "multiple" => a = ListAttr
  /\ RootAttr \in DOMAIN Schema /\ Schema[RootAttr] = "object"
  /\ Len(RootAttr) = 1
  /\ \A a \in DOMAIN Schema : Len(a) = 1 => a = RootAttr
  /\ \A a \in DOMAIN Schema : a \in Seq(Part) /\ Len(a) > 0
  /\ \A a \in DOMAIN Schema : ~IsStrictPrefix(a, a)
<1>1. {a \in DOMAIN Schema : Schema[a] = "multiple"} = {ListAttr}
  BY ListAssumption
<1>2. PICK r \in DOMAIN Schema :
        /\ Len(r) = 1 /\ Schema[r] = "object"
        /\ \A a \in DOMAIN Schema : Len(a) = 1 => a = r
  BY RootAssumption
<1>3. RootAttr = r
  BY <1>2 DEF RootAttr
<1>4. \A a \in DOMAIN Schema : a \in Seq(Part) /\ Len(a) > 0
  <2>1. \A a \in DOMAIN Schema : a \in Seq(Part) /\ a # <<>>
    BY SchemaAssumption DEF NoEmptyPath
  <2> QED
    BY <2>1, FrontIs
<1>5. \A a \in DOMAIN Schema : ~IsStrictPrefix(a, a)
  BY DEF IsStrictPrefix
<1> QED
  BY <1>1, <1>2, <1>3, <1>4, <1>5

\* The number of entries stands beside the list.
LEMMA NumberIsFixed == NumberAttr \in Fixed /\ Schema[NumberAttr] = "simple"
<1>1. /\ NumberAttr \in DOMAIN Schema /\ Schema[NumberAttr] = "simple"
      /\ Front(NumberAttr) = Front(ListAttr)
  BY ListAssumption
<1>2. /\ NumberAttr \in Seq(Part) /\ Len(NumberAttr) > 0
      /\ ListAttr \in Seq(Part) /\ Len(ListAttr) > 0
  BY <1>1, SchemaFacts
<1>3. Len(NumberAttr) = Len(ListAttr)
  <2>1. /\ Len(Front(NumberAttr)) = Len(NumberAttr) - 1
        /\ Len(Front(ListAttr)) = Len(ListAttr) - 1
    BY <1>2, FrontIs, EmptySeq
  <2> QED
    BY <1>1, <1>2, <2>1
<1>4. ASSUME IsPrefix(ListAttr, NumberAttr) PROVE ListAttr = NumberAttr
  <2>1. \A k \in 1..Len(ListAttr) : ListAttr[k] = NumberAttr[k]
    BY <1>2, <1>4, PrefixIs
  <2> QED
    BY <1>2, <1>3, <2>1
<1> QED
  BY <1>1, <1>4 DEF Fixed, InList, IsStrictPrefix

\* The path of an object of the list.
LEMMA InstancePath ==
  ASSUME NEW i \in 1..MaxMade
  PROVE  /\ Instance(i) \in Seq(Part)
         /\ Len(Instance(i)) = Len(ListAttr) + 1
         /\ Instance(i)[Len(ListAttr) + 1] = Numeral[i]
         /\ \A k \in 1..Len(ListAttr) : Instance(i)[k] = ListAttr[k]
         /\ IsStrictPrefix(ListAttr, Instance(i))
         /\ Front(Instance(i)) = ListAttr
<1>1. ListAttr \in Seq(Part) /\ Numeral[i] \in Part
  BY SchemaFacts, NumeralAssumption
<1>2. /\ Instance(i) \in Seq(Part)
      /\ Len(Instance(i)) = Len(ListAttr) + 1
      /\ Instance(i)[Len(ListAttr) + 1] = Numeral[i]
      /\ \A k \in 1..Len(ListAttr) : Instance(i)[k] = ListAttr[k]
  BY <1>1 DEF Instance
<1>3. IsPrefix(ListAttr, Instance(i)) /\ ListAttr # Instance(i)
  BY <1>1, <1>2, PrefixIs
<1>4. Front(Instance(i)) = ListAttr
  BY <1>1, <1>2, SameSequence DEF Front
<1> QED
  BY <1>2, <1>3, <1>4 DEF IsStrictPrefix

\* An attribute of an object of the list: its parts, and its schema.
LEMMA ObjectAttr ==
  ASSUME NEW i \in 1..MaxMade, NEW c \in InList, NEW a, a = AttrAt(i, c)
  PROVE  /\ c \in DOMAIN Schema /\ c \in Seq(Part) /\ Len(c) > Len(ListAttr)
         /\ a \in Seq(Part) /\ Len(a) = Len(c) + 1
         /\ \A k \in 1..Len(ListAttr) : a[k] = ListAttr[k] /\ c[k] = ListAttr[k]
         /\ a[Len(ListAttr) + 1] = Numeral[i]
         /\ \A k \in (Len(ListAttr) + 2)..Len(a) : a[k] = c[k - 1]
<1>1. /\ c \in DOMAIN Schema /\ c \in Seq(Part) /\ ListAttr \in Seq(Part)
      /\ IsPrefix(ListAttr, c) /\ ListAttr # c
  BY SchemaFacts DEF InList, IsStrictPrefix
<1>2. Len(ListAttr) <= Len(c) /\ \A k \in 1..Len(ListAttr) : ListAttr[k] = c[k]
  BY <1>1, PrefixIs
<1>3. Len(c) # Len(ListAttr)
  BY <1>1, <1>2
<1>4. /\ After(c, Len(ListAttr)) \in Seq(Part)
      /\ Len(After(c, Len(ListAttr))) = Len(c) - Len(ListAttr)
      /\ \A k \in 1..(Len(c) - Len(ListAttr)) :
           After(c, Len(ListAttr))[k] = c[Len(ListAttr) + k]
  <2>1. Len(ListAttr) \in Nat
    BY <1>1
  <2> QED
    BY <1>1, <1>2, <2>1, AfterIs
<1>5. /\ a \in Seq(Part)
      /\ Len(a) = Len(Instance(i)) + Len(After(c, Len(ListAttr)))
      /\ \A k \in 1..Len(Instance(i)) : a[k] = Instance(i)[k]
      /\ \A k \in (Len(Instance(i)) + 1)..Len(a) :
           a[k] = After(c, Len(ListAttr))[k - Len(Instance(i))]
  <2>1. Instance(i) \in Seq(Part) /\ After(c, Len(ListAttr)) \in Seq(Part)
    BY <1>4, InstancePath
  <2> QED
    BY <2>1, JoinedIs DEF AttrAt
<1>6. Len(Instance(i)) = Len(ListAttr) + 1 /\ Len(ListAttr) \in Nat /\ Len(c) \in Nat
  BY <1>1, InstancePath
<1>7. Len(a) = Len(c) + 1
  BY <1>4, <1>5, <1>6
<1>8. ASSUME NEW k \in (Len(ListAttr) + 2)..Len(a) PROVE a[k] = c[k - 1]
  <2>1. /\ k - Len(Instance(i)) \in 1..(Len(c) - Len(ListAttr))
        /\ Len(ListAttr) + (k - Len(Instance(i))) = k - 1
        /\ k \in (Len(Instance(i)) + 1)..Len(a)
    BY <1>6, <1>7
  <2> QED
    BY <1>4, <1>5, <2>1
<1>9. ASSUME NEW k \in 1..Len(ListAttr) PROVE a[k] = ListAttr[k]
  BY <1>5, <1>6, InstancePath
<1>10. a[Len(ListAttr) + 1] = Numeral[i]
  <2>1. Len(ListAttr) + 1 \in 1..Len(Instance(i))
    BY <1>6
  <2> QED
    BY <1>5, <2>1, InstancePath
<1>11. Len(c) > Len(ListAttr)
  BY <1>2, <1>3, <1>6
<1>12. \A k \in 1..Len(ListAttr) : a[k] = ListAttr[k] /\ c[k] = ListAttr[k]
  BY <1>2, <1>9
<1> QED
  BY <1>1, <1>5, <1>7, <1>8, <1>10, <1>11, <1>12

\* The schema of an attribute outside of the list, of one in an object of it,
\* and of the object.
LEMMA ClassOfFixed ==
  ASSUME NEW c \in Fixed
  PROVE  Class(c) = c /\ Type(c) = Schema[c] /\ c \in DOMAIN Schema
BY DEF Fixed, InList, Class, Type

\* The class of an object of the list is that of the list.
LEMMA ClassOfObject ==
  ASSUME NEW i \in 1..MaxMade
  PROVE  Class(Instance(i)) = ListAttr
<1> DEFINE o == Instance(i)
           n == Len(ListAttr)
<1>1. /\ ListAttr \in Seq(Part) /\ n \in Nat
      /\ o \in Seq(Part) /\ Len(o) = n + 1 /\ IsStrictPrefix(ListAttr, o)
  BY SchemaFacts, InstancePath
<1>2. After(o, n + 1) = <<>>
  <2>1. After(o, n + 1) \in Seq(Part) /\ Len(After(o, n + 1)) = 0
    BY <1>1, AfterIs
  <2> QED
    BY <2>1, EmptySeq
<1>3. ListAttr \o <<>> = ListAttr
  BY <1>1, ConcatEmptySeq
<1> QED
  BY <1>1, <1>2, <1>3 DEF Class

\* A path is its first parts and what follows them.
LEMMA JoinedMakes ==
  ASSUME NEW n \in Nat, NEW s \in Seq(Part), Len(s) = n, NEW c \in Seq(Part), n < Len(c),
         NEW t \in Seq(Part), Len(t) = Len(c) - n,
         \A k \in 1..n : c[k] = s[k],
         \A k \in 1..(Len(c) - n) : t[k] = c[n + k]
  PROVE  s \o t = c
<1>1. Len(s) \in Nat /\ Len(t) \in Nat /\ Len(c) \in Nat
  OBVIOUS
<1>2. PICK u \in Seq(Part) :
        /\ u = s \o t /\ Len(u) = Len(s) + Len(t)
        /\ \A k \in 1..Len(s) : u[k] = s[k]
        /\ \A k \in (Len(s) + 1)..(Len(s) + Len(t)) : u[k] = t[k - Len(s)]
  <2>1. /\ s \o t \in Seq(Part) /\ Len(s \o t) = Len(s) + Len(t)
        /\ \A k \in 1..Len(s) : (s \o t)[k] = s[k]
        /\ \A k \in (Len(s) + 1)..(Len(s) + Len(t)) : (s \o t)[k] = t[k - Len(s)]
    BY JoinedIs, Zenon
  <2> QED
    BY <2>1, Zenon
<1>3. ASSUME NEW k \in 1..Len(c) PROVE u[k] = c[k]
  <2>1. CASE k \in 1..n
    BY <1>2, <2>1
  <2>2. CASE k \in (n + 1)..Len(c)
    <3>1. k - n \in 1..(Len(c) - n) /\ n + (k - n) = k /\ n + Len(t) = Len(c)
      BY <1>1, <2>2
    <3> QED
      BY <1>2, <2>2, <3>1
  <2> QED
    BY <1>1, <2>1, <2>2
<1>4. Len(u) = Len(c)
  BY <1>1, <1>2
<1> QED
  BY <1>2, <1>3, <1>4, SameSequence

\* Without its number a path is one of the schema.
LEMMA NumberDropped ==
  ASSUME NEW n \in Nat, NEW list \in Seq(Part), Len(list) = n,
         NEW c \in Seq(Part), Len(c) > n, NEW a \in Seq(Part), Len(a) = Len(c) + 1,
         \A k \in 1..n : a[k] = list[k] /\ c[k] = list[k],
         \A k \in (n + 2)..Len(a) : a[k] = c[k - 1]
  PROVE  IsStrictPrefix(list, a) /\ list \o After(a, n + 1) = c
<1>0. Len(c) \in Nat /\ Len(a) \in Nat
  OBVIOUS
<1>1. IsPrefix(list, a) /\ list # a
  BY <1>0, PrefixIs
<1>2. PICK t \in Seq(Part) :
        /\ t = After(a, n + 1) /\ Len(t) = Len(c) - n
        /\ \A k \in 1..(Len(c) - n) : t[k] = a[n + 1 + k]
  <2>1. n + 1 \in Nat /\ n + 1 <= Len(a) /\ Len(a) - (n + 1) = Len(c) - n
    BY <1>0
  <2> QED
    BY <2>1, AfterIs
<1>3. list \o t = c
  <2>1. ASSUME NEW k \in 1..(Len(c) - n) PROVE t[k] = c[n + k]
    <3>1. n + 1 + k \in (n + 2)..Len(a) /\ (n + 1 + k) - 1 = n + k
      BY <1>0
    <3>2. t[k] = a[n + 1 + k] /\ a[n + 1 + k] = c[n + k]
      BY <1>2, <3>1
    <3> QED
      BY <3>2
  <2>2. \A k \in 1..n : c[k] = list[k]
    BY <1>0
  <2> QED
    BY <1>2, <2>1, <2>2, JoinedMakes
<1> QED
  BY <1>1, <1>2, <1>3 DEF IsStrictPrefix

\* The class of an attribute in an object of the list, and what it is under.
LEMMA ClassInObject ==
  ASSUME NEW i \in 1..MaxMade, NEW c \in InList, NEW a, a = AttrAt(i, c)
  PROVE  /\ Class(a) = c /\ Type(a) = Schema[c] /\ c \in DOMAIN Schema
         /\ IsStrictPrefix(ListAttr, a)
         /\ IsStrictPrefix(Instance(i), a)
<1>1. /\ c \in DOMAIN Schema /\ c \in Seq(Part) /\ Len(c) > Len(ListAttr)
      /\ a \in Seq(Part) /\ Len(a) = Len(c) + 1
      /\ \A k \in 1..Len(ListAttr) : a[k] = ListAttr[k] /\ c[k] = ListAttr[k]
      /\ a[Len(ListAttr) + 1] = Numeral[i]
      /\ \A k \in (Len(ListAttr) + 2)..Len(a) : a[k] = c[k - 1]
  BY ObjectAttr
<1>2. ListAttr \in Seq(Part) /\ Len(ListAttr) \in Nat /\ Len(c) \in Nat
  BY <1>1, SchemaFacts
<1>3. /\ IsStrictPrefix(ListAttr, a)
      /\ ListAttr \o After(a, Len(ListAttr) + 1) = c
  BY <1>1, <1>2, NumberDropped
<1>4. IsPrefix(Instance(i), a) /\ Instance(i) # a
  <2>1. /\ Instance(i) \in Seq(Part) /\ Len(Instance(i)) = Len(ListAttr) + 1
        /\ Instance(i)[Len(ListAttr) + 1] = Numeral[i]
        /\ \A k \in 1..Len(ListAttr) : Instance(i)[k] = ListAttr[k]
    BY InstancePath
  <2>2. ASSUME NEW k \in 1..(Len(ListAttr) + 1) PROVE Instance(i)[k] = a[k]
    <3>1. k \in 1..Len(ListAttr) \/ k = Len(ListAttr) + 1
      BY <1>2
    <3> QED
      BY <1>1, <2>1, <3>1
  <2>3. Len(Instance(i)) <= Len(a) /\ Len(Instance(i)) # Len(a)
    BY <1>1, <1>2, <2>1
  <2> QED
    BY <1>1, <2>1, <2>2, <2>3, PrefixIs
<1> QED
  BY <1>1, <1>3, <1>4 DEF Type, Class, IsStrictPrefix

\* What follows the number of an object is what follows the list in the schema.
LEMMA AfterNumber ==
  ASSUME NEW i \in 1..MaxMade, NEW c \in InList, NEW a, a = AttrAt(i, c)
  PROVE  After(a, Len(ListAttr) + 1) = After(c, Len(ListAttr))
<1>1. /\ c \in Seq(Part) /\ Len(c) > Len(ListAttr) /\ a \in Seq(Part) /\ Len(a) = Len(c) + 1
      /\ \A k \in (Len(ListAttr) + 2)..Len(a) : a[k] = c[k - 1]
  BY ObjectAttr
<1>2. PICK n \in Nat : n = Len(ListAttr)
  BY SchemaFacts
<1>3. PICK m \in Nat : m = Len(c)
  BY <1>1
<1>4. PICK s \in Seq(Part) :
        s = After(a, n + 1) /\ Len(s) = m - n /\ \A k \in 1..(m - n) : s[k] = a[n + 1 + k]
  <2>1. n + 1 \in Nat /\ n + 1 <= Len(a) /\ Len(a) - (n + 1) = m - n
    BY <1>1, <1>2, <1>3
  <2>2. /\ After(a, n + 1) \in Seq(Part) /\ Len(After(a, n + 1)) = Len(a) - (n + 1)
        /\ \A k \in 1..(Len(a) - (n + 1)) : After(a, n + 1)[k] = a[n + 1 + k]
    BY <1>1, <2>1, AfterIs
  <2> QED
    BY <2>1, <2>2
<1>5. PICK t \in Seq(Part) :
        t = After(c, n) /\ Len(t) = m - n /\ \A k \in 1..(m - n) : t[k] = c[n + k]
  <2>1. /\ After(c, n) \in Seq(Part) /\ Len(After(c, n)) = Len(c) - n
        /\ \A k \in 1..(Len(c) - n) : After(c, n)[k] = c[n + k]
    <3>1. n <= Len(c)
      BY <1>1, <1>2, <1>3
    <3> QED
      BY <1>1, <3>1, AfterIs
  <2> QED
    BY <1>3, <2>1
<1>6. ASSUME NEW k \in 1..(m - n) PROVE s[k] = t[k]
  <2>1. n + 1 + k \in (n + 2)..(m + 1) /\ (n + 1 + k) - 1 = n + k
    OBVIOUS
  <2>2. a[n + 1 + k] = c[n + k]
    BY <1>1, <1>2, <1>3, <2>1
  <2> QED
    BY <1>4, <1>5, <2>2
<1>7. s = t
  BY <1>4, <1>5, <1>6, SameSequence
<1> QED
  BY <1>2, <1>4, <1>5, <1>7

\* An attribute is in one object, or in none; no object is an attribute.
LEMMA Apart ==
  ASSUME NEW i \in 1..MaxMade
  PROVE  /\ Instance(i) \notin DOMAIN Schema
         /\ \A a \in InObject(i) : a \notin DOMAIN Schema
         /\ \A j \in 1..MaxMade : \A a \in InObject(i) \cap InObject(j) : i = j
         /\ \A j \in 1..MaxMade : Instance(i) \notin InObject(j)
         /\ \A j \in 1..MaxMade : Instance(i) = Instance(j) => i = j
<1>1. PICK n \in Nat : n = Len(ListAttr)
  BY SchemaFacts
<1>2. ASSUME NEW s \in Seq(Part), Len(s) > n, s[n + 1] = Numeral[i]
      PROVE  s \notin DOMAIN Schema
  <2>1. n + 1 \in DOMAIN s
    BY <1>1, <1>2
  <2> QED
    BY <1>2, <2>1, NumeralAssumption
<1>3. ASSUME NEW j \in 1..MaxMade, NEW a \in InObject(j)
      PROVE  a \in Seq(Part) /\ Len(a) > n + 1 /\ a[n + 1] = Numeral[j]
  <2>1. PICK c \in InList : a = AttrAt(j, c)
    BY DEF InObject
  <2> QED
    <3>1. a \in Seq(Part) /\ Len(a) = Len(c) + 1 /\ Len(c) > n /\ a[n + 1] = Numeral[j]
      BY <1>1, <2>1, ObjectAttr
    <3>2. Len(c) \in Nat
      BY <2>1, SchemaFacts DEF InList
    <3> QED
      BY <1>1, <3>1, <3>2
<1>4. \A j \in 1..MaxMade : /\ Instance(j) \in Seq(Part) /\ Len(Instance(j)) = n + 1
                            /\ Instance(j)[n + 1] = Numeral[j]
  BY <1>1, InstancePath
<1>5. Instance(i) \notin DOMAIN Schema
  BY <1>1, <1>2, <1>4
<1>6. ASSUME NEW a \in InObject(i) PROVE a \notin DOMAIN Schema
  <2>1. a \in Seq(Part) /\ Len(a) > n + 1 /\ Len(a) \in Nat /\ a[n + 1] = Numeral[i]
    BY <1>3
  <2> QED
    BY <1>1, <1>2, <2>1
<1>7. ASSUME NEW j \in 1..MaxMade, NEW a \in InObject(i) \cap InObject(j) PROVE i = j
  BY <1>3, NumeralAssumption
<1>8. ASSUME NEW j \in 1..MaxMade PROVE Instance(i) \notin InObject(j)
  BY <1>1, <1>3, <1>4
<1>9. ASSUME NEW j \in 1..MaxMade, Instance(i) = Instance(j) PROVE i = j
  BY <1>4, <1>9, NumeralAssumption
<1> QED
  BY <1>5, <1>6, <1>7, <1>8, <1>9

-----------------------------------------------------------------------------
(***************************************************************************)
(* The tree.                                                               *)
(***************************************************************************)

\* The tree with objects in the slots of L.
AttrsWith(L) == Fixed \cup UNION {InObject(i) : i \in L}
ParametersWith(L) == {a \in AttrsWith(L) : Type(a) = "simple"}

\* No more slots than objects made, so that there is a numeral for each.
FewSlots == Len(slots) <= made

\* The invariant of the whole repository.
RInv ==
  /\ IInv
  /\ FewSlots
  /\ TypeOK

\* There is a numeral for every slot.
LEMMA LiveInRange ==
  ASSUME NEW S, NEW s \in Seq(S), NEW e, NEW m \in 0..MaxMade, Len(s) <= m
  PROVE  Live(s, e) \in SUBSET (1..MaxMade) /\ DOMAIN s \in SUBSET (1..MaxMade)
<1>1. MaxMade \in Nat
  BY ObjectsAssumption
<1> QED
  BY <1>1 DEF Live

\* The attribute that is the list.
LEMMA ListIsFixed ==
  /\ ListAttr \in Fixed /\ RootAttr \in Fixed /\ Len(ListAttr) > 1
  /\ Type(ListAttr) = "multiple" /\ Type(RootAttr) = "object"
  /\ \A c \in InList : Schema[c] # "multiple"
<1>1. Len(ListAttr) > 1
  <2>1. Len(ListAttr) \in Nat /\ Len(ListAttr) > 0 /\ ListAttr # RootAttr
    BY SchemaFacts
  <2>2. PICK n \in Nat : n = Len(ListAttr)
    BY <2>1
  <2>3. n # 1
    BY <2>1, <2>2, SchemaFacts
  <2> QED
    BY <2>1, <2>2, <2>3
<1>2. ListAttr \in Fixed
  BY SchemaFacts DEF Fixed, InList
<1>3. RootAttr \in Fixed
  <2>1. ASSUME IsPrefix(ListAttr, RootAttr) PROVE FALSE
    <3>1. ListAttr \in Seq(Part) /\ RootAttr \in Seq(Part) /\ Len(RootAttr) = 1
      BY SchemaFacts
    <3> QED
      BY <1>1, <2>1, <3>1, PrefixIs
  <2> QED
    BY <2>1, SchemaFacts DEF Fixed, InList, IsStrictPrefix
<1>4. \A c \in InList : Schema[c] # "multiple"
  BY SchemaFacts DEF InList
<1> QED
  BY <1>1, <1>2, <1>3, <1>4, SchemaFacts, ClassOfFixed

\* An attribute of the tree is one of the schema that is not in the list, or one
\* in an object.
LEMMA AttrCases ==
  ASSUME NEW L, NEW a
  PROVE  a \in AttrsWith(L) <=> a \in Fixed \/ \E i \in L : \E c \in InList : a = AttrAt(i, c)
BY DEF AttrsWith, InObject

\* Every attribute of the tree has a path and a type.
LEMMA TreeFacts ==
  ASSUME NEW L \in SUBSET (1..MaxMade), NEW a \in AttrsWith(L)
  PROVE  /\ a \in Seq(Part) /\ Len(a) \in Nat /\ Len(a) > 0 /\ a # <<>>
         /\ Type(a) \in {"object", "multiple", "simple"}
         /\ Type(a) = "multiple" <=> a = ListAttr
<1>1. CASE a \in Fixed
  <2>1. a \in DOMAIN Schema /\ Type(a) = Schema[a]
    BY <1>1, ClassOfFixed
  <2>2. a \in Seq(Part) /\ Len(a) > 0
    BY <2>1, SchemaFacts
  <2>3. a # <<>> /\ Len(a) \in Nat
    BY <2>2
  <2>4. Schema[a] \in {"object", "multiple", "simple"}
    BY <2>1, SchemaAssumption
  <2>5. Schema[a] = "multiple" <=> a = ListAttr
    BY <2>1, SchemaFacts
  <2> QED
    BY <2>1, <2>2, <2>3, <2>4, <2>5
<1>2. CASE \E i \in L : \E c \in InList : a = AttrAt(i, c)
  <2>1. PICK i \in 1..MaxMade, c \in InList : a = AttrAt(i, c)
    BY <1>2
  <2>2. Type(a) = Schema[c] /\ c \in DOMAIN Schema
    BY <2>1, ClassInObject
  <2>3. a \in Seq(Part) /\ Len(a) = Len(c) + 1 /\ c \in Seq(Part)
    BY <2>1, ObjectAttr
  <2>4. a \notin DOMAIN Schema
    BY <2>1, Apart DEF InObject
  <2>5. a # ListAttr /\ Schema[c] # "multiple"
    BY <2>4, SchemaFacts, ListIsFixed
  <2>6. Len(a) \in Nat /\ Len(a) > 0
    BY <2>3
  <2>7. a # <<>>
    BY <2>6
  <2> QED
    BY <2>2, <2>3, <2>5, <2>6, <2>7, SchemaAssumption
<1> QED
  BY <1>1, <1>2, AttrCases

\* What is always there.
LEMMA AlwaysThere ==
  ASSUME NEW L
  PROVE  /\ Fixed \subseteq AttrsWith(L)
         /\ NumberAttr \in ParametersWith(L)
         /\ ListAttr \in AttrsWith(L) /\ RootAttr \in AttrsWith(L)
BY NumberIsFixed, ListIsFixed, ClassOfFixed DEF AttrsWith, ParametersWith

\* An object comes with its attributes and goes with them.
LEMMA TreeChanges ==
  ASSUME NEW L \in SUBSET (1..MaxMade), NEW i \in 1..MaxMade
  PROVE  /\ AttrsWith(L \cup {i}) = AttrsWith(L) \cup InObject(i)
         /\ AttrsWith(L \ {i}) = AttrsWith(L) \ InObject(i)
         /\ i \notin L => AttrsWith(L) \cap InObject(i) = {}
         /\ NumberAttr \notin InObject(i)
<1>1. Fixed \cap InObject(i) = {}
  BY Apart DEF Fixed
<1>2. \A j \in L : j # i => InObject(j) \cap InObject(i) = {}
  BY Apart
<1> HIDE DEF InObject
<1> QED
  BY <1>1, <1>2, NumberIsFixed DEF AttrsWith

\* Every attribute has the root of all paths above it.
LEMMA AllBelowRoot ==
  ASSUME NEW L \in SUBSET (1..MaxMade), NEW a \in AttrsWith(L)
  PROVE  IsStrictPrefix(<<>>, a)
<1>1. a \in Seq(Part) /\ a # <<>> /\ Len(a) \in Nat
  BY TreeFacts
<1>2. IsPrefix(<<>>, a)
  <2>1. PICK e \in Seq(Part) : e = <<>> /\ Len(e) = 0
    BY EmptySeq
  <2>2. IsPrefix(e, a)
    <3>1. Len(e) <= Len(a) /\ \A k \in 1..Len(e) : e[k] = a[k]
      BY <1>1, <2>1
    <3> QED
      BY <1>1, <3>1, PrefixIs
  <2> QED
    BY <2>1, <2>2
<1> QED
  BY <1>1, <1>2 DEF IsStrictPrefix

\* The state is that of the tree with the objects of the list.
LEMMA TreeIs ==
  /\ Attrs = AttrsWith(Live(slots, Free))
  /\ Parameters = ParametersWith(Live(slots, Free))
  /\ Attrs' = AttrsWith(Live(slots, Free)')
  /\ Parameters' = ParametersWith(Live(slots, Free)')
BY DEF Attrs, AttrsWith, Parameters, ParametersWith

\* evcpe_repo_new gives every attribute its callback.
LEMMA WatchesAll ==
  /\ Live(slots, Free) \in SUBSET (1..MaxMade) => AttrsOf(<<>>) = Attrs
  /\ Live(slots, Free)' \in SUBSET (1..MaxMade) => AttrsOf(<<>>)' = Attrs'
BY TreeIs, AllBelowRoot DEF AttrsOf

-----------------------------------------------------------------------------
(***************************************************************************)
(* Recursive definitions over numbers, and evcpe_repo_locate.              *)
(***************************************************************************)

\* A set of numbers with 0 in it and with every number the next one has all.
LEMMA Induct ==
  ASSUME NEW S, 0 \in S, \A m \in Nat : m \in S => m + 1 \in S
  PROVE  \A n \in Nat : n \in S
<1> SUFFICES ASSUME NEW n \in Nat, n \notin S PROVE FALSE
  OBVIOUS
<1> DEFINE M == {m \in 0..n : m \notin S}
<1>1. M \in SUBSET Nat /\ M # {} /\ M \in SUBSET (0..n)
  OBVIOUS
<1>2. IsFiniteSet(M)
  <2>1. IsFiniteSet(0..n)
    BY FS_Interval
  <2> QED
    BY <1>1, <2>1, FS_Subset
<1>3. PICK m \in M : \A j \in M : m <= j
  BY <1>1, <1>2, HasLeast
<1>4. m \in 0..n /\ m \notin S /\ m # 0
  OBVIOUS
<1>5. m - 1 \in Nat /\ m - 1 \in 0..n /\ (m - 1) + 1 = m /\ ~(m <= m - 1)
  BY <1>4
<1>6. m - 1 \in S
  BY <1>3, <1>5
<1> QED
  BY <1>4, <1>5, <1>6

\* The states of a loop of n steps that starts in x.
Chained(f, n, x, step) ==
  f[0] = x /\ \A k \in 1..n : f[k] = step[<<k, f[k - 1]>>]

\* A loop of n steps that starts in x has its states.
LEMMA ChainExists ==
  ASSUME NEW X, NEW n \in Nat, NEW x \in X, NEW step \in [(1..n) \X X -> X]
  PROVE  \E f \in [0..n -> X] : Chained(f, n, x, step)
<1> USE DEF Chained
<1> DEFINE Chain(f, m) == f[0] = x /\ \A k \in 1..m : f[k] = step[<<k, f[k - 1]>>]
           S == {m \in Nat : m <= n => \E f \in [0..m -> X] : Chain(f, m)}
<1>1. 0 \in S
  <2>1. [k \in 0..0 |-> x] \in [0..0 -> X] /\ Chain([k \in 0..0 |-> x], 0)
    OBVIOUS
  <2> QED
    BY <2>1
<1>2. ASSUME NEW m \in Nat, m \in S PROVE m + 1 \in S
  <2> SUFFICES ASSUME m + 1 <= n PROVE \E f \in [0..(m + 1) -> X] : Chain(f, m + 1)
    OBVIOUS
  <2>1. PICK f \in [0..m -> X] : Chain(f, m)
    BY <1>2
  <2>2. f[m] \in X /\ <<m + 1, f[m]>> \in (1..n) \X X
    OBVIOUS
  <2>3. PICK v \in X : v = step[<<m + 1, f[m]>>]
    BY <2>2
  <2> DEFINE g == [k \in 0..(m + 1) |-> IF k = m + 1 THEN v ELSE f[k]]
  <2>4. /\ g \in [0..(m + 1) -> X] /\ g[m + 1] = v
        /\ \A k \in 0..m : g[k] = f[k]
    BY <2>3
  <2> HIDE DEF g
  <2>5. ASSUME NEW k \in 1..(m + 1) PROVE g[k] = step[<<k, g[k - 1]>>]
    <3>1. CASE k = m + 1
      <4>1. k - 1 = m /\ m \in 0..m
        BY <3>1
      <4> QED
        BY <2>3, <2>4, <3>1, <4>1
    <3>2. CASE k \in 1..m
      <4>1. k \in 0..m /\ k - 1 \in 0..m
        BY <3>2
      <4> QED
        BY <2>1, <2>4, <3>2, <4>1
    <3>3. k = m + 1 \/ k \in 1..m
      OBVIOUS
    <3> QED
      BY <3>1, <3>2, <3>3
  <2>6. g[0] = x
    BY <2>1, <2>4
  <2> QED
    BY <2>4, <2>5, <2>6
<1> HIDE DEF S
<1>3. n \in S
  BY <1>1, <1>2, Induct
<1> QED
  BY <1>3 DEF S

\* What every step of a loop keeps, its states all have.
LEMMA ChainStays ==
  ASSUME NEW X, NEW n \in Nat, NEW f, f[0] \in X,
         \A k \in 1..n : f[k - 1] \in X => f[k] \in X
  PROVE  \A k \in 0..n : f[k] \in X
<1> DEFINE S == {k \in Nat : k <= n => f[k] \in X}
<1>1. 0 \in S
  OBVIOUS
<1>2. ASSUME NEW k \in Nat, k \in S PROVE k + 1 \in S
  <2> SUFFICES ASSUME k + 1 <= n PROVE f[k + 1] \in X
    OBVIOUS
  <2>1. k + 1 \in 1..n /\ f[k] \in X /\ (k + 1) - 1 = k
    BY <1>2
  <2> QED
    BY <2>1
<1>3. \A k \in Nat : k \in S
  <2> HIDE DEF S
  <2> QED
    BY <1>1, <1>2, Induct
<1> QED
  BY <1>3

\* Where the parts of a path lead, one after the other.
Loc == [found : BOOLEAN, obj : Seq(Part), attr : Seq(Part)]

Leads(path, loc) ==
  /\ loc[0] = At(<<>>, NoAttr)
  /\ \A k \in 1..(Len(path) - 1) : loc[k] = Enter(loc[k - 1], path[k])

\* One part more leads from one place to another.
LEMMA EnterIsLoc ==
  ASSUME Live(slots, Free) \in SUBSET (1..MaxMade), NEW loc \in Loc, NEW e \in Part
  PROVE  Enter(loc, e) \in Loc
<1>1. Nowhere \in Loc
  BY EmptySeq DEF Nowhere, Loc, NoAttr
<1>2. At(RootAttr, RootAttr) \in Loc
  BY SchemaFacts DEF At, Loc
<1>3. EnterList(e) \in Loc
  BY <1>1, SchemaFacts DEF EnterList, At, Loc
<1>4. ASSUME NEW a PROVE EnterAttr(loc.obj, a) \in Loc
  <2>1. a \in Attrs => a \in Seq(Part)
    BY TreeIs, TreeFacts
  <2> QED
    BY <1>1, <2>1 DEF EnterAttr, At, Loc
<1> QED
  BY <1>1, <1>2, <1>3, <1>4 DEF Enter

\* The loop of evcpe_repo_locate has a last state.
LEMMA EnteredIs ==
  ASSUME Live(slots, Free) \in SUBSET (1..MaxMade), NEW path \in Seq(Part), path # <<>>
  PROVE  \E loc \in [0..(Len(path) - 1) -> Loc] :
           Leads(path, loc) /\ Entered(path) = loc[Len(path) - 1]
<1> DEFINE n == Len(path) - 1
           x == At(<<>>, NoAttr)
           step == [s \in (1..n) \X Loc |-> Enter(s[2], path[s[1]])]
           F == CHOOSE f : f = [k \in 0..n |-> IF k = 0 THEN x ELSE Enter(f[k - 1], path[k])]
<1>1. n \in Nat
  BY EmptySeq
<1>2. x \in Loc
  BY EmptySeq DEF At, Loc, NoAttr
<1>3. step \in [(1..n) \X Loc -> Loc]
  <2>1. ASSUME NEW k \in 1..n, NEW l \in Loc PROVE Enter(l, path[k]) \in Loc
    <3>1. path[k] \in Part
      BY <1>1
    <3> QED
      BY <3>1, EnterIsLoc
  <2> QED
    BY <2>1
<1>4. PICK f \in [0..n -> Loc] : Chained(f, n, x, step)
  <2> HIDE DEF n, x, step
  <2> QED
    BY <1>1, <1>2, <1>3, ChainExists
<1>5. \A k \in 1..n : f[k] = Enter(f[k - 1], path[k])
  <2>1. \A k \in 1..n : f[k - 1] \in Loc
    BY <1>1
  <2> QED
    BY <1>4, <2>1 DEF Chained
<1>6. f = [k \in 0..n |-> IF k = 0 THEN x ELSE Enter(f[k - 1], path[k])]
  <2>1. \A k \in 0..n : f[k] = IF k = 0 THEN x ELSE Enter(f[k - 1], path[k])
    BY <1>1, <1>4, <1>5 DEF Chained
  <2> HIDE DEF n, x
  <2> QED
    BY <2>1
<1>7. F = [k \in 0..n |-> IF k = 0 THEN x ELSE Enter(F[k - 1], path[k])]
  <2> HIDE DEF n, x
  <2> QED
    BY <1>6
<1>8. Entered(path) = F[n]
  BY DEF Entered
<1> HIDE DEF F
<1>9. F \in [0..n -> Loc] /\ Leads(path, F)
  <2>1. F[0] = x /\ \A k \in 1..n : F[k] = Enter(F[k - 1], path[k])
    BY <1>1, <1>7
  <2>2. F[0] \in Loc
    BY <1>2, <2>1
  <2>3. ASSUME NEW k \in 1..n, F[k - 1] \in Loc PROVE F[k] \in Loc
    <3>1. path[k] \in Part
      BY <1>1
    <3> QED
      BY <2>1, <2>3, <3>1, EnterIsLoc
  <2>5. \A k \in 0..n : F[k] \in Loc
    <3> HIDE DEF n
    <3> QED
      BY <1>1, <2>2, <2>3, ChainStays
  <2>6. F \in [0..n -> Loc]
    <3> HIDE DEF n, x
    <3> QED
      BY <1>7, <2>5
  <2> QED
    BY <2>1, <2>6 DEF Leads
<1> QED
  BY <1>8, <1>9

-----------------------------------------------------------------------------
(***************************************************************************)
(* The steps on the list.                                                  *)
(***************************************************************************)

\* What the invariant says of the slots.
LEMMA InvFacts ==
  ASSUME RInv
  PROVE  /\ slots \in Seq(Slot) /\ made \in 0..MaxMade /\ Len(slots) <= made
         /\ Live(slots, Free) \in SUBSET (1..MaxMade)
         /\ number \in Nat
         /\ value \in [Parameters \ {NumberAttr} -> 0..MaxValue]
         /\ watched = Attrs
<1>1. slots \in Seq(Slot) /\ made \in 0..MaxMade /\ Len(slots) <= made /\ number \in Nat
  BY DEF RInv, IInv, ListTypeOK, FewSlots, Slot
<1>2. Live(slots, Free) \in SUBSET (1..MaxMade)
  BY <1>1, LiveInRange
<1> QED
  BY <1>1, <1>2, WatchesAll DEF RInv, TypeOK

\* Where AddObject puts the object.
LEMMA AddIsLive ==
  ASSUME RInv, AddListObject, NEW i, i = FirstFree(slots, Free)
  PROVE  /\ i \in 1..MaxMade /\ i \notin Live(slots, Free)
         /\ Live(slots, Free)' = Live(slots, Free) \cup {i}
         /\ FewSlots'
<1> USE ObjectsAssumption
<1> DEFINE obj == Object(made + 1, i)
<1>0. slots \in Seq(Slot) /\ made \in Nat /\ Len(slots) <= made
  BY InvFacts
<1>1. i \in Nat
  BY <1>0, FirstFreeIsFree DEF Vacant
<1>2. obj \in Slot /\ obj # Free
  BY <1>0, <1>1 DEF Slot, Object, Free
<1>3. slots' = Fill(slots, i, obj) /\ made < MaxMade /\ made' = made + 1
  BY DEF AddListObject, AddToList
<1>4. /\ slots' \in Seq(Slot)
      /\ i \in 1..Len(slots') /\ i \notin Live(slots, Free)
      /\ Live(slots', Free) = Live(slots, Free) \cup {i}
      /\ Len(slots') = IF Vacant(slots, Free) = {} THEN Len(slots) + 1 ELSE Len(slots)
  BY <1>0, <1>2, <1>3, FillAdds
<1>5. Live(slots, Free)' = Live(slots', Free)
  BY DEF Live, Free, Object
<1>6. Len(slots') <= made + 1
  BY <1>0, <1>4
<1> QED
  BY <1>0, <1>3, <1>4, <1>5, <1>6 DEF FewSlots

\* What evcpe_attr_del_obj leaves.
LEMMA DelIsLive ==
  ASSUME RInv, NEW i, DelListObject(i)
  PROVE  /\ i \in Live(slots, Free) /\ i \in 1..MaxMade
         /\ Live(slots, Free)' = Live(slots, Free) \ {i}
         /\ FewSlots'
<1>0. slots \in Seq(Slot) /\ Free \in Slot /\ Len(slots) <= made
  BY InvFacts DEF Slot, Free, Object
<1>1. i \in Live(slots, Free) /\ slots' = Clear(slots, i, Free) /\ made' = made
  BY DEF DelListObject
<1>2. /\ Len(slots') = Len(slots)
      /\ Live(slots', Free) = Live(slots, Free) \ {i}
  BY <1>0, <1>1, EmptyRemoves
<1>3. Live(slots, Free)' = Live(slots', Free)
  BY DEF Live, Free, Object
<1> QED
  BY <1>0, <1>1, <1>2, <1>3, InvFacts DEF FewSlots

\* What a restart leaves: objects there were, each of which was in one slot.
LEMMA ReloadIsLive ==
  ASSUME RInv, ReloadList
  PROVE  /\ DOMAIN slots' \in SUBSET (1..MaxMade)
         /\ Live(slots, Free)' \in SUBSET DOMAIN slots'
         /\ \A k \in DOMAIN slots' : Before(k) \in Live(slots, Free)
         /\ FewSlots'
<1> USE ObjectsAssumption
<1> DEFINE left == Compact(slots, Free)
           n == Cardinality(Live(slots, Free))
<1>0. slots \in Seq(Slot) /\ Len(slots) <= made /\ made \in 0..MaxMade
  BY InvFacts
<1>1. n \in Nat /\ n <= Len(slots)
  BY <1>0, LiveFinite
<1>2. /\ Len(left) = n /\ DOMAIN left = 1..n
      /\ \A k \in 1..n : \E i \in Live(slots, Free) : left[k] = slots[i]
  BY <1>0, CompactKeeps
<1>3. /\ slots' = [i \in DOMAIN left |-> Object(left[i].id, i)]
      /\ made' = made
  BY DEF ReloadList
<1>4. DOMAIN slots' = 1..n
  BY <1>2, <1>3
<1>5. 1..n \in SUBSET (1..MaxMade)
  <2> HIDE DEF n
  <2> QED
    BY <1>0, <1>1
<1>6. Len(slots') = n
  <2> HIDE DEF n, left
  <2> QED
    BY <1>1, <1>2, <1>3
<1>7. FewSlots'
  <2> HIDE DEF n, left
  <2> QED
    BY <1>0, <1>1, <1>3, <1>6 DEF FewSlots
<1>8. ASSUME NEW k \in DOMAIN slots' PROVE Before(k) \in Live(slots, Free)
  <2>1. PICK i \in Live(slots, Free) : left[k] = slots[i]
    BY <1>2, <1>4
  <2>2. slots'[k].id = slots[i].id
    BY <1>3, <1>4, <2>1 DEF Object
  <2>3. i \in DOMAIN slots /\ slots[i].id \in 1..made
    BY DEF RInv, IInv, Distinct, Live
  <2>4. PICK j : j = Before(k)
    OBVIOUS
  <2>5. j \in DOMAIN slots /\ slots[j].id = slots'[k].id
    BY <2>2, <2>3, <2>4 DEF Before
  <2>6. slots[j] # Free
    <3>1. slots[j].id # 0
      BY <2>2, <2>3, <2>5
    <3> QED
      BY <3>1 DEF Free, Object
  <2> QED
    BY <2>4, <2>5, <2>6 DEF Live
<1>9. Live(slots, Free)' \in SUBSET DOMAIN slots'
  BY DEF Live
<1> QED
  BY <1>4, <1>5, <1>7, <1>8, <1>9

-----------------------------------------------------------------------------
(***************************************************************************)
(* SetParameterValues.                                                     *)
(***************************************************************************)

\* A parameter of a SetParameterValues, and how far it has come.
Item == [path : NoEmptyPath, value : Nat]
Done == [ok : BOOLEAN, values : [Parameters -> Nat], heard : SUBSET Parameters]
FirstDone == [ok |-> TRUE, values |-> [p \in Parameters |-> Value(p)], heard |-> {}]

Sets(list, done) ==
  /\ done[0] = FirstDone
  /\ \A k \in 1..Len(list) : done[k] = SetOne(done[k - 1], list[k])

\* A value that is set, and that the listeners are told.
LEMMA AssignedIs ==
  ASSUME RInv, NEW done \in Done, NEW a, NEW v \in Nat
  PROVE  IF a \in Parameters /\ v <= MaxValue
           THEN /\ Assigned(done, a, v).ok = done.ok
                /\ Assigned(done, a, v).values = [done.values EXCEPT ![a] = v]
                /\ Assigned(done, a, v).heard = done.heard \cup {a}
                /\ Assigned(done, a, v) \in Done
           ELSE Assigned(done, a, v) = done
<1>1. CASE ~(a \in Parameters /\ v <= MaxValue)
  BY <1>1 DEF Assigned, Accepts
<1>2. CASE a \in Parameters /\ v <= MaxValue
  <2>1. a \in watched
    BY <1>2, InvFacts DEF Parameters
  <2>2. Tell(a, a) = {a}
    BY <2>1 DEF Tell
  <2>3. Assigned(done, a, v) =
          [done EXCEPT !.values = [@ EXCEPT ![a] = v], !.heard = @ \cup {a}]
    BY <1>2, <2>2 DEF Assigned, Accepts
  <2>4. /\ done.ok \in BOOLEAN /\ done.values \in [Parameters -> Nat]
        /\ done.heard \in SUBSET Parameters
    BY DEF Done
  <2>5. Assigned(done, a, v) =
          [ok |-> done.ok, values |-> [done.values EXCEPT ![a] = v],
           heard |-> done.heard \cup {a}]
    BY <2>3 DEF Done
  <2>6. [done.values EXCEPT ![a] = v] \in [Parameters -> Nat]
    BY <2>4
  <2> QED
    BY <1>2, <2>4, <2>5, <2>6 DEF Done
<1> QED
  BY <1>1, <1>2

\* evcpe_repo_set, as SetParameterValues uses it.
LEMMA SetOneIs ==
  ASSUME RInv, NEW done \in Done, NEW r \in Item
  PROVE  /\ SetOne(done, r) \in Done
         /\ ~done.ok => SetOne(done, r) = done
         /\ done.ok /\ Located(r.path).found =>
              SetOne(done, r) = Assigned(done, Located(r.path).attr, r.value)
         /\ done.ok /\ ~Located(r.path).found =>
              SetOne(done, r) = [ok |-> FALSE, values |-> done.values, heard |-> done.heard]
<1>1. r.value \in Nat
  BY DEF Item
<1>2. Assigned(done, Located(r.path).attr, r.value) \in Done
  BY <1>1, AssignedIs
<1>3. [done EXCEPT !.ok = FALSE] = [ok |-> FALSE, values |-> done.values, heard |-> done.heard]
  <2>1. DOMAIN done = {"ok", "values", "heard"}
    BY DEF Done
  <2>2. PICK e : e = [done EXCEPT !.ok = FALSE]
    OBVIOUS
  <2>3. /\ DOMAIN e = {"ok", "values", "heard"}
        /\ e.values = done.values /\ e.heard = done.heard
        /\ e.ok = FALSE
    BY <2>1, <2>2
  <2>4. e = [x \in {"ok", "values", "heard"} |-> e[x]]
    BY <2>1, <2>2, <2>3
  <2> QED
    BY <2>2, <2>3, <2>4
<1>4. [ok |-> FALSE, values |-> done.values, heard |-> done.heard] \in Done
  BY DEF Done
<1> QED
  BY <1>2, <1>3, <1>4 DEF SetOne

\* What the loop starts with: the values there are.
LEMMA FirstDoneIs ==
  ASSUME RInv
  PROVE  FirstDone \in Done /\ \A p \in Parameters : Value(p) \in Nat
<1>1. \A p \in Parameters : Value(p) \in Nat
  BY InvFacts DEF Value
<1> QED
  BY <1>1 DEF FirstDone, Done

\* The loop over a list of parameters has a last state.
LEMMA SetAllIs ==
  ASSUME RInv, NEW list \in Seq(Item)
  PROVE  \E done \in [0..Len(list) -> Done] :
           Sets(list, done) /\ SetAll(list) = done[Len(list)]
<1> DEFINE n == Len(list)
           step == [s \in (1..n) \X Done |-> SetOne(s[2], list[s[1]])]
           F == CHOOSE f : f = [k \in 0..n |-> IF k = 0 THEN FirstDone
                                               ELSE SetOne(f[k - 1], list[k])]
<1>1. n \in Nat
  OBVIOUS
<1>2. FirstDone \in Done
  BY FirstDoneIs
<1>3. step \in [(1..n) \X Done -> Done]
  <2>1. ASSUME NEW k \in 1..n, NEW d \in Done PROVE SetOne(d, list[k]) \in Done
    <3>1. list[k] \in Item
      BY <1>1
    <3> QED
      BY <3>1, SetOneIs
  <2> QED
    BY <2>1
<1>4. PICK f \in [0..n -> Done] : Chained(f, n, FirstDone, step)
  <2> HIDE DEF n, step
  <2> QED
    BY <1>1, <1>2, <1>3, ChainExists
<1>5. \A k \in 1..n : f[k] = SetOne(f[k - 1], list[k])
  <2>1. \A k \in 1..n : f[k - 1] \in Done
    BY <1>1
  <2> QED
    BY <1>4, <2>1 DEF Chained
<1>6. f = [k \in 0..n |-> IF k = 0 THEN FirstDone ELSE SetOne(f[k - 1], list[k])]
  <2>1. \A k \in 0..n : f[k] = IF k = 0 THEN FirstDone ELSE SetOne(f[k - 1], list[k])
    BY <1>1, <1>4, <1>5 DEF Chained
  <2> HIDE DEF n
  <2> QED
    BY <2>1
<1>7. F = [k \in 0..n |-> IF k = 0 THEN FirstDone ELSE SetOne(F[k - 1], list[k])]
  <2> HIDE DEF n
  <2> QED
    BY <1>6
<1>8. SetAll(list) = F[n]
  BY DEF SetAll, FirstDone
<1> HIDE DEF F
<1>9. F[0] = FirstDone /\ \A k \in 1..n : F[k] = SetOne(F[k - 1], list[k])
  BY <1>1, <1>7
<1>10. \A k \in 0..n : F[k] \in Done
  <2>1. ASSUME NEW k \in 1..n, F[k - 1] \in Done PROVE F[k] \in Done
    <3>1. list[k] \in Item
      BY <1>1
    <3> QED
      BY <1>9, <2>1, <3>1, SetOneIs
  <2>2. F[0] \in Done
    BY <1>2, <1>9
  <2> QED
    BY <1>1, <2>1, <2>2, ChainStays
<1>11. F \in [0..n -> Done]
  <2> HIDE DEF n
  <2> QED
    BY <1>7, <1>10
<1> QED
  BY <1>8, <1>9, <1>11 DEF Sets

\* The items before the first path that leads nowhere.
LEMMA FirstLostIs ==
  ASSUME NEW list \in Seq(Item)
  PROVE  /\ FirstLost(list) \in 1..(Len(list) + 1)
         /\ \A k \in 1..Len(list) : k < FirstLost(list) => Located(list[k].path).found
         /\ \A k \in 1..Len(list) : k = FirstLost(list) => ~Located(list[k].path).found
<1> DEFINE lost == {k \in DOMAIN list : ~Located(list[k].path).found}
<1>1. DOMAIN list = 1..Len(list) /\ Len(list) \in Nat
  OBVIOUS
<1>2. CASE lost = {}
  <2>1. FirstLost(list) = Len(list) + 1
    BY <1>2 DEF FirstLost
  <2>2. \A k \in 1..Len(list) : Located(list[k].path).found
    BY <1>1, <1>2
  <2> QED
    BY <1>1, <2>1, <2>2
<1>3. CASE lost # {}
  <2>1. lost \in SUBSET Nat /\ IsFiniteSet(lost)
    <3>1. lost \in SUBSET (1..Len(list)) /\ lost \in SUBSET Nat
      BY <1>1
    <3>2. IsFiniteSet(1..Len(list))
      BY <1>1, FS_Interval
    <3> QED
      BY <3>1, <3>2, FS_Subset
  <2>2. \E k \in lost : \A j \in lost : k <= j
    <3> HIDE DEF lost
    <3> QED
      BY <1>3, <2>1, HasLeast
  <2>3. FirstLost(list) = CHOOSE k \in lost : \A j \in lost : k <= j
    BY <1>3 DEF FirstLost
  <2>4. FirstLost(list) \in lost /\ \A j \in lost : FirstLost(list) <= j
    <3> HIDE DEF lost
    <3> QED
      BY <2>2, <2>3
  <2>5. PICK first \in 1..Len(list) : first = FirstLost(list)
    BY <1>1, <2>4
  <2>6. ASSUME NEW k \in 1..Len(list), k < first PROVE Located(list[k].path).found
    BY <1>1, <2>4, <2>5, <2>6
  <2> QED
    BY <1>1, <2>4, <2>5, <2>6
<1> QED
  BY <1>2, <1>3

\* The items of the first k that gave parameter p a value.
Gave(list, k, p) ==
  {j \in 1..k : /\ j < FirstLost(list)
                /\ Located(list[j].path).attr = p
                /\ Accepts(list[j].value)}

Given(list, k, p) ==
  IF Gave(list, k, p) = {} THEN Value(p) ELSE list[Max(Gave(list, k, p))].value

\* After k items: whether one led nowhere, the values, and what was heard.
SetSoFar(list, k, d) ==
  /\ d.ok <=> k < FirstLost(list)
  /\ \A p \in Parameters :
       /\ d.values[p] = Given(list, k, p)
       /\ d.values[p] = Value(p) \/ (d.values[p] \in 0..MaxValue /\ p \in d.heard)

\* What an item that gives p no value, and one that gives it one, changes.
LEMMA GaveNext ==
  ASSUME NEW list, NEW k \in Nat, NEW p, FirstLost(list) \in Nat
  PROVE  /\ Gave(list, 0, p) = {}
         /\ IF /\ k + 1 < FirstLost(list)
               /\ Located(list[k + 1].path).attr = p
               /\ Accepts(list[k + 1].value)
              THEN Given(list, k + 1, p) = list[k + 1].value
              ELSE Given(list, k + 1, p) = Given(list, k, p)
<1> DEFINE gives(j) == /\ j < FirstLost(list)
                       /\ Located(list[j].path).attr = p
                       /\ Accepts(list[j].value)
<1>1. ASSUME NEW n \in Nat PROVE Gave(list, n, p) = {j \in 1..n : gives(j)}
  BY DEF Gave
<1> HIDE DEF gives
<1>2. Gave(list, 0, p) = {}
  BY <1>1
<1>3. CASE gives(k + 1)
  <2>1. PICK G : G = Gave(list, k + 1, p)
    OBVIOUS
  <2>2. k + 1 \in G /\ \A j \in G : j \in 1..(k + 1)
    BY <1>1, <1>3, <2>1
  <2>3. Max(G) = k + 1
    <3>1. \A j \in G : k + 1 >= j
      BY <2>2
    <3>2. \A m \in G : (\A j \in G : m >= j) => m = k + 1
      BY <2>2
    <3> QED
      BY <2>2, <3>1, <3>2 DEF Max
  <2>4. Given(list, k + 1, p) = list[k + 1].value
    BY <2>1, <2>2, <2>3 DEF Given
  <2> QED
    BY <1>2, <1>3, <2>4 DEF gives
<1>4. CASE ~gives(k + 1)
  <2>1. Gave(list, k + 1, p) = Gave(list, k, p)
    BY <1>1, <1>4
  <2>2. Given(list, k + 1, p) = Given(list, k, p)
    BY <2>1 DEF Given
  <2> QED
    BY <1>2, <1>4, <2>2 DEF gives
<1> QED
  BY <1>3, <1>4

\* One item more.
LEMMA SetNext ==
  ASSUME RInv, NEW list \in Seq(Item), NEW k \in 0..(Len(list) - 1),
         NEW d \in Done, SetSoFar(list, k, d)
  PROVE  SetSoFar(list, k + 1, SetOne(d, list[k + 1]))
<1> DEFINE r == list[k + 1]
           a == Located(r.path).attr
           e == SetOne(d, r)
<1> SUFFICES SetSoFar(list, k + 1, e)
  OBVIOUS
<1>1. k \in Nat /\ k + 1 \in 1..Len(list) /\ r \in Item
  OBVIOUS
<1>2. PICK first \in 1..(Len(list) + 1) : first = FirstLost(list)
  BY FirstLostIs
<1>3. first \in Nat /\ (k + 1 < first => k < first)
  BY <1>1
<1>4. \A p \in Parameters :
        IF k + 1 < first /\ a = p /\ Accepts(r.value)
          THEN Given(list, k + 1, p) = r.value
          ELSE Given(list, k + 1, p) = Given(list, k, p)
  BY <1>1, <1>2, <1>3, GaveNext
<1>5. d.ok <=> k < first
  BY <1>2 DEF SetSoFar
<1>6. r.value \in Nat
  BY <1>1 DEF Item
<1>7. CASE ~d.ok
  <2>1. e = d /\ ~(k < first) /\ ~(k + 1 < first)
    BY <1>1, <1>3, <1>5, <1>7, SetOneIs
  <2> QED
    BY <1>2, <1>4, <1>7, <2>1 DEF SetSoFar
<1>8. CASE d.ok /\ ~Located(r.path).found
  <2>1. k < first /\ ~(k + 1 < first)
    <3>1. ~(k + 1 < first)
      BY <1>1, <1>2, <1>8, FirstLostIs
    <3> QED
      BY <1>5, <1>8, <3>1
  <2>2. ~e.ok /\ e.values = d.values /\ e.heard = d.heard
    BY <1>1, <1>8, SetOneIs
  <2> HIDE DEF e, r, a
  <2> QED
    BY <1>2, <1>4, <2>1, <2>2 DEF SetSoFar
<1>9. CASE d.ok /\ Located(r.path).found
  <2>1. k < first /\ k + 1 < first
    <3>1. k + 1 # first
      BY <1>1, <1>2, <1>9, FirstLostIs
    <3> QED
      BY <1>1, <1>5, <1>9, <3>1
  <2>2. e = Assigned(d, a, r.value)
    BY <1>1, <1>9, SetOneIs
  <2>3. CASE a \in Parameters /\ r.value <= MaxValue
    <3>1. /\ e.ok = d.ok /\ e.values = [d.values EXCEPT ![a] = r.value]
          /\ e.heard = d.heard \cup {a}
      BY <1>6, <2>2, <2>3, AssignedIs
    <3>2. d.values \in [Parameters -> Nat] /\ r.value \in 0..MaxValue
      BY <1>6, <2>3, ObjectsAssumption DEF Done
    <3>3. Accepts(r.value)
      BY <2>3 DEF Accepts
    <3>4. e.values[a] = r.value /\ \A p \in Parameters : p # a => e.values[p] = d.values[p]
      BY <2>3, <3>1, <3>2
    <3> HIDE DEF e, r, a
    <3> QED
      BY <1>2, <1>4, <1>5, <1>9, <2>1, <3>1, <3>2, <3>3, <3>4 DEF SetSoFar
  <2>4. CASE ~(a \in Parameters /\ r.value <= MaxValue)
    <3>1. e = d
      BY <1>6, <2>2, <2>4, AssignedIs
    <3>2. \A p \in Parameters : ~(a = p /\ Accepts(r.value))
      BY <2>4 DEF Accepts
    <3> HIDE DEF e, r, a
    <3> QED
      BY <1>2, <1>4, <1>9, <2>1, <3>1, <3>2 DEF SetSoFar
  <2> QED
    BY <2>3, <2>4
<1> QED
  BY <1>7, <1>8, <1>9

\* All items.
LEMMA SetAllSets ==
  ASSUME RInv, NEW list \in Seq(Item)
  PROVE  SetAll(list) \in Done /\ SetSoFar(list, Len(list), SetAll(list))
<1>1. PICK n \in Nat : n = Len(list)
  OBVIOUS
<1>2. PICK done \in [0..n -> Done] : Sets(list, done) /\ SetAll(list) = done[n]
  BY <1>1, SetAllIs
<1>3. SetSoFar(list, 0, done[0])
  <2>1. done[0].ok = TRUE /\ \A p \in Parameters : done[0].values[p] = Value(p)
    BY <1>2 DEF Sets, FirstDone
  <2>2. FirstLost(list) \in 1..(n + 1)
    BY <1>1, FirstLostIs
  <2>3. \A p : Gave(list, 0, p) = {}
    BY <2>2, GaveNext
  <2> QED
    BY <2>1, <2>2, <2>3 DEF SetSoFar, Given
<1> DEFINE S == {k \in Nat : k <= n => SetSoFar(list, k, done[k])}
<1>4. 0 \in S
  BY <1>3
<1>5. ASSUME NEW k \in Nat, k \in S PROVE k + 1 \in S
  <2> SUFFICES ASSUME k + 1 <= n PROVE SetSoFar(list, k + 1, done[k + 1])
    OBVIOUS
  <2>1. SetSoFar(list, k, done[k]) /\ done[k] \in Done /\ k \in 0..(n - 1)
    BY <1>5
  <2>2. done[k + 1] = SetOne(done[k], list[k + 1])
    <3>1. k + 1 \in 1..n /\ (k + 1) - 1 = k
      OBVIOUS
    <3> QED
      BY <1>1, <1>2, <3>1 DEF Sets
  <2> QED
    BY <1>1, <2>1, <2>2, SetNext
<1>6. n \in S
  <2> HIDE DEF S
  <2> QED
    BY <1>4, <1>5, Induct
<1> QED
  BY <1>1, <1>2, <1>6

-----------------------------------------------------------------------------
(***************************************************************************)
(* The invariant.                                                          *)
(***************************************************************************)

\* Every list of a message is a sequence of parameters.
LEMMA SetListIs == \A list \in SetLists : list \in Seq(Item)
BY MessageAssumption DEF Item

\* What TypeOK says of the answer.
AnswerTypeOK ==
  /\ answer.status \in {"none", "ok", "fault"}
  /\ answer.list \in SetLists \cup {<<>>}

\* The answers of the handlers have the type of answer.
LEMMA AnswerIs ==
  ASSUME RInv
  PROVE  /\ answer' = answer => AnswerTypeOK'
         /\ answer' = NoAnswer => AnswerTypeOK'
         /\ \A status \in {"ok", "fault"} : \A list \in SetLists \cup {<<>>} :
              answer' = Answer(status, list) => AnswerTypeOK'
BY DEF RInv, TypeOK, AnswerTypeOK, NoAnswer, Answer

\* The parts of the invariant that a step of the list does not give.
LEMMA RInvIs ==
  ASSUME IInv', FewSlots', AnswerTypeOK', watched' = Attrs',
         value' \in [Parameters' \ {NumberAttr} -> 0..MaxValue]
  PROVE  RInv'
<1>1. ListTypeOK' /\ slots' \in Seq(Slot) /\ made' \in 0..MaxMade /\ Len(slots') <= made'
  BY DEF IInv, ListTypeOK, FewSlots, Slot
<1>2. Live(slots', Free) \in SUBSET (1..MaxMade)
  BY <1>1, LiveInRange
<1>3. Live(slots, Free)' = Live(slots', Free)
  BY DEF Live, Free, Object
<1>4. watched' = AttrsOf(<<>>)'
  BY <1>2, <1>3, WatchesAll
<1> QED
  BY <1>1, <1>4 DEF RInv, TypeOK, AnswerTypeOK

\* The step for AddObject.
LEMMA AddObjectKeeps ==
  ASSUME RInv, NEW path, AddObject(path)
  PROVE  RInv' /\ [ListNext]_listVars
<1> DEFINE i == FirstFree(slots, Free)
           new == {a \in InObject(i) : Type(a) = "simple"}
<1>1. CASE /\ AddListObject /\ watched' = Watch(i)
           /\ value' = [p \in DOMAIN value \cup new |-> IF p \in new THEN 0 ELSE value[p]]
           /\ answer' = Answer("ok", <<>>)
  <2>1. /\ i \in 1..MaxMade
        /\ Live(slots, Free)' = Live(slots, Free) \cup {i}
        /\ FewSlots'
    BY <1>1, AddIsLive
  <2>2. Attrs' = Attrs \cup InObject(i) /\ NumberAttr \notin InObject(i)
    BY <2>1, InvFacts, TreeIs, TreeChanges
  <2>3. Parameters' = Parameters \cup new
    BY <2>2 DEF Parameters, Type, Class
  <2>4. watched' = Attrs'
    BY <1>1, <2>2, InvFacts, TreeIs, AlwaysThere DEF Watch
  <2>5. value' \in [Parameters' \ {NumberAttr} -> 0..MaxValue]
    <3>1. value \in [Parameters \ {NumberAttr} -> 0..MaxValue] /\ 0 \in 0..MaxValue
      BY InvFacts, ObjectsAssumption
    <3>2. (Parameters \ {NumberAttr}) \cup new = Parameters' \ {NumberAttr}
      BY <2>2, <2>3
    <3> HIDE DEF new, i
    <3> QED
      BY <1>1, <2>3, <3>1, <3>2
  <2>6. IInv' /\ ListNext
    BY <1>1, ListStep DEF RInv, ListNext
  <2>7. AnswerTypeOK'
    BY <1>1, AnswerIs
  <2> QED
    BY <2>1, <2>4, <2>5, <2>6, <2>7, RInvIs
<1>2. CASE /\ answer' = Answer("fault", <<>>)
           /\ UNCHANGED <<listVars, value, watched>>
  <2>1. AnswerTypeOK'
    BY <1>2, AnswerIs
  <2>2. IInv'
    BY <1>2, ListStep DEF RInv
  <2>3. FewSlots' /\ Attrs' = Attrs /\ Parameters' = Parameters
    BY <1>2 DEF RInv, FewSlots, listVars, Parameters, Attrs, Live, Free, Object, Type, Class
  <2> QED
    BY <1>2, <2>1, <2>2, <2>3, RInvIs, InvFacts
<1> QED
  BY <1>1, <1>2 DEF AddObject

\* The step for SetParameterValues.
LEMMA SetKeeps ==
  ASSUME RInv, NEW list \in SetLists, SetParameterValues(list)
  PROVE  RInv' /\ [ListNext]_listVars
<1> DEFINE done == SetAll(list)
<1>1. done \in Done /\ SetSoFar(list, Len(list), done)
  BY SetListIs, SetAllSets
<1>2. /\ value' = [p \in DOMAIN value |-> done.values[p]]
      /\ number' = done.values[NumberAttr]
      /\ answer' = Answer(IF done.ok THEN "ok" ELSE "fault", list)
      /\ UNCHANGED <<slots, size, made, peak, told, watched>>
  BY DEF SetParameterValues
<1> HIDE DEF done
<1>3. \A p \in Parameters : done.values[p] = Value(p) \/ done.values[p] \in 0..MaxValue
  BY <1>1 DEF SetSoFar
<1>4. value \in [Parameters \ {NumberAttr} -> 0..MaxValue] /\ NumberAttr \in Parameters
  BY InvFacts, TreeIs, AlwaysThere
<1>5. \A p \in Parameters \ {NumberAttr} : done.values[p] \in 0..MaxValue
  BY <1>3, <1>4 DEF Value
<1>6. value' \in [Parameters \ {NumberAttr} -> 0..MaxValue]
  BY <1>2, <1>4, <1>5
<1>7. number' = number \/ number' \in 0..MaxValue
  BY <1>2, <1>3, <1>4 DEF Value
<1>8. [ListNext]_listVars
  BY <1>2, <1>7 DEF ListNext, SetNumber, listVars
<1>9. IInv'
  BY <1>8, ListStep DEF RInv
<1>10. FewSlots' /\ Attrs' = Attrs /\ Parameters' = Parameters
  BY <1>2 DEF RInv, FewSlots, Parameters, Attrs, Live, Free, Object, Type, Class
<1>11. AnswerTypeOK'
  BY <1>2, AnswerIs
<1> QED
  BY <1>2, <1>6, <1>8, <1>9, <1>10, <1>11, RInvIs, InvFacts

\* The step for evcpe_attr_del_obj.
LEMMA DelKeeps ==
  ASSUME RInv, NEW i \in DOMAIN slots, DelObj(i)
  PROVE  RInv' /\ [ListNext]_listVars
<1>1. /\ DelListObject(i)
      /\ value' = [p \in DOMAIN value \ InObject(i) |-> value[p]]
      /\ watched' = watched \ InObject(i)
      /\ answer' = answer
  BY DEF DelObj
<1>2. /\ i \in 1..MaxMade
      /\ Live(slots, Free)' = Live(slots, Free) \ {i}
      /\ FewSlots'
  BY <1>1, DelIsLive
<1>3. Attrs' = Attrs \ InObject(i) /\ NumberAttr \notin InObject(i)
  BY <1>2, InvFacts, TreeIs, TreeChanges
<1>4. Parameters' = Parameters \ InObject(i)
  BY <1>3 DEF Parameters, Type, Class
<1>5. watched' = Attrs'
  BY <1>1, <1>3, InvFacts
<1>6. value' \in [Parameters' \ {NumberAttr} -> 0..MaxValue]
  BY <1>1, <1>4, InvFacts
<1>7. IInv' /\ ListNext
  BY <1>1, ListStep DEF RInv, ListNext
<1>8. AnswerTypeOK'
  BY <1>1, AnswerIs
<1> QED
  BY <1>2, <1>5, <1>6, <1>7, <1>8, RInvIs

\* Where a parameter was before a restart.
LEMMA FormerIs ==
  ASSUME RInv, ReloadList, NEW p \in Parameters' \ {NumberAttr}
  PROVE  Former(p) \in Parameters \ {NumberAttr}
<1>1. /\ DOMAIN slots' \in SUBSET (1..MaxMade)
      /\ Live(slots, Free)' \in SUBSET DOMAIN slots'
      /\ \A k \in DOMAIN slots' : Before(k) \in Live(slots, Free)
  BY ReloadIsLive
<1>2. p \in Attrs' /\ Type(p) = "simple"
  BY DEF Parameters, Type, Class
<1>3. CASE p \in Fixed
  BY <1>2, <1>3, TreeIs, AlwaysThere DEF Former, Parameters
<1>4. CASE p \notin Fixed
  <2>1. PICK i \in Live(slots, Free)', c \in InList : p = AttrAt(i, c)
    BY <1>2, <1>4, TreeIs, AttrCases
  <2>2. i \in DOMAIN slots' /\ i \in 1..MaxMade /\ p \in InObject(i)
    BY <1>1, <2>1 DEF InObject
  <2>3. (CHOOSE k \in DOMAIN slots' : p \in InObject(k)) = i
    BY <1>1, <2>2, Apart
  <2>4. Former(p) = Instance(Before(i)) \o After(p, Len(ListAttr) + 1)
    BY <1>4, <2>3 DEF Former
  <2>5. PICK j \in 1..MaxMade : j = Before(i) /\ j \in Live(slots, Free)
    BY <1>1, <2>2, InvFacts
  <2>6. After(p, Len(ListAttr) + 1) = After(c, Len(ListAttr))
    BY <2>1, <2>2, AfterNumber
  <2>7. Former(p) = AttrAt(j, c)
    BY <2>4, <2>5, <2>6 DEF AttrAt
  <2>8. Former(p) \in Attrs
    BY <2>5, <2>7, TreeIs, AttrCases
  <2>9. Type(Former(p)) = Type(p)
    BY <2>1, <2>2, <2>5, <2>7, ClassInObject
  <2>10. Former(p) # NumberAttr
    BY <2>5, <2>7, Apart, NumberIsFixed DEF Fixed, InObject
  <2> QED
    BY <1>2, <2>8, <2>9, <2>10 DEF Parameters
<1> QED
  BY <1>3, <1>4

\* The step for a restart.
LEMMA ReloadKeeps ==
  ASSUME RInv, Reload
  PROVE  RInv' /\ [ListNext]_listVars
<1>1. /\ ReloadList
      /\ value' = [p \in (Parameters \ {NumberAttr})' |-> value[Former(p)]]
      /\ watched' = AttrsOf(<<>>)'
      /\ answer' = answer
  BY DEF Reload
<1>2. FewSlots' /\ Live(slots, Free)' \in SUBSET (1..MaxMade)
  BY <1>1, ReloadIsLive
<1>3. watched' = Attrs'
  BY <1>1, <1>2, WatchesAll
<1>4. value' \in [Parameters' \ {NumberAttr} -> 0..MaxValue]
  <2>1. \A p \in Parameters' \ {NumberAttr} : value[Former(p)] \in 0..MaxValue
    BY <1>1, FormerIs, InvFacts
  <2>2. (Parameters \ {NumberAttr})' = Parameters' \ {NumberAttr}
    OBVIOUS
  <2> QED
    BY <1>1, <2>1, <2>2
<1>5. IInv' /\ ListNext
  BY <1>1, ListStep DEF RInv, ListNext
<1>6. AnswerTypeOK'
  BY <1>1, AnswerIs
<1> QED
  BY <1>2, <1>3, <1>4, <1>5, <1>6, RInvIs

\* Every step keeps the invariant and is a step of the list, or none of it.
LEMMA RStep == RInv /\ [Next]_vars => RInv' /\ [ListNext]_listVars
<1> SUFFICES ASSUME RInv, [Next]_vars PROVE RInv' /\ [ListNext]_listVars
  OBVIOUS
<1>1. CASE \E path \in Paths : AddObject(path)
  BY <1>1, AddObjectKeeps
<1>2. CASE \E list \in SetLists : SetParameterValues(list)
  BY <1>2, SetKeeps
<1>3. CASE \E i \in DOMAIN slots : DelObj(i)
  BY <1>3, DelKeeps
<1>4. CASE Reload
  BY <1>4, ReloadKeeps
<1>5. CASE UNCHANGED <<listVars, value, watched>> /\ (answer' = answer \/ answer' = NoAnswer)
  <2>1. IInv'
    BY <1>5, ListStep DEF RInv
  <2>2. FewSlots' /\ Attrs' = Attrs /\ Parameters' = Parameters
    BY <1>5 DEF RInv, FewSlots, listVars, Parameters, Attrs, Live, Free, Object, Type, Class
  <2>3. AnswerTypeOK'
    BY <1>5, AnswerIs
  <2> QED
    BY <1>5, <2>1, <2>2, <2>3, RInvIs, InvFacts
<1> QED
  BY <1>1, <1>2, <1>3, <1>4, <1>5 DEF Next, Respond, vars

\* The invariant of the whole repository, TypeOK among it, holds in every reachable
\* state.
THEOREM RepositoryInvariance == Spec => []RInv
<1>1. Init => RInv
  <2> SUFFICES ASSUME Init PROVE RInv
    OBVIOUS
  <2>1. ListInit
    BY DEF Init
  <2>2. IInv
    BY <2>1, ListInitInv
  <2>3. FewSlots
    BY <2>1 DEF ListInit, FewSlots
  <2>4. value \in [Parameters \ {NumberAttr} -> 0..MaxValue]
    BY ObjectsAssumption DEF Init
  <2> QED
    BY <2>2, <2>3, <2>4 DEF Init, RInv, IInv, TypeOK, NoAnswer
<1> QED
  BY <1>1, RStep, PTL DEF Spec

\* The tree is a list with what hangs on its objects: the repository implements
\* the multipleObject attribute alone (Objects).
THEOREM RepositoryIsList == Spec => ListSpec
<1>1. Init => ListInit
  BY DEF Init
<1> QED
  BY <1>1, RStep, RepositoryInvariance, PTL DEF Spec, ListSpec

-----------------------------------------------------------------------------
(***************************************************************************)
(* What the steps promise.                                                 *)
(***************************************************************************)

\* What ChangesHeard says of a step.
Told(p) == \E q \in heard' : IsPrefix(q, p)
Heard ==
  /\ \A p \in Parameters \cap Parameters' : Value(p)' # Value(p) => Told(p)
  /\ \A p \in (Parameters \ Parameters') \cup (Parameters' \ Parameters) : Told(p)

\* A parameter is told of by its own path, and by that of its object.
LEMMA ToldOf ==
  ASSUME NEW p
  PROVE  /\ p \in heard' => Told(p)
         /\ \A i \in 1..MaxMade : Instance(i) \in heard' /\ p \in InObject(i) => Told(p)
<1>1. IsPrefix(p, p)
  BY DEF IsPrefix
<1>2. ASSUME NEW i \in 1..MaxMade, p \in InObject(i) PROVE IsPrefix(Instance(i), p)
  BY <1>2, ClassInObject DEF InObject, IsStrictPrefix
<1> QED
  BY <1>1, <1>2 DEF Told

\* The listeners hear of what AddObject changes.
LEMMA AddObjectHeard ==
  ASSUME RInv, NEW path, AddObject(path)
  PROVE  Heard
<1> DEFINE i == FirstFree(slots, Free)
           new == {a \in InObject(i) : Type(a) = "simple"}
<1>1. CASE /\ AddListObject
           /\ value' = [p \in DOMAIN value \cup new |-> IF p \in new THEN 0 ELSE value[p]]
           /\ heard' = Tell(NumberAttr, NumberAttr) \cup Tell(ListAttr, Instance(i))
  <2>1. /\ i \in 1..MaxMade /\ i \notin Live(slots, Free)
        /\ Live(slots, Free)' = Live(slots, Free) \cup {i}
    BY <1>1, AddIsLive
  <2>2. Attrs' = Attrs \cup InObject(i) /\ Attrs \cap InObject(i) = {}
    BY <2>1, InvFacts, TreeIs, TreeChanges
  <2>3. Parameters' = Parameters \cup new /\ Parameters \cap new = {}
    BY <2>2 DEF Parameters, Type, Class
  <2>4. NumberAttr \in heard' /\ Instance(i) \in heard'
    <3>1. NumberAttr \in watched /\ ListAttr \in watched
      BY InvFacts, TreeIs, AlwaysThere DEF Parameters
    <3> QED
      BY <1>1, <3>1 DEF Tell
  <2>5. ASSUME NEW p \in new PROVE Told(p)
    BY <2>1, <2>4, ToldOf
  <2>6. ASSUME NEW p \in Parameters, Value(p)' # Value(p) PROVE Told(p)
    <3>1. CASE p = NumberAttr
      BY <2>4, <3>1, ToldOf
    <3>2. CASE p # NumberAttr
      <4>1. p \in DOMAIN value /\ p \notin new
        BY <2>3, <3>2, InvFacts
      <4>2. value'[p] = value[p]
        BY <1>1, <4>1
      <4> QED
        BY <2>6, <3>2, <4>2 DEF Value
    <3> QED
      BY <3>1, <3>2
  <2> HIDE DEF new
  <2> QED
    BY <2>3, <2>5, <2>6 DEF Heard
<1>2. CASE UNCHANGED <<listVars, value>>
  BY <1>2 DEF Heard, listVars, Parameters, Attrs, Live, Free, Object, Type, Class, Value
<1> QED
  BY <1>1, <1>2 DEF AddObject

\* The listeners hear of what SetParameterValues changes.
LEMMA SetHeard ==
  ASSUME RInv, NEW list \in SetLists, SetParameterValues(list)
  PROVE  Heard
<1> DEFINE done == SetAll(list)
<1>1. SetSoFar(list, Len(list), done)
  BY SetListIs, SetAllSets
<1>2. /\ value' = [p \in DOMAIN value |-> done.values[p]]
      /\ number' = done.values[NumberAttr]
      /\ heard' = done.heard
      /\ slots' = slots
  BY DEF SetParameterValues
<1> HIDE DEF done
<1>3. Parameters' = Parameters
  BY <1>2 DEF Parameters, Attrs, Live, Free, Object, Type, Class
<1>4. ASSUME NEW p \in Parameters, Value(p)' # Value(p) PROVE Told(p)
  <2>1. Value(p)' = done.values[p]
    BY <1>2, InvFacts DEF Value
  <2>2. p \in heard'
    BY <1>1, <1>2, <1>4, <2>1 DEF SetSoFar
  <2> QED
    BY <2>2, ToldOf
<1> QED
  BY <1>3, <1>4 DEF Heard

\* The listeners hear of what evcpe_attr_del_obj changes.
LEMMA DelHeard ==
  ASSUME RInv, NEW i \in DOMAIN slots, DelObj(i)
  PROVE  Heard
<1>1. /\ DelListObject(i)
      /\ value' = [p \in DOMAIN value \ InObject(i) |-> value[p]]
      /\ heard' = Tell(ListAttr, Instance(i))
  BY DEF DelObj
<1>2. /\ i \in 1..MaxMade
      /\ Live(slots, Free)' = Live(slots, Free) \ {i}
  BY <1>1, DelIsLive
<1>3. Parameters' = Parameters \ InObject(i)
  <2>1. Attrs' = Attrs \ InObject(i)
    BY <1>2, InvFacts, TreeIs, TreeChanges
  <2> QED
    BY <2>1 DEF Parameters, Type, Class
<1>4. Instance(i) \in heard'
  BY <1>1, InvFacts, TreeIs, AlwaysThere DEF Tell
<1>5. \A p \in Parameters' : Value(p)' = Value(p)
  <2>1. number' = number
    BY <1>1 DEF DelListObject
  <2> QED
    BY <1>1, <1>3, <2>1, InvFacts DEF Value
<1>6. \A p \in InObject(i) : Told(p)
  BY <1>2, <1>4, ToldOf
<1> QED
  BY <1>3, <1>5, <1>6 DEF Heard

\* Of every value that changes, object that comes or object that goes the
\* listeners are told in the same step (evcpe_repo_attr_cb).
THEOREM AlwaysChangesHeard == Spec => ChangesHeard
<1>1. RInv /\ [Next]_vars => [~Reload => Heard]_vars
  <2> SUFFICES ASSUME RInv, Next, ~Reload PROVE Heard
    OBVIOUS
  <2>1. CASE Respond
    BY <2>1 DEF Respond, Heard, listVars, Parameters, Attrs, Live, Free, Object,
                Type, Class, Value
  <2> QED
    BY <2>1, AddObjectHeard, SetHeard, DelHeard DEF Next
<1>2. ChangesHeard <=> [][~Reload => Heard]_vars
  BY DEF ChangesHeard, Heard, Told
<1> QED
  BY <1>1, <1>2, RepositoryInvariance, PTL DEF Spec

\* What SetReadsBack says of a step.
ReadsBack ==
  LET list == answer'.list
      Gives(p) == {k \in 1..(FirstLost(list) - 1) :
                     /\ Located(list[k].path).attr = p
                     /\ Accepts(list[k].value)}
  IN  /\ answer'.status = "fault" <=> FirstLost(list) <= Len(list)
      /\ \A p \in Parameters :
           Value(p)' = IF Gives(p) = {} THEN Value(p) ELSE list[Max(Gives(p))].value

\* The values SetParameterValues leaves.
LEMMA SetReads ==
  ASSUME RInv, NEW list \in SetLists, SetParameterValues(list)
  PROVE  ReadsBack
<1> DEFINE done == SetAll(list)
           Gives(p) == {k \in 1..(FirstLost(list) - 1) :
                          /\ Located(list[k].path).attr = p
                          /\ Accepts(list[k].value)}
<1>1. SetSoFar(list, Len(list), done) /\ list \in Seq(Item)
  BY SetListIs, SetAllSets
<1>2. /\ value' = [p \in DOMAIN value |-> done.values[p]]
      /\ number' = done.values[NumberAttr]
      /\ answer' = Answer(IF done.ok THEN "ok" ELSE "fault", list)
  BY DEF SetParameterValues
<1> HIDE DEF done
<1>3. Len(list) \in Nat /\ FirstLost(list) \in 1..(Len(list) + 1)
  BY <1>1, FirstLostIs
<1>4. \A p : Gave(list, Len(list), p) = Gives(p)
  BY <1>3 DEF Gave
<1>5. answer'.list = list /\ (answer'.status = "fault" <=> ~done.ok)
  BY <1>2 DEF Answer
<1>6. answer'.status = "fault" <=> FirstLost(list) <= Len(list)
  BY <1>1, <1>3, <1>5 DEF SetSoFar
<1>7. \A p \in Parameters : Value(p)' = Given(list, Len(list), p)
  BY <1>1, <1>2, InvFacts DEF Value, SetSoFar
<1>8. \A p \in Parameters :
        Value(p)' = IF Gives(p) = {} THEN Value(p) ELSE list[Max(Gives(p))].value
  BY <1>4, <1>7 DEF Given
<1> QED
  BY <1>5, <1>6, <1>8 DEF ReadsBack

\* SetParameterValues is not atomic but orderly: up to the first path that leads
\* nowhere every parameter has the last value it was given and accepts, every
\* other one is as it was, and the answer is a fault exactly if there is such
\* a path (evcpe_handle_set_param_values).
THEOREM AlwaysSetReadsBack == Spec => SetReadsBack
<1>1. RInv /\ [Next]_vars =>
        [answer'.status # "none" /\ answer'.list # <<>> => ReadsBack]_vars
  <2> SUFFICES ASSUME RInv, Next, answer'.status # "none", answer'.list # <<>>
               PROVE  ReadsBack
    OBVIOUS
  <2>1. answer' # NoAnswer /\ \A status : answer' # Answer(status, <<>>)
    BY DEF NoAnswer, Answer
  <2>2. ~Reload /\ ~Respond /\ (\A i : ~DelObj(i)) /\ (\A path : ~AddObject(path))
    BY <2>1 DEF Reload, Respond, DelObj, AddObject
  <2> QED
    BY <2>2, SetReads DEF Next
<1>2. SetReadsBack <=> [][answer'.status # "none" /\ answer'.list # <<>> => ReadsBack]_vars
  BY DEF SetReadsBack, ReadsBack
<1> QED
  BY <1>1, <1>2, RepositoryInvariance, PTL DEF Spec

\* In the whole repository too an object keeps its instance number until the next
\* restart.
THEOREM RepositoryStaysPut == Spec => StaysPut
BY RepositoryIsList, AlwaysStaysPut

\* In the whole repository too the path of an object locates that object, whatever
\* the ACS added and set, and the agent deleted and reloaded.
THEOREM RepositoryPathsResolve == Spec => []PathsResolve
BY RepositoryIsList, AlwaysPathsResolve

-----------------------------------------------------------------------------
(***************************************************************************)
(* The walks of the handlers that list.                                    *)
(***************************************************************************)

\* A finite set of numbers that is not empty has a greatest element.
LEMMA HasGreatest ==
  ASSUME NEW T \in SUBSET Nat, IsFiniteSet(T), T # {}
  PROVE  \E i \in T : \A j \in T : j <= i
<1>1. Cardinality(T) \in Nat /\ Cardinality(T) # 0
  BY FS_CardinalityType, FS_EmptySet
<1>2. PICK i \in T : Rank(T, i) = Cardinality(T)
  BY <1>1, RankOnto
<1>3. ASSUME NEW j \in T, i < j PROVE FALSE
  BY <1>1, <1>2, <1>3, RankGrows, RankInRange
<1> QED
  BY <1>3

\* No path is longer than the longest of the schema and a number.
LEMMA DepthBound ==
  ASSUME Live(slots, Free) \in SUBSET (1..MaxMade)
  PROVE  \E D \in Nat : \A a \in Attrs : Len(a) \in Nat /\ Len(a) <= D
<1> DEFINE T == {Len(c) : c \in DOMAIN Schema}
<1>1. T \in SUBSET Nat /\ T # {}
  BY SchemaFacts
<1>2. IsFiniteSet(T)
  <2> DEFINE f == [c \in DOMAIN Schema |-> Len(c)]
  <2>1. f \in Surjection(DOMAIN Schema, T)
    BY DEF Surjection
  <2> QED
    BY <2>1, SchemaAssumption, FS_Surjection
<1>3. PICK m \in T : \A j \in T : j <= m
  <2> HIDE DEF T
  <2> QED
    BY <1>1, <1>2, HasGreatest
<1>4. \A c \in DOMAIN Schema : Len(c) \in Nat /\ Len(c) <= m
  BY <1>1, <1>3
<1>5. m + 1 \in Nat
  BY <1>1
<1>6. ASSUME NEW a \in Attrs PROVE Len(a) \in Nat /\ Len(a) <= m + 1
  <2>1. CASE a \in Fixed
    BY <1>1, <1>4, <2>1, ClassOfFixed
  <2>2. CASE \E i \in 1..MaxMade, c \in InList : a = AttrAt(i, c)
    <3>1. PICK i \in 1..MaxMade, c \in InList : a = AttrAt(i, c)
      BY <2>2
    <3>2. c \in DOMAIN Schema /\ Len(a) = Len(c) + 1
      BY <3>1, ObjectAttr
    <3> HIDE DEF T
    <3> QED
      BY <1>1, <1>4, <3>2
  <2> QED
    BY <2>1, <2>2, TreeIs, AttrCases
<1> QED
  BY <1>5, <1>6

\* What a walk visits after an attribute is in the tree, and deeper.
LEMMA BelowIsDeeper ==
  ASSUME Live(slots, Free) \in SUBSET (1..MaxMade), NEW a \in Attrs, NEW c \in Below(a)
  PROVE  c \in Attrs /\ Len(c) > Len(a)
<1>1. c \in Attrs /\ (Front(c) = a \/ (a = ListAttr /\ \E o \in Instances : Front(c) = o))
  BY TreeIs, TreeFacts DEF Below, Children
<1>2. /\ c \in Seq(Part) /\ c # <<>> /\ Len(c) \in Nat
      /\ a \in Seq(Part) /\ Len(a) \in Nat
  BY <1>1, TreeIs, TreeFacts
<1>3. Len(Front(c)) = Len(c) - 1
  BY <1>2, FrontIs
<1>4. CASE Front(c) = a
  BY <1>1, <1>2, <1>3, <1>4
<1>5. CASE a = ListAttr /\ \E o \in Instances : Front(c) = o
  <2>1. PICK i \in 1..MaxMade : Front(c) = Instance(i)
    BY <1>5 DEF Instances
  <2>2. Len(Front(c)) = Len(a) + 1
    BY <1>5, <2>1, InstancePath
  <2> QED
    BY <1>1, <1>2, <1>3, <2>2
<1> QED
  BY <1>1, <1>4, <1>5

\* What holds of an attribute when it holds of all a walk visits after it,
\* holds of all attributes.
LEMMA WalkInduct ==
  ASSUME Live(slots, Free) \in SUBSET (1..MaxMade), NEW X,
         \A a \in Attrs : (\A c \in Below(a) : c \in X) => a \in X
  PROVE  \A a \in Attrs : a \in X
<1>1. PICK D \in Nat : \A a \in Attrs : Len(a) \in Nat /\ Len(a) <= D
  BY DepthBound
<1> DEFINE S == {n \in Nat : \A a \in Attrs : Len(a) + n > D => a \in X}
<1>2. 0 \in S
  BY <1>1
<1>3. ASSUME NEW n \in Nat, n \in S PROVE n + 1 \in S
  <2> SUFFICES ASSUME NEW a \in Attrs, Len(a) + (n + 1) > D PROVE a \in X
    OBVIOUS
  <2>1. ASSUME NEW c \in Below(a) PROVE c \in X
    <3>1. c \in Attrs /\ Len(c) > Len(a)
      BY BelowIsDeeper
    <3>2. Len(c) + n > D
      BY <1>1, <3>1
    <3> QED
      BY <1>3, <3>1, <3>2
  <2> QED
    BY <2>1
<1>4. D + 1 \in S
  <2>1. \A n \in Nat : n \in S
    <3> HIDE DEF S
    <3> QED
      BY <1>2, <1>3, Induct
  <2> QED
    BY <2>1
<1> QED
  BY <1>1, <1>4

\* A walk: what each member of a set adds, and what is visited after it.
Walks(w, X, own, next) ==
  \A a \in X : w[a] = own[a] \cup UNION {w[c] : c \in next[a]}

\* A walk has a result: the least that is closed under what each member adds and
\* what is visited after it.
LEMMA WalkExists ==
  ASSUME NEW X, NEW N, NEW own \in [X -> SUBSET N], NEW next \in [X -> SUBSET X]
  PROVE  \E w \in [X -> SUBSET N] : Walks(w, X, own, next)
<1> DEFINE Adds(v, a) == own[a] \cup UNION {v[c] : c \in next[a]}
           Closed(v) == \A a \in X : Adds(v, a) \subseteq v[a]
           w == [a \in X |-> {x \in N : \A v \in [X -> SUBSET N] : Closed(v) => x \in v[a]}]
<1>1. w \in [X -> SUBSET N]
  OBVIOUS
<1>2. ASSUME NEW v \in [X -> SUBSET N], Closed(v), NEW a \in X PROVE w[a] \subseteq v[a]
  BY <1>2
<1>3. ASSUME NEW a \in X, NEW x \in Adds(w, a) PROVE x \in w[a]
  <2>1. x \in N
    OBVIOUS
  <2>2. ASSUME NEW v \in [X -> SUBSET N], Closed(v) PROVE x \in v[a]
    <3>1. x \in Adds(v, a)
      <4>1. \A c \in next[a] : c \in X /\ w[c] \subseteq v[c]
        BY <1>2, <2>2
      <4> HIDE DEF w
      <4> QED
        BY <4>1
    <3> QED
      BY <2>2, <3>1
  <2> QED
    BY <2>1, <2>2
<1>4. ASSUME NEW a \in X, NEW x \in w[a] PROVE x \in Adds(w, a)
  <2> DEFINE u == [b \in X |-> Adds(w, b)]
  <2>1. u \in [X -> SUBSET N]
    <3>1. \A b \in X : Adds(w, b) \in SUBSET N
      <4> HIDE DEF w
      <4> QED
        BY <1>1
    <3> QED
      BY <3>1
  <2>2. Closed(u)
    <3>1. \A c \in X : u[c] \subseteq w[c]
      <4>1. \A c \in X : u[c] = Adds(w, c)
        OBVIOUS
      <4> HIDE DEF u, w, Adds
      <4> QED
        BY <1>3, <4>1
    <3>2. ASSUME NEW b \in X PROVE Adds(u, b) \subseteq Adds(w, b)
      <4> HIDE DEF u, w
      <4> QED
        BY <3>1
    <3>3. \A b \in X : u[b] = Adds(w, b)
      OBVIOUS
    <3> HIDE DEF u, w, Adds
    <3> QED
      BY <3>2, <3>3
  <2>3. x \in u[a]
    <3> HIDE DEF u
    <3> QED
      BY <1>2, <2>1, <2>2
  <2> QED
    BY <2>3
<1>5. \A a \in X : w[a] = Adds(w, a)
  <2> HIDE DEF w, Adds
  <2> QED
    BY <1>3, <1>4
<1>6. Walks(w, X, own, next)
  <2> HIDE DEF w
  <2> QED
    BY <1>5 DEF Walks
<1> QED
  BY <1>1, <1>6

\* A path leads to an attribute of the tree, to the root, or nowhere.
LEMMA FoundIsAttr ==
  ASSUME RInv, NEW path \in Paths, Found(path)
  PROVE  Located(path).attr \in Attrs
<1>1. path \in Seq(Part) /\ path # <<>> /\ Live(slots, Free) \in SUBSET (1..MaxMade)
  BY MessageAssumption, InvFacts DEF NoEmptyPath
<1>2. PICK n \in Nat : n = Len(path) - 1
  BY <1>1, EmptySeq
<1>3. PICK loc \in [0..n -> Loc] : Leads(path, loc) /\ Entered(path) = loc[n]
  BY <1>1, <1>2, EnteredIs
<1> DEFINE X == {l \in Loc : l.found => l.attr \in Attrs \cup {NoAttr}}
<1>4. loc[0] \in X
  <2>1. loc[0] \in Loc /\ loc[0].attr = NoAttr
    <3>1. loc[0] = At(<<>>, NoAttr)
      BY <1>3 DEF Leads
    <3>2. loc[0].attr = NoAttr
      BY <3>1 DEF At
    <3> QED
      BY <3>2
  <2> QED
    BY <2>1
<1>5. ASSUME NEW k \in 1..n, loc[k - 1] \in X PROVE loc[k] \in X
  <2>1. loc[k] = Enter(loc[k - 1], path[k])
    BY <1>2, <1>3 DEF Leads
  <2>2. RootAttr \in Attrs /\ ListAttr \in Attrs
    BY TreeIs, AlwaysThere
  <2>3. ASSUME NEW l, NEW e, Enter(l, e).found PROVE Enter(l, e).attr \in Attrs
    <3>1. EnterList(e).found => EnterList(e).attr \in Attrs
      BY <2>2 DEF EnterList, At, Nowhere
    <3>2. \A o, a : EnterAttr(o, a).found => EnterAttr(o, a).attr \in Attrs
      BY DEF EnterAttr, At, Nowhere
    <3>3. ~Nowhere.found /\ At(RootAttr, RootAttr).attr = RootAttr
      BY DEF At, Nowhere
    <3> QED
      BY <2>2, <2>3, <3>1, <3>2, <3>3 DEF Enter
  <2>4. loc[k] \in Loc
    OBVIOUS
  <2> QED
    BY <2>1, <2>3, <2>4
<1>6. loc[n] \in X
  <2>1. \A k \in 0..n : loc[k] \in X
    <3> HIDE DEF X
    <3> QED
      BY <1>4, <1>5, ChainStays
  <2> QED
    BY <2>1
<1>7. /\ Located(path).found /\ Located(path).attr # NoAttr
      /\ Entered(path).found => Entered(path).attr \in Attrs \cup {NoAttr}
  BY <1>3, <1>6 DEF Found
<1> QED
  BY <1>7 DEF Located, At, Nowhere, Parameters

-----------------------------------------------------------------------------

\* evcpe_attr_to_param_value_list, and evcpe_attr_to_param_info_list of all
\* levels, as they go from attribute to attribute.
WalksValues(w) ==
  \A a \in Attrs :
    w[a] = IF IsExtension(a) THEN {}
           ELSE {b \in {a} : Type(b) = "simple"} \cup UNION {w[c] : c \in Below(a)}

WalksInfo(w) ==
  \A a \in Attrs :
    w[a] = IF IsExtension(a) THEN {}
           ELSE Entries(a) \cup UNION {w[c] : c \in Below(a)}

\* The walk of GetParameterValues has a result.
LEMMA ValueListIs ==
  ASSUME RInv
  PROVE  \E w : WalksValues(w) /\ \A a \in Attrs : ValueList(a) = w[a]
<1> DEFINE own == [a \in Attrs |-> {b \in {a} : Type(b) = "simple" /\ ~IsExtension(a)}]
           next == [a \in Attrs |-> {c \in Below(a) : ~IsExtension(a)}]
           F == CHOOSE f : f = [a \in Attrs |->
                  IF IsExtension(a) THEN {}
                  ELSE {b \in {a} : Type(b) = "simple"} \cup UNION {f[c] : c \in Below(a)}]
<1>1. own \in [Attrs -> SUBSET Attrs]
  OBVIOUS
<1>2. next \in [Attrs -> SUBSET Attrs]
  BY InvFacts, BelowIsDeeper
<1>3. PICK w \in [Attrs -> SUBSET Attrs] : Walks(w, Attrs, own, next)
  <2> HIDE DEF own, next
  <2> QED
    BY <1>1, <1>2, WalkExists
<1>4. WalksValues(w)
  <2> SUFFICES ASSUME NEW a \in Attrs
               PROVE  w[a] = IF IsExtension(a) THEN {}
                             ELSE {b \in {a} : Type(b) = "simple"}
                                    \cup UNION {w[c] : c \in Below(a)}
    BY DEF WalksValues
  <2>1. w[a] = own[a] \cup UNION {w[c] : c \in next[a]}
    <3> HIDE DEF own, next
    <3> QED
      BY <1>3 DEF Walks
  <2>2. CASE IsExtension(a)
    <3>1. own[a] = {} /\ next[a] = {}
      BY <2>2
    <3> QED
      BY <2>1, <2>2, <3>1
  <2>3. CASE ~IsExtension(a)
    <3>1. own[a] = {b \in {a} : Type(b) = "simple"} /\ next[a] = Below(a)
      BY <2>3
    <3> QED
      BY <2>1, <2>3, <3>1
  <2> QED
    BY <2>2, <2>3
<1>5. w = [a \in Attrs |->
             IF IsExtension(a) THEN {}
             ELSE {b \in {a} : Type(b) = "simple"} \cup UNION {w[c] : c \in Below(a)}]
  BY <1>4 DEF WalksValues
<1>6. F = [a \in Attrs |->
             IF IsExtension(a) THEN {}
             ELSE {b \in {a} : Type(b) = "simple"} \cup UNION {F[c] : c \in Below(a)}]
  BY <1>5
<1>7. \A a : ValueList(a) = F[a]
  BY DEF ValueList
<1> HIDE DEF F
<1>8. WalksValues(F)
  BY <1>6 DEF WalksValues
<1> QED
  BY <1>7, <1>8

\* The walk of GetParameterNames has a result.
LEMMA InfoListIs ==
  ASSUME RInv
  PROVE  \E w : WalksInfo(w) /\ \A a \in Attrs : InfoList(a, FALSE) = w[a]
<1> DEFINE own == [a \in Attrs |-> {b \in Entries(a) : ~IsExtension(a)}]
           next == [a \in Attrs |-> {c \in Below(a) : ~IsExtension(a)}]
           N == Attrs \cup Instances
           F == CHOOSE f : f = [a \in Attrs |->
                  IF IsExtension(a) THEN {}
                  ELSE Entries(a) \cup UNION {f[c] : c \in Below(a)}]
<1>1. own \in [Attrs -> SUBSET N]
  BY DEF Entries
<1>2. next \in [Attrs -> SUBSET Attrs]
  BY InvFacts, BelowIsDeeper
<1>3. PICK w \in [Attrs -> SUBSET N] : Walks(w, Attrs, own, next)
  <2> HIDE DEF own, next, N
  <2> QED
    BY <1>1, <1>2, WalkExists
<1>4. WalksInfo(w)
  <2> SUFFICES ASSUME NEW a \in Attrs
               PROVE  w[a] = IF IsExtension(a) THEN {}
                             ELSE Entries(a) \cup UNION {w[c] : c \in Below(a)}
    BY DEF WalksInfo
  <2>1. w[a] = own[a] \cup UNION {w[c] : c \in next[a]}
    <3> HIDE DEF own, next
    <3> QED
      BY <1>3 DEF Walks
  <2>2. CASE IsExtension(a)
    <3>1. own[a] = {} /\ next[a] = {}
      BY <2>2
    <3> QED
      BY <2>1, <2>2, <3>1
  <2>3. CASE ~IsExtension(a)
    <3>1. own[a] = Entries(a) /\ next[a] = Below(a)
      BY <2>3
    <3> QED
      BY <2>1, <2>3, <3>1
  <2> QED
    BY <2>2, <2>3
<1>5. w = [a \in Attrs |->
             IF IsExtension(a) THEN {}
             ELSE Entries(a) \cup UNION {w[c] : c \in Below(a)}]
  BY <1>4 DEF WalksInfo
<1>6. F = [a \in Attrs |->
             IF IsExtension(a) THEN {}
             ELSE Entries(a) \cup UNION {F[c] : c \in Below(a)}]
  BY <1>5
<1>7. \A a : InfoList(a, FALSE) = F[a]
  BY DEF InfoList
<1> HIDE DEF F
<1>8. WalksInfo(F)
  BY <1>6 DEF WalksInfo
<1> QED
  BY <1>7, <1>8

\* The objects of the list are not attributes.
LEMMA InstancesApart ==
  ASSUME RInv
  PROVE  Instances \cap Attrs = {}
<1>1. Live(slots, Free) \in SUBSET (1..MaxMade)
  BY InvFacts
<1>2. ASSUME NEW i \in 1..MaxMade PROVE Instance(i) \notin Attrs
  <2>1. Instance(i) \notin Fixed
    BY Apart DEF Fixed
  <2>2. \A j \in Live(slots, Free) : Instance(i) \notin InObject(j)
    BY <1>1, Apart
  <2> QED
    BY <2>1, <2>2 DEF Attrs
<1> QED
  BY <1>1, <1>2 DEF Instances

\* Of what one walk lists the other lists the parameters.
LEMMA WalksAgree ==
  ASSUME RInv, NEW v, WalksValues(v), NEW w, WalksInfo(w)
  PROVE  \A a \in Attrs : v[a] = w[a] \cap Parameters
<1> DEFINE X == {a \in Attrs : v[a] = w[a] \cap Parameters}
<1>1. ASSUME NEW a \in Attrs, \A c \in Below(a) : c \in X PROVE a \in X
  <2>1. CASE IsExtension(a)
    BY <2>1 DEF WalksValues, WalksInfo
  <2>2. CASE ~IsExtension(a)
    <3>1. /\ v[a] = {b \in {a} : Type(b) = "simple"} \cup UNION {v[c] : c \in Below(a)}
          /\ w[a] = Entries(a) \cup UNION {w[c] : c \in Below(a)}
      BY <2>2 DEF WalksValues, WalksInfo
    <3>2. Entries(a) \cap Parameters = {b \in {a} : Type(b) = "simple"}
      BY InstancesApart DEF Entries, Parameters
    <3>3. \A c \in Below(a) : v[c] = w[c] \cap Parameters
      BY <1>1
    <3>4. UNION {v[c] : c \in Below(a)} = (UNION {w[c] : c \in Below(a)}) \cap Parameters
      BY <3>3
    <3> QED
      BY <3>1, <3>2, <3>4
  <2> QED
    BY <2>1, <2>2
<1>2. \A a \in Attrs : a \in X
  <2> HIDE DEF X
  <2> QED
    BY <1>1, InvFacts, WalkInduct
<1> QED
  BY <1>2

\* GetParameterNames of all levels, GetParameterValues and
\* GetParameterAttributes agree on the paths they know and the parameters they
\* list (repo.c, attr.c).
THEOREM AlwaysHandlersAgree == Spec => []HandlersAgree
<1>1. RInv => HandlersAgree
  <2> SUFFICES ASSUME RInv, NEW path \in Paths \ {<<NoPart>>}
               PROVE  /\ GetParameterNamesOk(path, FALSE) <=> GetParameterValuesOk(path)
                      /\ GetParameterValuesOk(path) =>
                           GetParameterValues(path) = GetParameterNames(path, FALSE) \cap Parameters
                      /\ GetParameterAttributesOk(path) =>
                           GetParameterAttributes(path) \subseteq GetParameterValues(path)
    BY DEF HandlersAgree
  <2>1. path # <<NoPart>>
    OBVIOUS
  <2>2. GetParameterNamesOk(path, FALSE) <=> Found(path)
    BY <2>1 DEF GetParameterNamesOk
  <2>3. GetParameterValuesOk(path) <=> Found(path)
    BY DEF GetParameterValuesOk
  <2>4. GetParameterAttributesOk(path) => Found(path)
    BY DEF GetParameterAttributesOk
  <2>5. ASSUME Found(path)
        PROVE  /\ GetParameterValues(path) = GetParameterNames(path, FALSE) \cap Parameters
               /\ GetParameterAttributes(path) \subseteq GetParameterValues(path)
    <3>1. PICK a \in Attrs : a = Located(path).attr
      BY <2>5, FoundIsAttr
    <3>2. PICK v : WalksValues(v) /\ \A b \in Attrs : ValueList(b) = v[b]
      BY ValueListIs
    <3>3. PICK w : WalksInfo(w) /\ \A b \in Attrs : InfoList(b, FALSE) = w[b]
      BY InfoListIs
    <3>4. GetParameterValues(path) = v[a]
      BY <3>1, <3>2 DEF GetParameterValues
    <3>5. GetParameterNames(path, FALSE) = w[a]
      BY <2>1, <3>1, <3>3 DEF GetParameterNames
    <3>6. v[a] = w[a] \cap Parameters
      BY <3>2, <3>3, WalksAgree
    <3>7. ASSUME NEW c \in AttrList(a) PROVE c \in v[a]
      <4>1. /\ c = a \/ c \in Below(a)
            /\ Type(c) = "simple" /\ ~IsExtension(a) /\ ~IsExtension(c)
        BY DEF AttrList
      <4>2. \A b \in Attrs : Type(b) = "simple" /\ ~IsExtension(b) => b \in v[b]
        BY <3>2 DEF WalksValues
      <4>3. CASE c = a
        BY <4>1, <4>2, <4>3
      <4>4. CASE c \in Below(a)
        <5>1. c \in Attrs /\ c \in v[c]
          BY <4>1, <4>2, <4>4, InvFacts, BelowIsDeeper
        <5>2. v[c] \subseteq v[a]
          <6>1. v[a] = {b \in {a} : Type(b) = "simple"} \cup UNION {v[d] : d \in Below(a)}
            BY <3>2, <4>1 DEF WalksValues
          <6> QED
            BY <4>4, <6>1
        <5> QED
          BY <5>1, <5>2
      <4> QED
        BY <4>1, <4>3, <4>4
    <3>8. GetParameterAttributes(path) = AttrList(a)
      BY <3>1 DEF GetParameterAttributes
    <3> QED
      BY <3>4, <3>5, <3>6, <3>7, <3>8
  <2> QED
    BY <2>2, <2>3, <2>4, <2>5
<1> QED
  BY <1>1, RepositoryInvariance, PTL

-----------------------------------------------------------------------------
(***************************************************************************)
(* Names that are listed are located.                                      *)
(***************************************************************************)

\* Above an attribute outside of the list there are objects only.
LEMMA FixedFront ==
  ASSUME NEW a \in Fixed, Len(a) > 1
  PROVE  /\ Front(a) \in Fixed /\ Schema[Front(a)] = "object"
         /\ Len(Front(a)) = Len(a) - 1
         /\ \A k \in 1..(Len(a) - 1) : Front(a)[k] = a[k]
         /\ Append(Front(a), a[Len(a)]) = a
<1>1. /\ a \in DOMAIN Schema /\ a \in Seq(Part) /\ Len(a) \in Nat /\ a # <<>>
      /\ ListAttr \in Seq(Part)
  BY SchemaFacts, ClassOfFixed
<1>2. PICK o \in Seq(Part) :
        /\ o = Front(a) /\ Len(o) = Len(a) - 1
        /\ \A k \in 1..(Len(a) - 1) : o[k] = a[k]
  BY <1>1, FrontIs
<1>3. o \in DOMAIN Schema /\ Schema[o] \in {"object", "multiple"}
  BY <1>1, <1>2, SchemaAssumption
<1>4. ASSUME IsPrefix(ListAttr, o) PROVE FALSE
  <2>1. Len(ListAttr) <= Len(o) /\ \A k \in 1..Len(ListAttr) : ListAttr[k] = o[k]
    BY <1>1, <1>2, <1>4, PrefixIs
  <2>2. Len(ListAttr) \in Nat /\ Len(o) \in Nat
    BY <1>1, <1>2
  <2>3. Len(ListAttr) < Len(a) /\ \A k \in 1..Len(ListAttr) : ListAttr[k] = a[k]
    BY <1>1, <1>2, <2>1, <2>2
  <2>4. IsPrefix(ListAttr, a) /\ ListAttr # a
    BY <1>1, <2>2, <2>3, PrefixIs
  <2> QED
    BY <1>1, <2>4 DEF Fixed, InList, IsStrictPrefix
<1>5. o \in Fixed
  BY <1>3, <1>4 DEF Fixed, InList, IsStrictPrefix
<1>6. Schema[o] # "multiple"
  <2>1. IsPrefix(ListAttr, ListAttr)
    BY DEF IsPrefix
  <2> QED
    BY <1>3, <1>4, <2>1, SchemaFacts
<1>7. Append(o, a[Len(a)]) = a
  BY <1>1, <1>2, FrontIs DEF Last
<1> QED
  BY <1>2, <1>3, <1>5, <1>6, <1>7

\* No part of a path of the schema is empty, nor is a numeral.
LEMMA PartsNotEmpty ==
  ASSUME NEW a \in DOMAIN Schema, NEW k \in 1..Len(a)
  PROVE  a[k] \in Part /\ a[k] # NoPart
<1>1. a \in Seq(Part) /\ k \in DOMAIN a
  BY SchemaFacts
<1>2. a[k] \in Part
  BY <1>1
<1>3. a[k] # NoPart
  BY <1>1, SchemaAssumption
<1> QED
  BY <1>2, <1>3

\* Where the path of an object or of the list leads.
Reached(a) == IF Schema[a] = "object" THEN At(a, a) ELSE At(Front(a), a)

\* One part more.
LEMMA EntersNext ==
  ASSUME RInv, NEW a \in Fixed, Schema[a] # "simple"
  PROVE  IF Len(a) = 1 THEN Enter(At(<<>>, NoAttr), a[1]) = Reached(a)
                       ELSE Enter(At(Front(a), Front(a)), a[Len(a)]) = Reached(a)
<1>1. /\ a \in DOMAIN Schema /\ a \in Seq(Part) /\ Len(a) \in Nat /\ Len(a) > 0
      /\ ListAttr \in Seq(Part)
  BY SchemaFacts, ClassOfFixed
<1>2. a \in Attrs /\ Type(a) = Schema[a] /\ Schema[a] \in {"object", "multiple"}
  BY <1>1, TreeIs, AlwaysThere, ClassOfFixed, SchemaAssumption
<1>3. a[Len(a)] # NoPart /\ a[Len(a)] \in Part
  <2>1. Len(a) \in 1..Len(a)
    BY <1>1
  <2> QED
    BY <1>1, <2>1, PartsNotEmpty
<1>4. CASE Len(a) = 1
  <2>1. Schema[a] = "object"
    BY <1>1, <1>4, SchemaFacts
  <2>2. Append(<<>>, a[1]) = a
    <3>1. Front(a) = <<>>
      <4>1. a # <<>>
        BY <1>1
      <4>2. Front(a) \in Seq(Part) /\ Len(Front(a)) = 0
        BY <1>1, <1>4, <4>1, FrontIs
      <4> QED
        BY <4>2, EmptySeq
    <3> QED
      BY <1>1, <1>4, <3>1, EmptySeq, FrontIs DEF Last
  <2>3. NoAttr # ListAttr
    BY ListIsFixed DEF NoAttr
  <2>4. Enter(At(<<>>, NoAttr), a[1]) = EnterAttr(<<>>, a)
    BY <1>3, <1>4, <2>2, <2>3 DEF Enter, At
  <2>5. EnterAttr(<<>>, a) = At(a, a)
    BY <1>2, <2>1 DEF EnterAttr
  <2> QED
    BY <1>4, <2>1, <2>4, <2>5 DEF Reached
<1>5. CASE Len(a) # 1
  <2>1. Len(a) > 1
    <3>1. PICK n \in Nat : n = Len(a)
      BY <1>1
    <3> QED
      BY <1>1, <1>5, <3>1
  <2>2. PICK o \in Fixed : /\ o = Front(a) /\ Schema[o] = "object"
                           /\ Append(o, a[Len(a)]) = a
    BY <2>1, FixedFront
  <2>3. o # ListAttr
    BY <2>2, SchemaFacts
  <2>4. Enter(At(o, o), a[Len(a)]) = EnterAttr(o, a)
    BY <1>3, <2>2, <2>3 DEF Enter, At
  <2>5. EnterAttr(o, a) = Reached(a)
    BY <1>2, <2>2 DEF EnterAttr, Reached
  <2> QED
    BY <1>5, <2>2, <2>4, <2>5
<1> QED
  BY <1>4, <1>5

\* A path that begins with that of an object or the list leads there.
Begins(path, a) == Len(a) < Len(path) /\ \A k \in 1..Len(a) : path[k] = a[k]

\* The path of an object outside of the list, or of the list, leads there.
LEMMA EntersFixed ==
  ASSUME RInv, NEW path \in Seq(Part), NEW loc, Leads(path, loc),
         NEW a \in Fixed, Schema[a] # "simple", Begins(path, a)
  PROVE  loc[Len(a)] = Reached(a)
<1> DEFINE S == {n \in Nat : \A b \in Fixed :
                   Len(b) = n /\ Schema[b] # "simple" /\ Begins(path, b)
                     => loc[n] = Reached(b)}
<1>1. \A b \in Fixed : b \in Seq(Part) /\ Len(b) \in Nat /\ Len(b) > 0
  BY SchemaFacts, ClassOfFixed
<1>2. 0 \in S
  BY <1>1
<1>3. ASSUME NEW n \in Nat, n \in S PROVE n + 1 \in S
  <2> SUFFICES ASSUME NEW b \in Fixed, Len(b) = n + 1, Schema[b] # "simple", Begins(path, b)
               PROVE  loc[n + 1] = Reached(b)
    OBVIOUS
  <2>1. loc[n + 1] = Enter(loc[n], b[n + 1])
    <3>1. n + 1 \in 1..(Len(path) - 1) /\ (n + 1) - 1 = n /\ n + 1 \in 1..Len(b)
      BY DEF Begins
    <3>2. path[n + 1] = b[n + 1]
      BY <3>1 DEF Begins
    <3> QED
      BY <3>1, <3>2 DEF Leads
  <2>2. CASE n = 0
    <3>1. loc[n] = At(<<>>, NoAttr) /\ Len(b) = 1
      BY <2>2 DEF Leads
    <3> QED
      BY <2>1, <2>2, <3>1, EntersNext
  <2>3. CASE n # 0
    <3>1. Len(b) > 1 /\ Len(b) # 1
      BY <2>3
    <3>2. PICK o \in Fixed : /\ o = Front(b) /\ Schema[o] = "object" /\ Len(o) = n
                             /\ \A k \in 1..n : o[k] = b[k]
      BY <3>1, FixedFront
    <3>3. Begins(path, o)
      BY <3>2 DEF Begins
    <3>4. loc[n] = At(o, o)
      <4>1. loc[n] = Reached(o)
        BY <1>3, <3>2, <3>3
      <4> QED
        BY <3>2, <4>1 DEF Reached
    <3> QED
      BY <2>1, <3>1, <3>2, <3>4, EntersNext
  <2> QED
    BY <2>2, <2>3
<1>4. \A n \in Nat : n \in S
  <2> HIDE DEF S
  <2> QED
    BY <1>2, <1>3, Induct
<1> QED
  BY <1>1, <1>4

\* The path of an object outside of the list, or of the list, leads there, and
\* that of an object of the list to that object.
LEMMA EntersThere ==
  ASSUME RInv, NEW path \in Seq(Part)
  PROVE  /\ \A a \in Fixed : Schema[a] # "simple" /\ Begins(path, a) /\ Len(path) = Len(a) + 1
                               => Entered(path) = Reached(a)
         /\ \A i \in Live(slots, Free) :
              Begins(path, Instance(i)) /\ Len(path) = Len(Instance(i)) + 1
                => Entered(path) = At(Instance(i), ListAttr)
<1>1. \A a \in Fixed : Len(a) \in Nat
  BY SchemaFacts, ClassOfFixed
<1>2. Live(slots, Free) \in SUBSET (1..MaxMade)
  BY InvFacts
<1>3. ASSUME NEW a \in Fixed, Schema[a] # "simple", Begins(path, a), Len(path) = Len(a) + 1
      PROVE  Entered(path) = Reached(a)
  <2>1. path # <<>> /\ Len(path) - 1 = Len(a)
    BY <1>1, <1>3
  <2>2. PICK loc : Leads(path, loc) /\ Entered(path) = loc[Len(a)]
    BY <1>2, <2>1, EnteredIs
  <2> QED
    BY <1>3, <2>2, EntersFixed
<1>4. ASSUME NEW i \in Live(slots, Free), Begins(path, Instance(i)),
             Len(path) = Len(Instance(i)) + 1
      PROVE  Entered(path) = At(Instance(i), ListAttr)
  <2>1. PICK n \in Nat : n = Len(ListAttr)
    BY SchemaFacts
  <2>2. /\ i \in 1..MaxMade /\ Len(Instance(i)) = n + 1
        /\ Instance(i)[n + 1] = Numeral[i]
        /\ \A k \in 1..n : Instance(i)[k] = ListAttr[k]
    BY <1>2, <2>1, InstancePath
  <2>3. path # <<>> /\ Len(path) - 1 = n + 1
    BY <1>4, <2>2
  <2>4. PICK loc : Leads(path, loc) /\ Entered(path) = loc[n + 1]
    BY <1>2, <2>3, EnteredIs
  <2>5. Begins(path, ListAttr)
    BY <1>4, <2>1, <2>2, <2>3 DEF Begins
  <2>6. loc[n] = At(Front(ListAttr), ListAttr)
    BY <2>1, <2>4, <2>5, ListIsFixed, ClassOfFixed, EntersFixed DEF Reached
  <2>7. path[n + 1] = Numeral[i] /\ Numeral[i] # NoPart
    <3>1. n + 1 \in 1..Len(Instance(i))
      BY <2>2
    <3>2. path[n + 1] = Instance(i)[n + 1]
      BY <1>4, <3>1 DEF Begins
    <3> QED
      BY <2>2, <3>2, NumeralAssumption
  <2>8. loc[n + 1] = Enter(loc[n], path[n + 1])
    <3>1. n + 1 \in 1..(Len(path) - 1) /\ (n + 1) - 1 = n
      BY <2>3
    <3> QED
      BY <2>4, <3>1 DEF Leads
  <2>9. loc[n + 1] = EnterList(Numeral[i])
    <3>1. PICK l : l = loc[n]
      OBVIOUS
    <3>2. l.found /\ l.attr = ListAttr
      BY <2>6, <3>1 DEF At
    <3>3. Enter(l, Numeral[i]) = EnterList(Numeral[i])
      BY <2>7, <3>2 DEF Enter
    <3> QED
      BY <2>7, <2>8, <3>1, <3>3
  <2> QED
    BY <2>4, <2>9 DEF EnterList, Instance
<1> QED
  BY <1>3, <1>4

\* A path with a dot at the end.
LEMMA Dotted ==
  ASSUME NEW a \in Seq(Part)
  PROVE  /\ Append(a, NoPart) \in Seq(Part) /\ Len(Append(a, NoPart)) = Len(a) + 1
         /\ Begins(Append(a, NoPart), a) /\ Last(Append(a, NoPart)) = NoPart
<1>1. NoPart \in Part
  BY DEF Part
<1> QED
  BY <1>1 DEF Begins, Last

\* The last part of the path of a simple attribute follows that of its object.
LEMMA ObjectThenPart ==
  ASSUME RInv, NEW a \in Parameters, a \in Seq(Part), NEW o \in Seq(Part), NEW at,
         Len(a) = Len(o) + 1, \A k \in 1..Len(o) : a[k] = o[k],
         a[Len(a)] # NoPart, Entered(a) = At(o, at)
  PROVE  Located(a) = At(o, a)
<1>1. Last(a) = a[Len(a)] /\ a[Len(a)] \in Part
  BY DEF Last
<1>2. Append(o, Last(a)) = a
  BY <1>1, SameSequence
<1>3. Entered(a).found /\ Entered(a).obj = o
  BY DEF At
<1> QED
  BY <1>1, <1>2, <1>3 DEF Located

\* An attribute outside of the list is located by its name.
LEMMA FixedLocates ==
  ASSUME RInv, NEW a \in Fixed
  PROVE  Located(Named(a)).found /\ Located(Named(a)).attr = a
<1>1. /\ a \in DOMAIN Schema /\ a \in Seq(Part) /\ Len(a) \in Nat /\ Len(a) > 0
      /\ a \in Attrs /\ Type(a) = Schema[a]
  BY SchemaFacts, ClassOfFixed, TreeIs, AlwaysThere
<1>2. CASE Schema[a] = "simple"
  <2>1. a \in Parameters /\ Named(a) = a
    BY <1>1, <1>2 DEF Parameters, Named
  <2>2. Len(a) > 1
    <3>1. Len(a) # 1
      BY <1>1, <1>2, SchemaFacts
    <3>2. PICK n \in Nat : n = Len(a)
      BY <1>1
    <3> QED
      BY <1>1, <3>1, <3>2
  <2>3. PICK o \in Fixed : /\ o = Front(a) /\ Schema[o] = "object" /\ Len(o) = Len(a) - 1
                           /\ \A k \in 1..(Len(a) - 1) : o[k] = a[k]
    BY <2>2, FixedFront
  <2>4. o \in Seq(Part) /\ Begins(a, o) /\ Len(a) = Len(o) + 1
    BY <1>1, <2>3, SchemaFacts, ClassOfFixed DEF Begins
  <2>5. Entered(a) = At(o, o)
    BY <1>1, <2>3, <2>4, EntersThere DEF Reached
  <2>6. a[Len(a)] # NoPart
    <3>1. Len(a) \in 1..Len(a)
      BY <1>1
    <3> QED
      BY <1>1, <3>1, PartsNotEmpty
  <2>7. Located(a) = At(o, a)
    BY <1>1, <2>1, <2>4, <2>5, <2>6, ObjectThenPart DEF Begins
  <2> QED
    BY <2>1, <2>7 DEF At
<1>3. CASE Schema[a] # "simple"
  <2>1. Named(a) = Append(a, NoPart)
    BY <1>1, <1>3 DEF Parameters, Named
  <2>2. Entered(Named(a)) = Reached(a)
    BY <1>1, <1>3, <2>1, Dotted, EntersThere
  <2>3. Located(Named(a)) = Reached(a)
    BY <1>1, <2>1, <2>2, Dotted DEF Located
  <2> QED
    BY <2>3 DEF Reached, At
<1> QED
  BY <1>2, <1>3

\* An object of the list is located by its name.
LEMMA InstanceLocates ==
  ASSUME RInv, NEW i \in Live(slots, Free)
  PROVE  Located(Named(Instance(i))) = At(Instance(i), ListAttr)
<1>1. i \in 1..MaxMade /\ Instance(i) \in Seq(Part)
  BY InvFacts, InstancePath
<1>2. Instance(i) \notin Parameters
  BY InstancesApart DEF Instances, Parameters
<1>3. Named(Instance(i)) = Append(Instance(i), NoPart)
  BY <1>2 DEF Named
<1>4. Entered(Named(Instance(i))) = At(Instance(i), ListAttr)
  BY <1>1, <1>3, Dotted, EntersThere
<1> QED
  BY <1>1, <1>3, <1>4, Dotted DEF Located, At

\* An attribute of an object of the list is located by its name.
LEMMA AttrLocates ==
  ASSUME RInv, FlatList, NEW i \in Live(slots, Free), NEW c \in InList,
         NEW a, a = AttrAt(i, c)
  PROVE  Located(Named(a)) = At(Instance(i), a)
<1>1. PICK n \in Nat : n = Len(ListAttr)
  BY SchemaFacts
<1>2. PICK o \in Seq(Part) :
        /\ o = Instance(i) /\ i \in 1..MaxMade /\ Len(o) = n + 1
        /\ o[n + 1] = Numeral[i] /\ \A k \in 1..n : o[k] = ListAttr[k]
  BY <1>1, InvFacts, InstancePath
<1>3. /\ c \in DOMAIN Schema /\ c \in Seq(Part) /\ a \in Seq(Part) /\ Len(a) = Len(c) + 1
      /\ \A k \in 1..n : a[k] = ListAttr[k]
      /\ a[n + 1] = Numeral[i]
      /\ \A k \in (n + 2)..Len(a) : a[k] = c[k - 1]
  BY <1>1, <1>2, ObjectAttr
<1>4. Len(c) = n + 1 /\ Schema[c] = "simple"
  BY <1>1 DEF FlatList
<1>5. a \in Parameters /\ Named(a) = a
  <2>1. a \in Attrs
    BY TreeIs, AttrCases
  <2>2. Type(a) = "simple"
    BY <1>2, <1>4, ClassInObject
  <2> QED
    BY <2>1, <2>2 DEF Parameters, Named
<1>6. Len(a) = n + 2 /\ \A k \in 1..Len(o) : a[k] = o[k]
  <2>1. Len(a) = n + 2
    BY <1>3, <1>4
  <2>2. ASSUME NEW k \in 1..Len(o) PROVE a[k] = o[k]
    <3>1. k \in 1..n \/ k = n + 1
      BY <1>2
    <3> QED
      BY <1>2, <1>3, <3>1
  <2> QED
    BY <2>1, <2>2
<1>7. Entered(a) = At(o, ListAttr)
  <2>1. Begins(a, o) /\ Len(a) = Len(o) + 1
    BY <1>2, <1>6 DEF Begins
  <2> QED
    BY <1>2, <1>3, <2>1, EntersThere
<1>8. a[Len(a)] # NoPart
  <2>1. a[n + 2] = c[n + 1] /\ n + 1 \in 1..Len(c)
    <3>1. n + 2 \in (n + 2)..Len(a) /\ (n + 2) - 1 = n + 1
      BY <1>6
    <3> QED
      BY <1>3, <1>4, <3>1
  <2> QED
    BY <1>3, <1>6, <2>1, PartsNotEmpty
<1>9. Located(a) = At(o, a)
  <2>1. Len(a) = Len(o) + 1
    BY <1>2, <1>6
  <2> QED
    BY <1>3, <1>5, <1>6, <1>7, <1>8, <2>1, ObjectThenPart
<1> QED
  BY <1>2, <1>5, <1>9

\* Whatever GetParameterNames lists is an attribute of the tree or an object of
\* the list.
LEMMA NamesAreNodes ==
  ASSUME RInv, NEW path \in Paths, NEW nextLevel \in BOOLEAN,
         GetParameterNamesOk(path, nextLevel)
  PROVE  GetParameterNames(path, nextLevel) \subseteq Attrs \cup Instances
<1>1. CASE path = <<NoPart>>
  BY <1>1, TreeIs, AlwaysThere DEF GetParameterNames
<1>2. CASE path # <<NoPart>>
  <2>1. Found(path)
    BY <1>2 DEF GetParameterNamesOk
  <2>2. PICK a \in Attrs : a = Located(path).attr
    BY <2>1, FoundIsAttr
  <2>3. GetParameterNames(path, nextLevel) = InfoList(a, nextLevel)
    BY <1>2, <2>2 DEF GetParameterNames
  <2>4. CASE nextLevel
    BY <2>3, <2>4 DEF InfoList, Children
  <2>5. CASE ~nextLevel
    <3>1. PICK w : WalksInfo(w) /\ \A b \in Attrs : InfoList(b, FALSE) = w[b]
      BY InfoListIs
    <3> DEFINE X == {b \in Attrs : w[b] \subseteq Attrs \cup Instances}
    <3>2. ASSUME NEW b \in Attrs, \A c \in Below(b) : c \in X PROVE b \in X
      <4>1. w[b] = IF IsExtension(b) THEN {}
                   ELSE Entries(b) \cup UNION {w[c] : c \in Below(b)}
        BY <3>1 DEF WalksInfo
      <4>2. Entries(b) \subseteq Attrs \cup Instances
        BY DEF Entries
      <4> QED
        BY <3>2, <4>1, <4>2
    <3>3. \A b \in Attrs : b \in X
      <4> HIDE DEF X
      <4> QED
        BY <3>2, InvFacts, WalkInduct
    <3>4. nextLevel = FALSE
      BY <2>5
    <3> QED
      BY <2>2, <2>3, <3>1, <3>3, <3>4
  <2> QED
    BY <2>4, <2>5
<1> QED
  BY <1>1, <1>2

\* What GetParameterNames lists can be used in the next call as it is, if no
\* object of the list has objects or lists in it (repo.c, attr.c).
THEOREM AlwaysListedLocates == FlatList => (Spec => []ListedLocates)
<1> SUFFICES ASSUME FlatList PROVE Spec => []ListedLocates
  OBVIOUS
<1>1. RInv => ListedLocates
  <2> SUFFICES ASSUME RInv, NEW path \in Paths, NEW nextLevel \in BOOLEAN,
                      GetParameterNamesOk(path, nextLevel),
                      NEW node \in GetParameterNames(path, nextLevel)
               PROVE  /\ Located(Named(node)).found
                      /\ node \in {Located(Named(node)).attr, Located(Named(node)).obj}
    BY DEF ListedLocates
  <2>1. node \in Attrs \cup Instances
    BY NamesAreNodes
  <2>2. CASE node \in Fixed
    BY <2>2, FixedLocates
  <2>3. CASE \E i \in Live(slots, Free) : \E c \in InList : node = AttrAt(i, c)
    <3>1. \E i \in Live(slots, Free) : Located(Named(node)) = At(Instance(i), node)
      BY <2>3, AttrLocates
    <3> QED
      BY <3>1 DEF At
  <2>4. CASE node \in Instances
    BY <2>4, InstanceLocates DEF Instances, At
  <2> QED
    BY <2>1, <2>2, <2>3, <2>4, TreeIs, AttrCases
<1> QED
  BY <1>1, RepositoryInvariance, PTL

=============================================================================
