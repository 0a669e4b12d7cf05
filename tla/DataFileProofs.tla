--------------------------- MODULE DataFileProofs ---------------------------
(***************************************************************************)
(* What is proved about the data file and the tree that is made from it.   *)
(*                                                                         *)
(* First the Persister, which writes the file, for every number of         *)
(* parameters and values: SavedOrScheduled and NeverMixed are inductive    *)
(* together with Writing, which says how far an unfinished write has come, *)
(* and with AtRest, which ties the file of a dead process to its tree.     *)
(*                                                                         *)
(* Then DataModel, for every model, every data file and every change of    *)
(* the tree.  Fits says that a tree is what the model says, but for the    *)
(* attributes of some objects: those of X have none yet, and the root has  *)
(* those of R.  It is shown of each step that makes a tree - an attribute  *)
(* of a new object, the object grafted into the tree, an object added or   *)
(* deleted, a callback of the parser - and of the loops and recursions     *)
(* over them by Induct.                                                    *)
(***************************************************************************)
EXTENDS Persister, DataModel, FiniteSetTheorems, SequenceTheorems,
        WellFoundedInduction, TLAPS

-----------------------------------------------------------------------------
(***************************************************************************)
(* The Persister: the invariant.                                           *)
(***************************************************************************)

Value == 0..MaxValue

\* While a write is under way the file is short of the tree.
Writing == phase = "writing" => Len(file) < Params /\ ~timer /\ ~failed

\* A process that died with everything saved left its tree in the file.
AtRest ==
  phase = "off" =>
    /\ ~timer /\ ~failed
    /\ left.quiet => ~torn /\ Load(file) = left.tree

IInv == TypeOK /\ SavedOrScheduled /\ NeverMixed /\ Writing /\ AtRest

\* The parameters are counted up to Params.
LEMMA ParamRange == \A p \in Param : p <= Params
<1>1. Params \in Nat
  BY PersisterAssumption
<1> QED
  BY <1>1 DEF Param

\* Defaults is a tree, since 0 is a value.
LEMMA DefaultsType == 0 \in Value /\ Defaults \in Tree
BY PersisterAssumption DEF Value, Defaults, Tree, Param

\* Whatever the file holds, loading it gives a tree.
LEMMA LoadType ==
  ASSUME NEW f \in Seq(Value)
  PROVE  Load(f) \in Tree
<1>1. \A p \in Param : p <= Len(f) => f[p] \in Value
  BY DEF Param
<1>2. \A p \in Param : (IF p <= Len(f) THEN f[p] ELSE 0) \in Value
  BY <1>1, DefaultsType
<1> QED
  BY <1>2 DEF Load, Tree, Value

\* Setting a parameter of a tree gives a tree.
LEMMA SetType ==
  ASSUME NEW whole \in Tree, NEW p \in Param, NEW value \in Value
  PROVE  [whole EXCEPT ![p] = value] \in Tree
BY DEF Tree, Value

\* A file that holds the whole tree loads as that tree.
LEMMA LoadWhole ==
  ASSUME NEW whole \in Tree, NEW f \in Seq(Value), Len(f) = Params,
         \A p \in DOMAIN f : f[p] = whole[p]
  PROVE  Load(f) = whole
<1>1. DOMAIN f = Param
  BY DEF Param
<1>2. \A p \in Param : p <= Len(f)
  BY ParamRange
<1>3. \A p \in Param : Load(f)[p] = whole[p]
  BY <1>1, <1>2 DEF Load
<1>4. Load(f) = [p \in Param |-> whole[p]]
  BY <1>1, <1>2 DEF Load
<1> QED
  BY <1>4 DEF Tree

\* Appending the next value of the tree keeps the file a beginning of it.
LEMMA AppendNext ==
  ASSUME NEW whole \in Tree, NEW f \in Seq(Value), Len(f) < Params,
         \A p \in DOMAIN f : f[p] = whole[p],
         NEW g, g = Append(f, whole[Len(f) + 1])
  PROVE  /\ g \in Seq(Value)
         /\ Len(g) = Len(f) + 1
         /\ \A p \in DOMAIN g : g[p] = whole[p]
<1>1. Len(f) + 1 \in Param
  BY PersisterAssumption DEF Param
<1>2. whole[Len(f) + 1] \in Value
  BY <1>1 DEF Tree, Value
<1>3. g \in Seq(Value) /\ Len(g) = Len(f) + 1
  BY <1>2
<1>4. ASSUME NEW p \in DOMAIN g
      PROVE  g[p] = whole[p]
  <2>1. p \in 1..(Len(f) + 1)
    BY <1>3
  <2>2. CASE p = Len(f) + 1
    BY <2>2, <1>2
  <2>3. CASE p \in 1..Len(f)
    BY <2>3, <1>2
  <2> QED
    BY <2>1, <2>2, <2>3
<1> QED
  BY <1>3, <1>4

-----------------------------------------------------------------------------

\* The delivered file is loaded at the first start like any other.
LEMMA InitInv == Init => IInv
<1> SUFFICES ASSUME Init PROVE IInv
  OBVIOUS
<1>1. PICK n \in 0..Params : file \in [1..n -> Value]
  BY DEF Init, Value
<1>2. n \in Nat /\ n <= Params
  BY PersisterAssumption
<1>3. file \in Seq(Value) /\ Len(file) = n
  BY <1>1, <1>2
<1>4. TypeOK
  BY <1>2, <1>3, LoadType, DefaultsType DEF Init, TypeOK, Left, Value
<1> QED
  BY <1>4 DEF Init, IInv, SavedOrScheduled, NeverMixed, Writing, AtRest, Left

\* The agent starts with the tree that is in the file.
LEMMA BootInv == IInv /\ Boot => IInv'
<1> SUFFICES ASSUME IInv, Boot PROVE IInv'
  OBVIOUS
<1>1. TypeOK'
  BY LoadType DEF IInv, TypeOK, Boot, Value
<1>2. Load(file') = Load(file)
  BY DEF Boot
<1> QED
  BY <1>1, <1>2 DEF IInv, Boot, SavedOrScheduled, NeverMixed, Writing, AtRest

\* A change schedules a write.
LEMMA ChangeInv == ASSUME NEW p \in Param PROVE IInv /\ Change(p) => IInv'
<1> SUFFICES ASSUME IInv, Change(p) PROVE IInv'
  OBVIOUS
<1>1. repo' \in Tree
  <2>1. PICK value \in Value : repo' = [repo EXCEPT ![p] = value]
    BY DEF Change, Value
  <2>2. repo \in Tree
    BY DEF IInv, TypeOK
  <2> QED
    BY <2>1, <2>2, SetType
<1>2. TypeOK'
  BY <1>1 DEF IInv, TypeOK, Change
<1> QED
  BY <1>2 DEF IInv, Change, SavedOrScheduled, NeverMixed, Writing, AtRest

\* The write begins with an empty file, or has failed.
LEMMA TimerFiresInv == IInv /\ TimerFires => IInv'
<1> SUFFICES ASSUME IInv, TimerFires PROVE IInv'
  OBVIOUS
<1>1. <<>> \in Seq(Value) /\ Len(<<>>) = 0 /\ Len(<<>>) < Params
  BY PersisterAssumption
<1>2. TypeOK'
  <2>1. /\ phase' \in {"off", "running", "writing"}
        /\ timer' \in BOOLEAN /\ failed' \in BOOLEAN /\ torn' \in BOOLEAN
    BY DEF IInv, TypeOK, TimerFires
  <2>2. file' \in Seq(Value) /\ Len(file') <= Params
    <3>1. file' \in {file, <<>>}
      BY DEF TimerFires
    <3>2. Len(<<>>) <= Params
      BY PersisterAssumption
    <3>3. file \in Seq(Value) /\ Len(file) <= Params
      BY DEF IInv, TypeOK, Value
    <3> QED
      BY <1>1, <3>1, <3>2, <3>3
  <2>3. repo' \in Tree /\ left' \in [quiet : BOOLEAN, tree : Tree]
    BY DEF IInv, TypeOK, TimerFires
  <2> QED
    BY <2>1, <2>2, <2>3 DEF TypeOK, Value
<1>3. Writing'
  BY <1>1 DEF IInv, TimerFires, Writing
<1>4. SavedOrScheduled' /\ AtRest'
  BY DEF IInv, TimerFires, SavedOrScheduled, AtRest
<1>5. NeverMixed'
  BY DEF IInv, TimerFires, NeverMixed
<1> QED
  BY <1>2, <1>3, <1>4, <1>5 DEF IInv

\* A written value is the next one of the tree; the last one completes it.
LEMMA WriteSomeInv == IInv /\ WriteSome => IInv'
<1> SUFFICES ASSUME IInv, WriteSome PROVE IInv'
  OBVIOUS
<1>1. /\ phase = "writing" /\ repo' = repo /\ timer' = timer
      /\ failed' = failed /\ left' = left
  BY DEF WriteSome
<1>2. repo \in Tree /\ file \in Seq(Value) /\ Len(file) < Params /\ ~timer
  BY <1>1 DEF IInv, TypeOK, Writing, Value
<1>3. \A p \in DOMAIN file : file[p] = repo[p]
  BY <1>1 DEF IInv, NeverMixed
<1>4. CASE torn' = TRUE /\ UNCHANGED <<phase, file>>
  <2>1. TypeOK'
    BY <1>1, <1>4 DEF IInv, TypeOK
  <2> QED
    BY <1>1, <1>4, <2>1
    DEF IInv, SavedOrScheduled, NeverMixed, Writing, AtRest
<1>5. CASE /\ file' = Append(file, repo[Len(file) + 1])
           /\ torn' = FALSE
           /\ phase' = IF Len(file') = Params THEN "running" ELSE "writing"
  <2>1. /\ file' \in Seq(Value)
        /\ Len(file') = Len(file) + 1
        /\ \A p \in DOMAIN file' : file'[p] = repo[p]
    BY <1>2, <1>3, <1>5, AppendNext
  <2>2. Len(file') <= Params
    BY <1>2, <2>1, PersisterAssumption
  <2>3. TypeOK'
    BY <1>1, <1>5, <2>1, <2>2 DEF IInv, TypeOK, Value
  <2>4. Writing'
    BY <1>1, <1>5, <2>1, <2>2, PersisterAssumption DEF IInv, Writing
  <2>5. SavedOrScheduled'
    BY <1>1, <1>2, <1>5, <2>1, LoadWhole DEF SavedOrScheduled
  <2> QED
    BY <1>1, <1>5, <2>1, <2>3, <2>4, <2>5 DEF IInv, NeverMixed, AtRest
<1> QED
  BY <1>4, <1>5 DEF WriteSome

\* A failed write is remembered as such.
LEMMA WriteFailsInv == IInv /\ WriteFails => IInv'
BY DEF IInv, TypeOK, WriteFails, SavedOrScheduled, NeverMixed, Writing, AtRest

\* What the process leaves behind is judged by the invariant it had.
LEMMA DieInv == IInv /\ Die => IInv'
<1> SUFFICES ASSUME IInv, Die PROVE IInv'
  OBVIOUS
<1>1. /\ left' \in [quiet : BOOLEAN, tree : Tree]
      /\ left'.quiet = (phase = "running" /\ ~timer /\ ~failed)
      /\ left'.tree = repo
  BY DEF IInv, TypeOK, Die, Left
<1>2. TypeOK'
  BY <1>1, DefaultsType DEF IInv, TypeOK, Die
<1>3. AtRest'
  BY <1>1 DEF IInv, Die, AtRest, SavedOrScheduled
<1> QED
  BY <1>2, <1>3 DEF IInv, Die, SavedOrScheduled, NeverMixed, Writing

\* The invariant is inductive: every action preserves it.
THEOREM InvariantInductive == (Init => IInv) /\ (IInv /\ [Next]_vars => IInv')
<1>1. IInv /\ UNCHANGED vars => IInv'
  BY DEF IInv, TypeOK, vars, SavedOrScheduled, NeverMixed, Writing, AtRest, Load
<1> QED
  BY <1>1, InitInv, BootInv, ChangeInv, TimerFiresInv, WriteSomeInv,
     WriteFailsInv, DieInv DEF Next

\* Every reachable state satisfies the inductive invariant.
THEOREM Invariance == Spec => []IInv
<1>1. Init => IInv
  BY InitInv
<1>2. IInv /\ [Next]_vars => IInv'
  BY InvariantInductive
<1> QED
  BY <1>1, <1>2, PTL DEF Spec

\* Every variable keeps its type.
THEOREM TypeCorrect == Spec => []TypeOK
<1>1. IInv => TypeOK
  BY DEF IInv
<1> QED
  BY <1>1, Invariance, PTL

\* An idle agent whose last write did not fail would be restarted with the
\* tree it has, or has a write scheduled.
THEOREM AlwaysSavedOrScheduled == Spec => []SavedOrScheduled
<1>1. IInv => SavedOrScheduled
  BY DEF IInv
<1> QED
  BY <1>1, Invariance, PTL

\* An unfinished file is a beginning of one tree, never a mixture of two.
THEOREM AlwaysNeverMixed == Spec => []NeverMixed
<1>1. IInv => NeverMixed
  BY DEF IInv
<1> QED
  BY <1>1, Invariance, PTL

\* An agent that died at rest starts again with the tree it had.
THEOREM RestIsDurable == Spec => RestComesBack
<1>1. ASSUME IInv, [Next]_vars, phase = "off", phase' = "running", left.quiet
      PROVE  repo' = left.tree
  <2>1. Boot
    BY <1>1 DEF Next, vars, Change, TimerFires, WriteSome, WriteFails, Die
  <2> QED
    BY <1>1, <2>1 DEF IInv, AtRest, Boot
<1>2. IInv /\ [Next]_vars =>
        [phase = "off" /\ phase' = "running" /\ left.quiet =>
           repo' = left.tree]_vars
  BY <1>1
<1> QED
  BY <1>2, Invariance, PTL DEF Spec, RestComesBack

-----------------------------------------------------------------------------
(***************************************************************************)
(* Numbers, sequences and paths.                                           *)
(***************************************************************************)

\* A set of numbers that is not empty has a least one.
LEMMA HasLeast ==
  ASSUME NEW T \in SUBSET Nat, T # {}
  PROVE  \E i \in T : \A j \in T : i <= j
<1> DEFINE R == OpToRel(<, Nat)
<1>1. IsWellFoundedOn(R, Nat)
  BY NatLessThanWellFounded
<1>2. \A i, j \in Nat : j < i => <<j, i>> \in R
  BY DEF OpToRel
<1> HIDE DEF R
<1>3. PICK i \in T : \A j \in T : <<j, i>> \notin R
  BY <1>1, WFMin
<1>4. ASSUME NEW j \in T PROVE i <= j
  <2>1. i \in Nat /\ j \in Nat /\ ~(j < i)
    BY <1>2, <1>3
  <2> QED
    BY <2>1
<1> QED
  BY <1>4

\* Induction: a set with each number that it has all smaller ones of.
LEMMA Induct ==
  ASSUME NEW S, \A m \in Nat : (\A k \in Nat : k < m => k \in S) => m \in S
  PROVE  \A n \in Nat : n \in S
<1> SUFFICES ASSUME NEW n \in Nat, n \notin S PROVE FALSE
  OBVIOUS
<1> DEFINE M == {m \in Nat : m \notin S}
<1>1. M \in SUBSET Nat /\ M # {}
  OBVIOUS
<1>2. PICK m \in M : \A j \in M : m <= j
  BY <1>1, HasLeast
<1>3. m \in Nat /\ m \notin S
  BY <1>2
<1>4. ASSUME NEW k \in Nat, k < m PROVE k \in S
  <2>1. ~(m <= k)
    BY <1>3, <1>4
  <2> QED
    BY <1>2, <2>1
<1> QED
  BY <1>3, <1>4

\* The names in a model, with the one of a schema that has none.
Word == STRING \cup {Null}

\* The steps of a path: attributes with their names, objects with their numbers.
Step == Word \X Nat
Path == Seq(Step)

\* A schema without a name has Null for one.
LEMMA NullIs == Null \in Word
BY DEF Word

\* Paths are equal if they have the same steps.
LEMMA SamePath ==
  ASSUME NEW p \in Path, NEW q \in Path, Len(p) = Len(q),
         \A k \in 1..Len(p) : p[k] = q[k]
  PROVE  p = q
BY DEF Path

\* The path of an attribute or object, and where it is in.
LEMMA PathIs ==
  ASSUME NEW o \in Path, NEW e \in Step
  PROVE  /\ Append(o, e) \in Path /\ Append(o, e) # <<>>
         /\ Len(o) \in Nat /\ Len(Append(o, e)) = Len(o) + 1
         /\ Front(Append(o, e)) = o
<1> DEFINE p == Append(o, e)
<1>1. /\ p \in Path /\ p # <<>> /\ Len(o) \in Nat /\ Len(p) = Len(o) + 1
      /\ \A k \in 1..Len(o) : p[k] = o[k]
  BY AppendProperties DEF Path
<1>2. Front(p) = SubSeq(p, 1, Len(o))
  <2>1. Len(p) - 1 = Len(o)
    BY <1>1
  <2> QED
    BY <2>1 DEF Front
<1>3. \A k \in 1..Len(o) : p[k] \in Step
  BY <1>1 DEF Path
<1>4. PICK n \in Nat : n = Len(o)
  BY <1>1
<1>5. /\ SubSeq(p, 1, n) \in Path
      /\ Len(SubSeq(p, 1, n)) = IF 1 <= n THEN n - 1 + 1 ELSE 0
      /\ \A k \in 1..(n - 1 + 1) : SubSeq(p, 1, n)[k] = p[1 + k - 1]
  <2> HIDE DEF p
  <2>1. 1 \in Int /\ n \in Int /\ \A k \in 1..n : p[k] \in Step
    BY <1>3, <1>4
  <2> QED
    BY <2>1, SubSeqProperties DEF Path
<1>6. Len(SubSeq(p, 1, n)) = Len(o) /\ \A k \in 1..Len(o) : SubSeq(p, 1, n)[k] = o[k]
  BY <1>1, <1>4, <1>5
<1>7. SubSeq(p, 1, n) = o
  BY <1>5, <1>6, SamePath
<1> QED
  BY <1>1, <1>2, <1>4, <1>7

\* An attribute has a number of its own kind.
LEMMA AttrIs ==
  ASSUME NEW o \in Path, NEW n \in Word
  PROVE  /\ Attr(o, n) \in Path /\ Attr(o, n) # <<>>
         /\ Len(o) \in Nat /\ Len(Attr(o, n)) = Len(o) + 1
         /\ Front(Attr(o, n)) = o
<1>1. <<n, 0>> \in Step
  BY DEF Step
<1> QED
  BY <1>1, PathIs DEF Attr

\* An object of a list has a step of its own too.
LEMMA ObjectIs ==
  ASSUME NEW p \in Path, NEW i \in Nat
  PROVE  /\ Object(p, i) \in Path /\ Object(p, i) # <<>>
         /\ Len(p) \in Nat /\ Len(Object(p, i)) = Len(p) + 1
         /\ Front(Object(p, i)) = p
<1>1. <<Null, i>> \in Step
  BY NullIs DEF Step
<1> QED
  BY <1>1, PathIs DEF Object

\* Paths tell attributes and objects apart.
LEMMA Apart ==
  ASSUME NEW o \in Path, NEW p \in Path
  PROVE  /\ \A m, n \in Word : Attr(o, m) = Attr(p, n) => o = p /\ m = n
         /\ \A i, j \in Nat : Object(o, i) = Object(p, j) => o = p /\ i = j
         /\ \A m \in Word, j \in Nat : j # 0 => Attr(o, m) # Object(p, j)
<1>1. ASSUME NEW d \in Step, NEW e \in Step, Append(o, d) = Append(p, e)
      PROVE  o = p /\ d = e
  BY <1>1, AppendInjective DEF Path
<1>2. ASSUME NEW m \in Word, NEW n \in Word, Attr(o, m) = Attr(p, n)
      PROVE  o = p /\ m = n
  <2>1. <<m, 0>> \in Step /\ <<n, 0>> \in Step
    BY DEF Step
  <2>2. Append(o, <<m, 0>>) = Append(p, <<n, 0>>)
    BY <1>2 DEF Attr
  <2>3. o = p /\ <<m, 0>> = <<n, 0>>
    BY <2>1, <2>2, <1>1, Zenon
  <2> QED
    BY <2>3
<1>3. ASSUME NEW i \in Nat, NEW j \in Nat, Object(o, i) = Object(p, j)
      PROVE  o = p /\ i = j
  <2>1. <<Null, i>> \in Step /\ <<Null, j>> \in Step
    BY NullIs DEF Step
  <2>2. Append(o, <<Null, i>>) = Append(p, <<Null, j>>)
    BY <1>3 DEF Object
  <2>3. o = p /\ <<Null, i>> = <<Null, j>>
    BY <2>1, <2>2, <1>1, Zenon
  <2> QED
    BY <2>3
<1>4. ASSUME NEW m \in Word, NEW j \in Nat, j # 0, Attr(o, m) = Object(p, j)
      PROVE  FALSE
  <2>1. <<m, 0>> \in Step /\ <<Null, j>> \in Step
    BY NullIs DEF Step
  <2>2. Append(o, <<m, 0>>) = Append(p, <<Null, j>>)
    BY <1>4 DEF Attr, Object
  <2>3. <<m, 0>> = <<Null, j>>
    BY <2>1, <2>2, <1>1, Zenon
  <2> QED
    BY <1>4, <2>3
<1> QED
  BY <1>2, <1>3, <1>4

\* A path begins with the path of the object it is in.
LEMMA PrefixIs ==
  ASSUME NEW p \in Path, NEW q \in Path
  PROVE  IsPrefix(p, q) <=> Len(p) <= Len(q) /\ \A k \in 1..Len(p) : p[k] = q[k]
<1>1. Len(p) \in Nat /\ Len(q) \in Nat
  BY DEF Path
<1>2. CASE ~(Len(p) <= Len(q))
  BY <1>2 DEF IsPrefix
<1>3. CASE Len(p) <= Len(q)
  <2>1. PICK n \in Nat : n = Len(p) /\ n <= Len(q)
    BY <1>1, <1>3
  <2>2. \A s \in {p, q} :
          /\ SubSeq(s, 1, n) \in Path
          /\ Len(SubSeq(s, 1, n)) = IF 1 <= n THEN n - 1 + 1 ELSE 0
          /\ \A k \in 1..(n - 1 + 1) : SubSeq(s, 1, n)[k] = s[1 + k - 1]
    <3> TAKE s \in {p, q}
    <3>1. 1 \in Int /\ n \in Int /\ \A k \in 1..n : s[k] \in Step
      BY <1>1, <2>1 DEF Path
    <3> QED
      BY <3>1, SubSeqProperties DEF Path
  <2>3. \A s \in {p, q} : /\ SubSeq(s, 1, n) \in Path
                          /\ Len(SubSeq(s, 1, n)) = n
                          /\ \A k \in 1..n : SubSeq(s, 1, n)[k] = s[k]
    BY <2>2
  <2>4. SubSeq(p, 1, n) = SubSeq(q, 1, n) <=> \A k \in 1..n : p[k] = q[k]
    <3>1. ASSUME \A k \in 1..n : p[k] = q[k]
          PROVE  SubSeq(p, 1, n) = SubSeq(q, 1, n)
      BY <2>3, <3>1, SamePath
    <3>2. ASSUME SubSeq(p, 1, n) = SubSeq(q, 1, n), NEW k \in 1..n
          PROVE  p[k] = q[k]
      BY <2>3, <3>2
    <3> QED
      BY <3>1, <3>2
  <2> QED
    BY <1>3, <2>1, <2>4 DEF IsPrefix
<1> QED
  BY <1>2, <1>3

\* A path that begins one of an attribute or object is that, or begins the path
\* of what it is in.
LEMMA PrefixStep ==
  ASSUME NEW a \in Path, NEW o \in Path, NEW e \in Step
  PROVE  IsPrefix(a, Append(o, e)) <=> a = Append(o, e) \/ IsPrefix(a, o)
<1> DEFINE p == Append(o, e)
<1>1. /\ p \in Path /\ Len(o) \in Nat /\ Len(p) = Len(o) + 1
      /\ \A k \in 1..Len(o) : p[k] = o[k]
  BY AppendProperties DEF Path
<1>2. Len(a) \in Nat
  BY DEF Path
<1> HIDE DEF p
<1>3. ASSUME IsPrefix(a, p), a # p PROVE IsPrefix(a, o)
  <2>1. Len(a) <= Len(p) /\ \A k \in 1..Len(a) : a[k] = p[k]
    BY <1>1, <1>3, PrefixIs
  <2>2. Len(a) # Len(p)
    BY <1>1, <1>3, <2>1, SamePath
  <2>3. Len(a) <= Len(o)
    BY <1>1, <1>2, <2>1, <2>2
  <2>4. \A k \in 1..Len(a) : a[k] = o[k]
    BY <1>1, <1>2, <2>1, <2>3
  <2> QED
    BY <2>3, <2>4, PrefixIs
<1>4. ASSUME IsPrefix(a, o) PROVE IsPrefix(a, p)
  <2>1. Len(a) <= Len(o) /\ \A k \in 1..Len(a) : a[k] = o[k]
    BY <1>4, PrefixIs
  <2>2. Len(a) <= Len(p) /\ \A k \in 1..Len(a) : a[k] = p[k]
    BY <1>1, <1>2, <2>1
  <2> QED
    BY <1>1, <2>2, PrefixIs
<1>5. IsPrefix(p, p)
  BY <1>1, PrefixIs
<1> QED
  BY <1>3, <1>4, <1>5 DEF p

\* The path of an attribute begins with paths of objects that it is in.
LEMMA PrefixOfAttr ==
  ASSUME NEW a \in Path, NEW o \in Path, NEW n \in Word
  PROVE  IsPrefix(a, Attr(o, n)) <=> a = Attr(o, n) \/ IsPrefix(a, o)
<1>1. <<n, 0>> \in Step
  BY DEF Step
<1> QED
  BY <1>1, PrefixStep DEF Attr

\* The path of an object begins with paths of lists and objects that it is in.
LEMMA PrefixOfObject ==
  ASSUME NEW a \in Path, NEW p \in Path, NEW i \in Nat
  PROVE  IsPrefix(a, Object(p, i)) <=> a = Object(p, i) \/ IsPrefix(a, p)
<1>1. <<Null, i>> \in Step
  BY NullIs DEF Step
<1> QED
  BY <1>1, PrefixStep DEF Object

\* Only the empty path begins the empty path.
LEMMA PrefixOfRoot ==
  ASSUME NEW a \in Path
  PROVE  /\ IsPrefix(a, <<>>) => a = <<>>
         /\ IsPrefix(a, a)
         /\ <<>> \in Path
         /\ a # <<>> => Len(a) > 0
<1>1. <<>> \in Path /\ Len(<<>>) = 0 /\ Len(a) \in Nat
  BY EmptySeq DEF Path
<1>2. a # <<>> => Len(a) > 0
  BY EmptySeq DEF Path
<1> QED
  BY <1>1, <1>2, PrefixIs

\* Paths begin paths that begin others.
LEMMA PrefixOfPrefix ==
  ASSUME NEW a \in Path, NEW p \in Path, NEW q \in Path,
         IsPrefix(a, p), IsPrefix(p, q)
  PROVE  IsPrefix(a, q)
<1>1. Len(a) \in Nat /\ Len(p) \in Nat /\ Len(q) \in Nat
  BY DEF Path
<1>2. /\ Len(a) <= Len(p) /\ \A k \in 1..Len(a) : a[k] = p[k]
      /\ Len(p) <= Len(q) /\ \A k \in 1..Len(p) : p[k] = q[k]
  BY PrefixIs
<1>3. Len(a) <= Len(q) /\ \A k \in 1..Len(a) : a[k] = q[k]
  BY <1>1, <1>2
<1> QED
  BY <1>3, PrefixIs

\* The path of what is at path x in the object at path p.
LEMMA Joined ==
  ASSUME NEW p \in Path, NEW x \in Path
  PROVE  /\ p \o x \in Path /\ Len(p \o x) = Len(p) + Len(x)
         /\ IsPrefix(p, p \o x)
         /\ After(p \o x, Len(p)) = x
         /\ p \o <<>> = p /\ <<>> \o p = p
<1>1. Len(p) \in Nat /\ Len(x) \in Nat
  BY DEF Path
<1>2. /\ p \o x \in Path /\ Len(p \o x) = Len(p) + Len(x)
      /\ \A k \in 1..(Len(p) + Len(x)) :
           (p \o x)[k] = IF k <= Len(p) THEN p[k] ELSE x[k - Len(p)]
  BY ConcatProperties DEF Path
<1>3. p \o <<>> = p /\ <<>> \o p = p
  BY ConcatEmptySeq DEF Path
<1>4. PICK y \in Path : y = p \o x
  BY <1>2
<1>5. /\ Len(y) = Len(p) + Len(x)
      /\ \A k \in 1..Len(p) : y[k] = p[k]
      /\ \A k \in 1..Len(x) : y[k + Len(p)] = x[k]
  <2>1. \A k \in 1..Len(p) : k \in 1..(Len(p) + Len(x)) /\ k <= Len(p)
    BY <1>1
  <2>2. \A k \in 1..Len(x) : /\ k + Len(p) \in 1..(Len(p) + Len(x))
                             /\ ~(k + Len(p) <= Len(p))
                             /\ (k + Len(p)) - Len(p) = k
    BY <1>1
  <2> QED
    BY <1>2, <1>4, <2>1, <2>2
<1>6. IsPrefix(p, y)
  BY <1>1, <1>5, PrefixIs
<1>7. After(y, Len(p)) = x
  <2>1. PICK m \in Nat, n \in Nat : m = Len(p) + 1 /\ n = Len(y)
    BY <1>1, <1>5
  <2>2. \A i \in m..n : y[i] \in Step
    <3>1. \A i \in m..n : i \in 1..Len(y)
      BY <1>1, <2>1
    <3> QED
      BY <3>1, ElementOfSeq DEF Path
  <2>3. /\ SubSeq(y, m, n) \in Path
        /\ Len(SubSeq(y, m, n)) = IF m <= n THEN n - m + 1 ELSE 0
        /\ \A i \in 1..(n - m + 1) : SubSeq(y, m, n)[i] = y[m + i - 1]
    BY <2>2, SubSeqProperties DEF Path
  <2>4. n - m + 1 = Len(x) /\ (m <= n <=> Len(x) > 0)
    BY <1>1, <1>5, <2>1
  <2>5. Len(SubSeq(y, m, n)) = Len(x)
    BY <1>1, <2>3, <2>4
  <2>6. \A i \in 1..Len(x) : m + i - 1 = i + Len(p)
    BY <1>1, <2>1
  <2>7. \A i \in 1..Len(x) : SubSeq(y, m, n)[i] = x[i]
    BY <1>5, <2>3, <2>4, <2>6
  <2>8. SubSeq(y, m, n) = x
    BY <2>3, <2>5, <2>7, SamePath
  <2> QED
    BY <2>1, <2>8 DEF After
<1> QED
  BY <1>2, <1>3, <1>4, <1>6, <1>7

\* Attributes and objects are in the same places below any object.
LEMMA JoinedStep ==
  ASSUME NEW p \in Path, NEW x \in Path
  PROVE  /\ \A n \in Word : p \o Attr(x, n) = Attr(p \o x, n)
         /\ \A i \in Nat : p \o Object(x, i) = Object(p \o x, i)
<1>1. ASSUME NEW e \in Step PROVE p \o Append(x, e) = Append(p \o x, e)
  <2>1. p \in Seq(Step) /\ x \in Seq(Step) /\ <<e>> \in Seq(Step)
    BY DEF Path
  <2>2. p \o x \in Seq(Step)
    BY <2>1, ConcatProperties
  <2>3. Append(x, e) = x \o <<e>> /\ Append(p \o x, e) = (p \o x) \o <<e>>
    BY <2>1, <2>2, AppendIsConcat
  <2> QED
    BY <2>1, <2>3, ConcatAssociative
<1>2. \A n \in Word : <<n, 0>> \in Step
  BY DEF Step
<1>3. \A i \in Nat : <<Null, i>> \in Step
  BY NullIs DEF Step
<1> QED
  BY <1>1, <1>2, <1>3 DEF Attr, Object

\* Different places in an object have different paths.
LEMMA JoinedApart ==
  ASSUME NEW p \in Path, NEW x \in Path, NEW y \in Path
  PROVE  /\ p \o x = p \o y => x = y
         /\ p \o x = <<>> => p = <<>>
<1>1. ASSUME p \o x = p \o y PROVE x = y
  <2>1. After(p \o x, Len(p)) = x
    BY Joined
  <2>2. After(p \o y, Len(p)) = y
    BY Joined
  <2> QED
    BY <1>1, <2>1, <2>2
<1>2. p \o x = <<>> => p = <<>>
  BY ConcatEqualIffEmpty, EmptySeq DEF Path
<1> QED
  BY <1>1, <1>2

-----------------------------------------------------------------------------
(***************************************************************************)
(* Trees.                                                                  *)
(***************************************************************************)

\* Functions and sequences, of whatever values.
IsFun(f) == f = [x \in DOMAIN f |-> f[x]]
IsSeq(f) == \E S : f \in Seq(S)

\* A parameter and a list have the fields that NewParam and ListInit give them.
IsParam(x) ==
  /\ x = [value |-> x.value, notification |-> x.notification, access |-> x.access]
  /\ IsSeq(x.access)

IsList(x) == x = [limit |-> x.limit, slots |-> x.slots] /\ x.slots \in Seq(BOOLEAN)

\* What is a tree, whatever the model is.
IsTree(t) ==
  /\ t = [rc |-> t.rc, attr |-> t.attr, param |-> t.param, list |-> t.list]
  /\ IsFun(t.attr) /\ IsFun(t.param) /\ IsFun(t.list)
  /\ \A p \in DOMAIN t.param : IsParam(t.param[p])
  /\ \A p \in DOMAIN t.list : IsList(t.list[p])

\* In tree t, whose root is of class c, there is an object of class d at o.
IsObj(s, t, c, o, d) ==
  \/ o = <<>> /\ d = c
  \/ o \in DOMAIN t.attr /\ s[t.attr[o]].type = "object" /\ d = t.attr[o]
  \/ \E p \in DOMAIN t.list : \E i \in Taken(t.list[p]) :
       o = Object(p, i) /\ d = t.attr[p]

\* Attribute i of the object at o is there: of the root those of R are, of
\* the objects in X none.
Has(R, X, o, i) == o \notin X /\ (o = <<>> => i \in R)

\* Each attribute is one of an object, and has a schema of its class.
InObject(s, t, c, R, X, q) ==
  /\ q \in Path
  /\ t.attr[q] \in DOMAIN s
  /\ \E o \in Path : /\ IsObj(s, t, c, o, s[t.attr[q]].owner)
                     /\ Has(R, X, o, t.attr[q])
                     /\ q = Attr(o, s[t.attr[q]].name)

\* Tree t, whose root is of class c, fits the model.
Fits(s, t, c, R, X) ==
  /\ IsTree(t)
  /\ \A q \in DOMAIN t.attr : InObject(s, t, c, R, X, q)
  /\ \A o \in Path, d \in 0..Len(s), i \in DOMAIN s :
       IsObj(s, t, c, o, d) /\ s[i].owner = d /\ Has(R, X, o, i) =>
         Attr(o, s[i].name) \in DOMAIN t.attr
  /\ DOMAIN t.list = {q \in DOMAIN t.attr : s[t.attr[q]].type = "multiple"}
  /\ DOMAIN t.param =
       {q \in DOMAIN t.attr : s[t.attr[q]].type \notin {"object", "multiple"}}
  /\ \A p \in DOMAIN t.list : NewObject(s)[t.attr[p]].rc = "ok"

\* Schemas as the reader makes them: the class of a schema comes before it.
SchemaIn(S) ==
  [owner : Nat, name : Word, type : S, constraint : S, default : S, number : S]

\* What the reader guarantees of the schemas.
Model(s) ==
  /\ \E S : s \in Seq(SchemaIn(S))
  /\ \A i \in DOMAIN s : s[i].owner < i

\* What is known of the schemas of a model.
LEMMA ModelIs ==
  ASSUME NEW s, Model(s)
  PROVE  /\ Len(s) \in Nat /\ DOMAIN s = 1..Len(s) /\ DOMAIN s \subseteq Nat
         /\ \A i \in DOMAIN s : /\ s[i].owner \in Nat /\ s[i].owner < i
                                /\ s[i].owner \in 0..Len(s)
                                /\ s[i].name \in Word
<1>1. PICK S : s \in Seq(SchemaIn(S))
  BY DEF Model
<1>2. Len(s) \in Nat /\ DOMAIN s = 1..Len(s)
  BY <1>1
<1>3. \A i \in DOMAIN s : s[i] \in SchemaIn(S)
  BY <1>1
<1>4. \A i \in DOMAIN s : s[i].owner \in Nat /\ s[i].name \in Word
  BY <1>3 DEF SchemaIn
<1>5. \A i \in DOMAIN s : s[i].owner < i
  BY DEF Model
<1>6. ASSUME NEW i \in DOMAIN s PROVE s[i].owner \in 0..Len(s)
  BY <1>2, <1>4, <1>5
<1> QED
  BY <1>2, <1>4, <1>5, <1>6

\* The slots that hold an object have numbers from 1 on.
LEMMA TakenIs ==
  ASSUME NEW x, IsList(x)
  PROVE  Taken(x) = {i \in 1..Len(x.slots) : x.slots[i]} /\ Taken(x) \subseteq Nat \ {0}
<1>1. PICK f \in Seq(BOOLEAN) : f = x.slots
  BY DEF IsList
<1>2. DOMAIN f = 1..Len(f) /\ Len(f) \in Nat
  OBVIOUS
<1>3. \A i \in 1..Len(f) : f[i] \in BOOLEAN
  OBVIOUS
<1>4. \A i \in 1..Len(f) : f[i] # FALSE <=> f[i]
  BY <1>3, Zenon
<1>5. Live(f, FALSE) = {i \in 1..Len(f) : f[i]}
  BY <1>2, <1>4, Zenon DEF Live
<1>6. {i \in 1..Len(f) : f[i]} \subseteq Nat \ {0}
  BY <1>2
<1> QED
  BY <1>1, <1>5, <1>6 DEF Taken

\* An object has one class, and is the root, an attribute or in a list.
LEMMA ObjectOfOneClass ==
  ASSUME NEW s, Model(s), NEW t, NEW c, NEW R, NEW X, Fits(s, t, c, R, X),
         NEW o, NEW d, NEW e, IsObj(s, t, c, o, d), IsObj(s, t, c, o, e)
  PROVE  d = e
<1>1. ASSUME o \in DOMAIN t.attr, NEW p \in DOMAIN t.list, NEW i \in Taken(t.list[p]),
             o = Object(p, i)
      PROVE  FALSE
  <2>1. /\ t.attr[o] \in DOMAIN s
        /\ \E x \in Path : o = Attr(x, s[t.attr[o]].name)
    BY <1>1 DEF Fits, InObject
  <2>2. p \in Path /\ i \in Nat \ {0}
    BY <1>1, TakenIs DEF Fits, InObject, IsTree
  <2> QED
    BY <1>1, <2>1, <2>2, ModelIs, Apart
<1>2. <<>> \notin DOMAIN t.attr
  <2>1. ASSUME <<>> \in DOMAIN t.attr PROVE FALSE
    <3>1. /\ t.attr[<<>>] \in DOMAIN s
          /\ \E x \in Path : <<>> = Attr(x, s[t.attr[<<>>]].name)
      BY <2>1 DEF Fits, InObject
    <3> QED
      BY <3>1, ModelIs, AttrIs
  <2> QED
    BY <2>1
<1>3. ASSUME NEW p \in DOMAIN t.list, NEW i \in Taken(t.list[p]) PROVE Object(p, i) # <<>>
  <2>1. p \in Path /\ i \in Nat \ {0}
    BY <1>3, TakenIs DEF Fits, InObject, IsTree
  <2> QED
    BY <2>1, ObjectIs
<1>4. ASSUME NEW p \in DOMAIN t.list, NEW i \in Taken(t.list[p]),
             NEW q \in DOMAIN t.list, NEW j \in Taken(t.list[q]),
             Object(p, i) = Object(q, j)
      PROVE  p = q
  <2>1. p \in Path /\ i \in Nat \ {0} /\ q \in Path /\ j \in Nat \ {0}
    BY <1>4, TakenIs DEF Fits, InObject, IsTree
  <2> QED
    BY <1>4, <2>1, Apart
<1>5. CASE o = <<>>
  BY <1>2, <1>3, <1>5 DEF IsObj
<1>6. CASE o \in DOMAIN t.attr
  BY <1>1, <1>2, <1>6 DEF IsObj
<1>7. CASE \E p \in DOMAIN t.list : \E i \in Taken(t.list[p]) : o = Object(p, i)
  <2>1. o # <<>> /\ o \notin DOMAIN t.attr
    BY <1>1, <1>3, <1>7
  <2> QED
    BY <1>4, <2>1 DEF IsObj
<1> QED
  BY <1>5, <1>6, <1>7 DEF IsObj

\* Objects have paths.
LEMMA ObjectHasPath ==
  ASSUME NEW s, Model(s), NEW t, NEW c \in 0..Len(s), NEW R, NEW X, Fits(s, t, c, R, X),
         NEW o, NEW d, IsObj(s, t, c, o, d)
  PROVE  o \in Path /\ d \in 0..Len(s)
<1>1. \A q \in DOMAIN t.attr : q \in Path /\ t.attr[q] \in DOMAIN s
  BY DEF Fits, InObject
<1>2. \A p \in DOMAIN t.list : p \in DOMAIN t.attr /\ Taken(t.list[p]) \subseteq Nat \ {0}
  BY TakenIs DEF Fits, IsTree
<1>3. DOMAIN s \subseteq 0..Len(s)
  BY ModelIs
<1>4. <<>> \in Path
  BY EmptySeq DEF Path
<1>5. ASSUME NEW p \in DOMAIN t.list, NEW i \in Taken(t.list[p]) PROVE Object(p, i) \in Path
  BY <1>1, <1>2, ObjectIs
<1> QED
  BY <1>1, <1>2, <1>3, <1>4, <1>5 DEF IsObj

\* Below an object that has no attributes there is nothing.
LEMMA NothingBelow ==
  ASSUME NEW s, Model(s), NEW t, NEW c \in 0..Len(s), NEW R, NEW X, Fits(s, t, c, R, X),
         NEW o \in X, NEW d, IsObj(s, t, c, o, d), o # <<>>
  PROVE  \A q \in DOMAIN t.attr : IsPrefix(o, q) => q = o
<1>0. o \in Path
  BY ObjectHasPath
<1> DEFINE S == {n \in Nat : \A q \in DOMAIN t.attr : Len(q) = n /\ IsPrefix(o, q) => q = o}
<1>1. ASSUME NEW m \in Nat, \A k \in Nat : k < m => k \in S,
             NEW q \in DOMAIN t.attr, Len(q) = m, IsPrefix(o, q), q # o
      PROVE  FALSE
  <2>1. PICK x \in Path : /\ IsObj(s, t, c, x, s[t.attr[q]].owner)
                          /\ x \notin X
                          /\ q = Attr(x, s[t.attr[q]].name)
    BY DEF Fits, InObject, Has
  <2>2. s[t.attr[q]].name \in Word
    BY ModelIs DEF Fits, InObject
  <2>3. IsPrefix(o, x)
    BY <1>0, <1>1, <2>1, <2>2, PrefixOfAttr
  <2>4. Len(x) \in Nat /\ m = Len(x) + 1
    BY <1>1, <2>1, <2>2, AttrIs
  <2>5. x # o
    BY <2>1
  <2>6. x # <<>>
    BY <1>0, <2>3, PrefixOfRoot
  <2>7. CASE x \in DOMAIN t.attr
    <3>1. Len(x) \in S
      BY <1>1, <2>4
    <3> QED
      BY <2>3, <2>5, <2>7, <3>1
  <2>8. ASSUME NEW p \in DOMAIN t.list, NEW i \in Taken(t.list[p]), x = Object(p, i)
        PROVE  FALSE
    <3>1. p \in Path /\ p \in DOMAIN t.attr /\ i \in Nat \ {0}
          /\ s[t.attr[p]].type = "multiple"
      BY <2>8, TakenIs DEF Fits, InObject, IsTree
    <3>2. IsPrefix(o, p) /\ Len(p) \in Nat /\ Len(x) = Len(p) + 1
      BY <1>0, <2>3, <2>5, <2>8, <3>1, PrefixOfObject, ObjectIs
    <3>3. Len(p) \in S
      BY <1>1, <2>4, <3>2
    <3>4. p = o
      BY <3>1, <3>2, <3>3
    <3>5. ASSUME NEW y \in DOMAIN t.list, NEW j \in Taken(t.list[y]), o = Object(y, j)
          PROVE  FALSE
      <4>1. y \in Path /\ j \in Nat \ {0}
        BY <3>5, TakenIs DEF Fits, InObject, IsTree
      <4>2. \E z \in Path : \E n \in Word : p = Attr(z, n)
        BY <3>1, ModelIs DEF Fits, InObject
      <4> QED
        BY <3>4, <3>5, <4>1, <4>2, Apart
    <3> QED
      BY <3>1, <3>4, <3>5 DEF IsObj
  <2> QED
    BY <2>1, <2>6, <2>7, <2>8 DEF IsObj
<1>2. \A m \in Nat : (\A k \in Nat : k < m => k \in S) => m \in S
  BY <1>1
<1>3. \A n \in Nat : n \in S
  <2> HIDE DEF S
  <2> QED
    BY <1>2, Induct
<1>4. \A q \in DOMAIN t.attr : Len(q) \in Nat
  BY DEF Fits, InObject, Path
<1> QED
  BY <1>3, <1>4

-----------------------------------------------------------------------------
(***************************************************************************)
(* Steps that keep the attributes and lists, and the slots of a list.      *)
(***************************************************************************)

\* Tree u has the attributes and the lists of tree t.
Keeps(t, u) ==
  /\ IsTree(u)
  /\ u.attr = t.attr /\ u.list = t.list /\ DOMAIN u.param = DOMAIN t.param

\* A tree that has the same attributes and lists fits the model as well.
LEMMA KeepsFits ==
  ASSUME NEW s, NEW t, NEW c, NEW R, NEW X, Fits(s, t, c, R, X), NEW u, Keeps(t, u)
  PROVE  Fits(s, u, c, R, X)
<1>1. u.attr = t.attr /\ u.list = t.list /\ DOMAIN u.param = DOMAIN t.param /\ IsTree(u)
  BY DEF Keeps
<1>2. \A o, d : IsObj(s, u, c, o, d) <=> IsObj(s, t, c, o, d)
  BY <1>1 DEF IsObj
<1>3. \A q : InObject(s, u, c, R, X, q) <=> InObject(s, t, c, R, X, q)
  BY <1>1, <1>2 DEF InObject
<1> QED
  BY <1>1, <1>2, <1>3 DEF Fits

\* A function that fails keeps the attributes and the lists.
LEMMA FailsKeeps ==
  ASSUME NEW t, IsTree(t), NEW rc
  PROVE  Keeps(t, Fails(t, rc)) /\ Fails(t, rc).rc = rc
<1>1. /\ t = [rc |-> t.rc, attr |-> t.attr, param |-> t.param, list |-> t.list]
      /\ Fails(t, rc) = [t EXCEPT !.rc = rc]
  BY DEF IsTree, Fails
<1>2. Fails(t, rc) = [rc |-> rc, attr |-> t.attr, param |-> t.param, list |-> t.list]
  BY <1>1
<1> QED
  BY <1>2 DEF Keeps, IsTree

\* A parameter of a tree is changed.
LEMMA ParamKeeps ==
  ASSUME NEW t, IsTree(t), NEW p \in DOMAIN t.param, NEW v, IsParam(v)
  PROVE  LET u == [t EXCEPT !.param[p] = v] IN Keeps(t, u) /\ u.rc = t.rc
<1> DEFINE u == [t EXCEPT !.param[p] = v]
           f == [t.param EXCEPT ![p] = v]
<1>1. t = [rc |-> t.rc, attr |-> t.attr, param |-> t.param, list |-> t.list]
  BY DEF IsTree
<1>2. u = [rc |-> t.rc, attr |-> t.attr, param |-> f, list |-> t.list]
  BY <1>1
<1>3. IsFun(f) /\ DOMAIN f = DOMAIN t.param
      /\ \A q \in DOMAIN f : f[q] = IF q = p THEN v ELSE t.param[q]
  BY DEF IsFun
<1> HIDE DEF f
<1> QED
  BY <1>2, <1>3 DEF Keeps, IsTree

\* A parameter stays one with another value, notification or access list.
LEMMA ParamIs ==
  ASSUME NEW x, IsParam(x), NEW v
  PROVE  /\ IsParam([x EXCEPT !.value = v])
         /\ IsParam([x EXCEPT !.notification = v])
         /\ IsParam([x EXCEPT !.access = Append(@, v)])
<1>1. x = [value |-> x.value, notification |-> x.notification, access |-> x.access]
  BY DEF IsParam
<1>2. PICK S : x.access \in Seq(S)
  BY DEF IsParam, IsSeq
<1>3. Append(x.access, v) \in Seq(S \cup {v})
  <2>1. x.access \in Seq(S \cup {v}) /\ v \in S \cup {v}
    BY <1>2, SeqMonotonic
  <2> QED
    BY <2>1, AppendProperties
<1>4. IsSeq(x.access) /\ IsSeq(Append(x.access, v))
  BY <1>2, <1>3 DEF IsSeq
<1>5. [x EXCEPT !.value = v]
        = [value |-> v, notification |-> x.notification, access |-> x.access]
  BY <1>1
<1>6. [x EXCEPT !.notification = v]
        = [value |-> x.value, notification |-> v, access |-> x.access]
  BY <1>1
<1>7. [x EXCEPT !.access = Append(@, v)]
        = [value |-> x.value, notification |-> x.notification,
           access |-> Append(x.access, v)]
  BY <1>1
<1> QED
  BY <1>4, <1>5, <1>6, <1>7 DEF IsParam

\* evcpe_attr_set and evcpe_obj_set_int keep the attributes and the lists.
LEMMA AttrSetKeeps ==
  ASSUME NEW s, NEW t, IsTree(t), NEW p, NEW text
  PROVE  /\ Keeps(t, AttrSet(s, t, p, text))
         /\ IF p \in DOMAIN t.param
               /\ Validates(s[t.attr[p]].type, text, s[t.attr[p]].constraint)
              THEN AttrSet(s, t, p, text).rc = t.rc
              ELSE AttrSet(s, t, p, text).rc = "fault"
<1> DEFINE valid == Validates(s[t.attr[p]].type, text, s[t.attr[p]].constraint)
<1>1. CASE p \in DOMAIN t.param /\ valid
  <2>1. AttrSet(s, t, p, text) = [t EXCEPT !.param[p] = [t.param[p] EXCEPT !.value = text]]
    BY <1>1 DEF AttrSet
  <2>2. IsParam([t.param[p] EXCEPT !.value = text])
    BY <1>1, ParamIs DEF IsTree
  <2> QED
    BY <1>1, <2>1, <2>2, ParamKeeps
<1>2. CASE ~(p \in DOMAIN t.param /\ valid)
  <2>1. AttrSet(s, t, p, text) = Fails(t, "fault")
    BY <1>2 DEF AttrSet
  <2> QED
    BY <1>2, <2>1, FailsKeeps
<1> QED
  BY <1>1, <1>2

\* Counting the objects of a list does so too.
LEMMA CountKeeps ==
  ASSUME NEW s, NEW t, IsTree(t), NEW obj, NEW i, NEW n
  PROVE  Keeps(t, Count(s, t, obj, i, n))
<1>1. Keeps(t, t)
  BY DEF Keeps
<1>2. Keeps(t, Fails(t, "fault"))
  BY FailsKeeps
<1> QED
  BY <1>1, <1>2, AttrSetKeeps DEF Count, SetInt

\* evcpe_attr_add_obj takes a slot that holds no object, or the next one.
LEMMA FirstFreeIs ==
  ASSUME NEW S, NEW f \in Seq(S), NEW e
  PROVE  IF Vacant(f, e) = {} THEN FirstFree(f, e) = Len(f) + 1
                              ELSE FirstFree(f, e) \in Vacant(f, e)
<1>1. Vacant(f, e) \in SUBSET Nat
  BY DEF Vacant
<1>2. Vacant(f, e) # {} => \E i \in Vacant(f, e) : \A j \in Vacant(f, e) : i <= j
  BY <1>1, HasLeast
<1> QED
  BY <1>2 DEF FirstFree

\* Filling it adds one object and moves none.
LEMMA FillIs ==
  ASSUME NEW S, NEW f \in Seq(S), NEW e, NEW x \in S, x # e,
         NEW i, i = FirstFree(f, e)
  PROVE  /\ Fill(f, i, x) \in Seq(S) /\ i \in 1..Len(Fill(f, i, x)) /\ i \in Nat \ {0}
         /\ Live(Fill(f, i, x), e) = Live(f, e) \cup {i} /\ i \notin Live(f, e)
<1> DEFINE g == Fill(f, i, x)
<1>0. Len(f) \in Nat /\ DOMAIN f = 1..Len(f)
  OBVIOUS
<1>1. CASE Vacant(f, e) = {}
  <2>1. i = Len(f) + 1
    BY <1>1, FirstFreeIs
  <2>2. g = Append(f, x)
    <3>1. i > Len(f)
      BY <1>0, <2>1
    <3> QED
      BY <3>1 DEF Fill
  <2>3. /\ g \in Seq(S) /\ DOMAIN g = 1..Len(g) /\ Len(g) = Len(f) + 1
        /\ g[i] = x
        /\ \A j \in 1..Len(f) : g[j] = f[j]
    BY <1>0, <2>1, <2>2, AppendProperties
  <2>4. 1..Len(g) = 1..Len(f) \cup {i} /\ i \notin 1..Len(f) /\ i \in Nat \ {0}
    BY <1>0, <2>1, <2>3
  <2>5. Live(g, e) = Live(f, e) \cup {i} /\ i \notin Live(f, e)
    BY <1>0, <2>3, <2>4 DEF Live
  <2> QED
    BY <2>3, <2>4, <2>5
<1>2. CASE Vacant(f, e) # {}
  <2>1. i \in 1..Len(f) /\ f[i] = e
    BY <1>0, <1>2, FirstFreeIs DEF Vacant
  <2>2. g = [f EXCEPT ![i] = x]
    <3>1. ~(i > Len(f))
      BY <1>0, <2>1
    <3> QED
      BY <3>1 DEF Fill
  <2>3. /\ g \in Seq(S) /\ DOMAIN g = 1..Len(g) /\ Len(g) = Len(f)
        /\ g[i] = x
        /\ \A j \in 1..Len(f) : j # i => g[j] = f[j]
    BY <1>0, <2>1, <2>2, ExceptSeq
  <2>4. i \in 1..Len(g) /\ i \in Nat \ {0}
    BY <1>0, <2>1, <2>3
  <2>5. Live(g, e) = Live(f, e) \cup {i} /\ i \notin Live(f, e)
    BY <1>0, <2>1, <2>3 DEF Live
  <2> QED
    BY <2>3, <2>4, <2>5
<1> QED
  BY <1>1, <1>2

\* Slot i of list p is filled.
Filled(t, p, i) == [t EXCEPT !.list[p].slots = Fill(@, i, TRUE)]

\* A new object has no attributes, if it was not there before.
LEMMA FillFits ==
  ASSUME NEW s, Model(s), NEW t, NEW c \in 0..Len(s), NEW R, Fits(s, t, c, R, {}),
         NEW p \in DOMAIN t.list
  PROVE  LET i == FirstFree(t.list[p].slots, FALSE)
             u == Filled(t, p, i)
         IN  /\ Fits(s, u, c, R, {Object(p, i)})
             /\ IsObj(s, u, c, Object(p, i), t.attr[p])
             /\ Object(p, i) # <<>>
             /\ t.attr[p] \in DOMAIN s
             /\ u.attr = t.attr /\ u.param = t.param /\ u.rc = t.rc
<1>a. PICK i : i = FirstFree(t.list[p].slots, FALSE)
  OBVIOUS
<1>b. PICK u : u = Filled(t, p, i)
  OBVIOUS
<1>1. PICK f \in Seq(BOOLEAN) : f = t.list[p].slots
  BY DEF Fits, IsTree, IsList
<1>2. IF Vacant(f, FALSE) = {} THEN i = Len(f) + 1 ELSE i \in Vacant(f, FALSE)
  <2>1. i = FirstFree(f, FALSE)
    BY <1>1, <1>a
  <2> QED
    BY <2>1, FirstFreeIs
<1> DEFINE g == Fill(f, i, TRUE)
           x == [t.list[p] EXCEPT !.slots = g]
           list == [t.list EXCEPT ![p] = x]
<1>3. g \in Seq(BOOLEAN) /\ i \in 1..Len(g) /\ i \in Nat \ {0}
      /\ Live(g, FALSE) = Live(f, FALSE) \cup {i} /\ i \notin Live(f, FALSE)
  <2>1. \A e, y \in BOOLEAN : y # e /\ i = FirstFree(f, e) =>
          /\ Fill(f, i, y) \in Seq(BOOLEAN) /\ i \in 1..Len(Fill(f, i, y))
          /\ i \in Nat \ {0}
          /\ Live(Fill(f, i, y), e) = Live(f, e) \cup {i} /\ i \notin Live(f, e)
    <3> TAKE e, y \in BOOLEAN
    <3> HAVE y # e /\ i = FirstFree(f, e)
    <3>1. PICK B : B = BOOLEAN
      OBVIOUS
    <3>2. f \in Seq(B) /\ e \in B /\ y \in B
      BY <3>1, Zenon
    <3>3. /\ Fill(f, i, y) \in Seq(B) /\ i \in 1..Len(Fill(f, i, y))
          /\ i \in Nat \ {0}
          /\ Live(Fill(f, i, y), e) = Live(f, e) \cup {i} /\ i \notin Live(f, e)
      BY <3>2, FillIs
    <3> QED
      BY <3>1, <3>3, Zenon
  <2>2. TRUE \in BOOLEAN /\ FALSE \in BOOLEAN /\ TRUE # FALSE
    OBVIOUS
  <2>3. i = FirstFree(f, FALSE)
    BY <1>1, <1>a
  <2> QED
    BY <2>1, <2>2, <2>3, Zenon
<1> HIDE DEF g
<1>4. IsList(x) /\ x.slots = g
  <2>1. t.list[p] = [limit |-> t.list[p].limit, slots |-> t.list[p].slots]
    BY DEF Fits, IsTree, IsList
  <2>2. x = [limit |-> t.list[p].limit, slots |-> g]
    BY <2>1
  <2> QED
    BY <1>3, <2>2 DEF IsList
<1> HIDE DEF x
<1>5. /\ IsFun(list) /\ DOMAIN list = DOMAIN t.list
      /\ list[p] = x
      /\ \A q \in DOMAIN t.list : q # p => list[q] = t.list[q]
  BY DEF IsFun
<1>6. u = [rc |-> t.rc, attr |-> t.attr, param |-> t.param, list |-> list]
  <2>1. t = [rc |-> t.rc, attr |-> t.attr, param |-> t.param, list |-> t.list]
    BY DEF Fits, IsTree
  <2>2. u = [t EXCEPT !.list = list]
    BY <1>1, <1>b DEF g, x, Filled
  <2> HIDE DEF list
  <2> QED
    BY <2>1, <2>2
<1> HIDE DEF list
<1>7. IsTree(u)
  <2>1. /\ IsFun(t.attr) /\ IsFun(t.param)
        /\ \A q \in DOMAIN t.param : IsParam(t.param[q])
        /\ \A q \in DOMAIN t.list : IsList(t.list[q])
    BY DEF Fits, IsTree
  <2>2. \A q \in DOMAIN list : IsList(list[q])
    BY <1>4, <1>5, <2>1
  <2>3. /\ u = [rc |-> u.rc, attr |-> u.attr, param |-> u.param, list |-> u.list]
        /\ u.attr = t.attr /\ u.param = t.param /\ u.list = list
    BY <1>6
  <2> QED
    BY <1>5, <2>1, <2>2, <2>3 DEF IsTree
<1>8. /\ Taken(list[p]) = Taken(t.list[p]) \cup {i}
      /\ i \notin Taken(t.list[p])
      /\ \A q \in DOMAIN t.list : q # p => Taken(list[q]) = Taken(t.list[q])
  BY <1>1, <1>3, <1>4, <1>5 DEF Taken
<1>9. \A q \in DOMAIN t.list : /\ q \in DOMAIN t.attr /\ q \in Path
                                /\ t.attr[q] \in DOMAIN s
                                /\ Taken(t.list[q]) \subseteq Nat
  BY TakenIs DEF Fits, InObject, IsTree
<1> DEFINE obj == Object(p, i)
<1>10. \A o, d : IsObj(s, u, c, o, d) <=> IsObj(s, t, c, o, d) \/ (o = obj /\ d = t.attr[p])
  <2> DEFINE In(l, o, d) == \E q \in DOMAIN l : \E j \in Taken(l[q]) :
                              o = Object(q, j) /\ d = t.attr[q]
             Other(o, d) == \/ o = <<>> /\ d = c
                            \/ /\ o \in DOMAIN t.attr /\ s[t.attr[o]].type = "object"
                               /\ d = t.attr[o]
  <2>1. \A o, d : In(list, o, d) <=> In(t.list, o, d) \/ (o = obj /\ d = t.attr[p])
    BY <1>5, <1>8
  <2>2. u.attr = t.attr /\ u.list = list
    BY <1>6
  <2>3. \A o, d : IsObj(s, u, c, o, d) <=> Other(o, d) \/ In(list, o, d)
    BY <2>2 DEF IsObj
  <2>4. \A o, d : IsObj(s, t, c, o, d) <=> Other(o, d) \/ In(t.list, o, d)
    BY DEF IsObj
  <2> HIDE DEF In, Other
  <2> QED
    BY <2>1, <2>3, <2>4
<1>11. obj \in Path /\ obj # <<>>
  BY <1>3, <1>9, ObjectIs
<1>12. ASSUME NEW d, IsObj(s, t, c, obj, d) PROVE FALSE
  <2>1. CASE obj \in DOMAIN t.attr
    <3>1. \E o \in Path : \E n \in Word : obj = Attr(o, n)
      BY <2>1, ModelIs DEF Fits, InObject
    <3> QED
      BY <1>3, <1>9, <3>1, Apart
  <2>2. ASSUME NEW q \in DOMAIN t.list, NEW j \in Taken(t.list[q]), obj = Object(q, j)
        PROVE  FALSE
    <3>1. q \in Path /\ p \in Path /\ j \in Nat /\ i \in Nat /\ Object(p, i) = Object(q, j)
      BY <1>3, <1>9, <2>2
    <3>2. q = p /\ j = i
      BY <3>1, Apart
    <3> QED
      BY <1>8, <2>2, <3>2
  <2> QED
    BY <1>11, <1>12, <2>1, <2>2 DEF IsObj
<1>13. ASSUME NEW q \in DOMAIN u.attr PROVE InObject(s, u, c, R, {obj}, q)
  <2>1. /\ q \in Path /\ t.attr[q] \in DOMAIN s
        /\ \E o \in Path : /\ IsObj(s, t, c, o, s[t.attr[q]].owner)
                           /\ Has(R, {}, o, t.attr[q])
                           /\ q = Attr(o, s[t.attr[q]].name)
    BY <1>6, <1>13 DEF Fits, InObject
  <2>2. u.attr[q] = t.attr[q]
    BY <1>6
  <2>3. PICK o \in Path : /\ IsObj(s, t, c, o, s[t.attr[q]].owner)
                          /\ Has(R, {}, o, t.attr[q])
                          /\ q = Attr(o, s[t.attr[q]].name)
    BY <2>1
  <2>4. o # obj /\ IsObj(s, u, c, o, s[t.attr[q]].owner)
    BY <1>10, <1>12, <2>3
  <2>5. Has(R, {obj}, o, t.attr[q])
    BY <2>3, <2>4 DEF Has
  <2> QED
    BY <2>1, <2>2, <2>3, <2>4, <2>5 DEF InObject
<1>14. ASSUME NEW o \in Path, NEW d \in 0..Len(s), NEW j \in DOMAIN s,
              IsObj(s, u, c, o, d), s[j].owner = d, Has(R, {obj}, o, j)
       PROVE  Attr(o, s[j].name) \in DOMAIN u.attr
  <2>1. IsObj(s, t, c, o, d) /\ Has(R, {}, o, j)
    BY <1>10, <1>14 DEF Has
  <2> QED
    BY <1>6, <1>14, <2>1 DEF Fits
<1>15. /\ DOMAIN u.list = {q \in DOMAIN u.attr : s[u.attr[q]].type = "multiple"}
       /\ DOMAIN u.param =
            {q \in DOMAIN u.attr : s[u.attr[q]].type \notin {"object", "multiple"}}
       /\ \A q \in DOMAIN u.list : NewObject(s)[u.attr[q]].rc = "ok"
  BY <1>5, <1>6 DEF Fits
<1>16. Fits(s, u, c, R, {obj})
  BY <1>7, <1>13, <1>14, <1>15 DEF Fits
<1>17. IsObj(s, u, c, obj, t.attr[p]) /\ t.attr[p] \in DOMAIN s
  BY <1>9, <1>10
<1>18. u.attr = t.attr /\ u.param = t.param /\ u.rc = t.rc
  BY <1>6
<1> QED
  BY <1>a, <1>b, <1>11, <1>16, <1>17, <1>18

-----------------------------------------------------------------------------
(***************************************************************************)
(* A new object in the tree.                                               *)
(***************************************************************************)

\* The attributes that the model has for class c.
All(s, c) == {i \in DOMAIN s : s[i].owner = c}

\* Two functions on paths, of which the second is about what is below obj.
Together(f, g, obj) ==
  [p \in DOMAIN f \cup {obj \o q : q \in DOMAIN g} |->
     IF p \in DOMAIN f THEN f[p] ELSE g[After(p, Len(obj))]]

\* What the two together are.
BothIn(h, f, g, obj) ==
  /\ IsFun(h)
  /\ DOMAIN h = DOMAIN f \cup {obj \o q : q \in DOMAIN g}
  /\ \A p \in DOMAIN f : h[p] = f[p]
  /\ \A q \in DOMAIN g : h[obj \o q] = g[q]

\* Nothing is in both of the functions that Graft puts together.
LEMMA TogetherIs ==
  ASSUME NEW f, NEW g, NEW obj \in Path,
         \A q \in DOMAIN g : q \in Path /\ obj \o q \notin DOMAIN f
  PROVE  BothIn(Together(f, g, obj), f, g, obj)
<1> DEFINE h == Together(f, g, obj)
<1>1. IsFun(h) /\ DOMAIN h = DOMAIN f \cup {obj \o q : q \in DOMAIN g}
      /\ \A p \in DOMAIN f : h[p] = f[p]
  BY DEF Together, IsFun
<1>2. ASSUME NEW q \in DOMAIN g PROVE h[obj \o q] = g[q]
  <2>1. After(obj \o q, Len(obj)) = q
    BY Joined
  <2>2. obj \o q \in {obj \o x : x \in DOMAIN g} /\ obj \o q \notin DOMAIN f
    OBVIOUS
  <2> QED
    BY <2>1, <2>2 DEF Together
<1> QED
  BY <1>1, <1>2 DEF BothIn

\* The tree of a new object that fits the model, put in where the object has no
\* attributes yet, fits the model.
LEMMA GraftFits ==
  ASSUME NEW s, Model(s), NEW c \in 0..Len(s), NEW R, NEW t, NEW obj, NEW d \in DOMAIN s,
         Fits(s, t, c, R, {obj}), IsObj(s, t, c, obj, d), obj # <<>>,
         NEW inside, Fits(s, inside, d, All(s, d), {})
  PROVE  Fits(s, Graft(t, obj, inside), c, R, {}) /\ Graft(t, obj, inside).rc = inside.rc
<1>0. obj \in Path /\ d \in 0..Len(s)
  BY ObjectHasPath
<1>1. \A q \in DOMAIN t.attr : q \in Path /\ t.attr[q] \in DOMAIN s
  BY DEF Fits, InObject
<1>2. \A q \in DOMAIN inside.attr : q \in Path /\ inside.attr[q] \in DOMAIN s /\ q # <<>>
  <2> TAKE q \in DOMAIN inside.attr
  <2>1. InObject(s, inside, d, All(s, d), {}, q)
    BY DEF Fits
  <2>2. \E o \in Path : \E n \in Word : q = Attr(o, n)
    BY <2>1, ModelIs DEF InObject
  <2> QED
    BY <2>1, <2>2, AttrIs DEF InObject
<1>3. ASSUME NEW q \in DOMAIN inside.attr PROVE obj \o q \notin DOMAIN t.attr
  <2>1. q \in Path /\ q # <<>>
    BY <1>2
  <2>2. IsPrefix(obj, obj \o q) /\ Len(obj \o q) = Len(obj) + Len(q) /\ Len(q) > 0
        /\ Len(obj) \in Nat /\ Len(q) \in Nat
    BY <1>0, <2>1, Joined, PrefixOfRoot DEF Path
  <2>3. obj \o q # obj
    BY <2>2
  <2>4. obj \in {obj}
    OBVIOUS
  <2> QED
    BY <2>2, <2>3, <2>4, NothingBelow
<1>4. /\ DOMAIN t.param \subseteq DOMAIN t.attr /\ DOMAIN t.list \subseteq DOMAIN t.attr
      /\ DOMAIN inside.param \subseteq DOMAIN inside.attr
      /\ DOMAIN inside.list \subseteq DOMAIN inside.attr
  BY DEF Fits
<1> DEFINE u == Graft(t, obj, inside)
<1>5. u = [rc |-> inside.rc, attr |-> Together(t.attr, inside.attr, obj),
           param |-> Together(t.param, inside.param, obj),
           list |-> Together(t.list, inside.list, obj)]
  BY DEF Graft, Together
<1> HIDE DEF u
<1>6. /\ u = [rc |-> u.rc, attr |-> u.attr, param |-> u.param, list |-> u.list]
      /\ u.rc = inside.rc
      /\ u.attr = Together(t.attr, inside.attr, obj)
      /\ u.param = Together(t.param, inside.param, obj)
      /\ u.list = Together(t.list, inside.list, obj)
  BY <1>5
<1>7. /\ IsFun(u.attr)
      /\ DOMAIN u.attr = DOMAIN t.attr \cup {obj \o q : q \in DOMAIN inside.attr}
      /\ \A p \in DOMAIN t.attr : u.attr[p] = t.attr[p]
      /\ \A q \in DOMAIN inside.attr : u.attr[obj \o q] = inside.attr[q]
  <2>1. BothIn(Together(t.attr, inside.attr, obj), t.attr, inside.attr, obj)
    BY <1>0, <1>2, <1>3, TogetherIs
  <2> QED
    BY <1>6, <2>1 DEF BothIn
<1>8. /\ IsFun(u.param)
      /\ DOMAIN u.param = DOMAIN t.param \cup {obj \o q : q \in DOMAIN inside.param}
      /\ \A p \in DOMAIN t.param : u.param[p] = t.param[p]
      /\ \A q \in DOMAIN inside.param : u.param[obj \o q] = inside.param[q]
  <2>1. \A q \in DOMAIN inside.param : q \in Path /\ obj \o q \notin DOMAIN t.param
    BY <1>2, <1>3, <1>4
  <2>2. BothIn(Together(t.param, inside.param, obj), t.param, inside.param, obj)
    BY <1>0, <2>1, TogetherIs
  <2> QED
    BY <1>6, <2>2 DEF BothIn
<1>9. /\ IsFun(u.list)
      /\ DOMAIN u.list = DOMAIN t.list \cup {obj \o q : q \in DOMAIN inside.list}
      /\ \A p \in DOMAIN t.list : u.list[p] = t.list[p]
      /\ \A q \in DOMAIN inside.list : u.list[obj \o q] = inside.list[q]
  <2>1. \A q \in DOMAIN inside.list : q \in Path /\ obj \o q \notin DOMAIN t.list
    BY <1>2, <1>3, <1>4
  <2>2. BothIn(Together(t.list, inside.list, obj), t.list, inside.list, obj)
    BY <1>0, <2>1, TogetherIs
  <2> QED
    BY <1>6, <2>2 DEF BothIn
<1>10. IsTree(u)
  <2>0. /\ \A p \in DOMAIN t.param : IsParam(t.param[p])
        /\ \A p \in DOMAIN inside.param : IsParam(inside.param[p])
        /\ \A p \in DOMAIN t.list : IsList(t.list[p])
        /\ \A p \in DOMAIN inside.list : IsList(inside.list[p])
    BY DEF Fits, IsTree
  <2>1. \A p \in DOMAIN u.param : IsParam(u.param[p])
    BY <1>8, <2>0
  <2>2. \A p \in DOMAIN u.list : IsList(u.list[p])
    BY <1>9, <2>0
  <2> QED
    BY <1>6, <1>7, <1>8, <1>9, <2>1, <2>2 DEF IsTree
<1>11. ASSUME NEW o, NEW e, IsObj(s, t, c, o, e) PROVE IsObj(s, u, c, o, e)
  <2>1. CASE o = <<>> /\ e = c
    BY <2>1 DEF IsObj
  <2>2. CASE o \in DOMAIN t.attr /\ s[t.attr[o]].type = "object" /\ e = t.attr[o]
    <3>1. o \in DOMAIN u.attr /\ s[u.attr[o]].type = "object" /\ e = u.attr[o]
      BY <1>7, <2>2
    <3> QED
      BY <3>1 DEF IsObj
  <2>3. ASSUME NEW p \in DOMAIN t.list, NEW i \in Taken(t.list[p]),
               o = Object(p, i), e = t.attr[p]
        PROVE  IsObj(s, u, c, o, e)
    <3>1. p \in DOMAIN u.list /\ i \in Taken(u.list[p]) /\ e = u.attr[p]
      BY <1>4, <1>7, <1>9, <2>3
    <3> QED
      BY <2>3, <3>1 DEF IsObj
  <2> QED
    BY <1>11, <2>1, <2>2, <2>3 DEF IsObj
<1>12. ASSUME NEW o \in Path, NEW e, IsObj(s, inside, d, o, e) PROVE IsObj(s, u, c, obj \o o, e)
  <2>1. CASE o = <<>> /\ e = d
    BY <1>0, <1>11, <2>1, Joined
  <2>2. CASE o \in DOMAIN inside.attr /\ s[inside.attr[o]].type = "object" /\ e = inside.attr[o]
    <3>1. obj \o o \in DOMAIN u.attr /\ u.attr[obj \o o] = inside.attr[o]
      BY <1>7, <2>2
    <3> QED
      BY <2>2, <3>1 DEF IsObj
  <2>3. ASSUME NEW p \in DOMAIN inside.list, NEW i \in Taken(inside.list[p]),
               o = Object(p, i), e = inside.attr[p]
        PROVE  IsObj(s, u, c, obj \o o, e)
    <3>1. p \in Path /\ i \in Nat
      BY <1>2, <1>4, <2>3, TakenIs DEF Fits, IsTree
    <3>2. obj \o o = Object(obj \o p, i)
      BY <1>0, <2>3, <3>1, JoinedStep
    <3>3. obj \o p \in DOMAIN u.list /\ i \in Taken(u.list[obj \o p]) /\ e = u.attr[obj \o p]
      BY <1>4, <1>7, <1>9, <2>3
    <3> QED
      BY <3>2, <3>3 DEF IsObj
  <2> QED
    BY <1>12, <2>1, <2>2, <2>3 DEF IsObj
<1>13. ASSUME NEW o \in Path, NEW e, IsObj(s, u, c, o, e)
       PROVE  \/ IsObj(s, t, c, o, e)
              \/ \E x \in Path : o = obj \o x /\ IsObj(s, inside, d, x, e)
  <2>1. CASE o = <<>> /\ e = c
    BY <2>1 DEF IsObj
  <2>2. CASE o \in DOMAIN u.attr /\ s[u.attr[o]].type = "object" /\ e = u.attr[o]
    <3>1. CASE o \in DOMAIN t.attr
      <4>1. u.attr[o] = t.attr[o]
        BY <1>7, <3>1
      <4> QED
        BY <2>2, <3>1, <4>1 DEF IsObj
    <3>2. ASSUME NEW x \in DOMAIN inside.attr, o = obj \o x
          PROVE  \E y \in Path : o = obj \o y /\ IsObj(s, inside, d, y, e)
      <4>1. x \in Path /\ u.attr[o] = inside.attr[x]
        BY <1>2, <1>7, <3>2
      <4>2. IsObj(s, inside, d, x, e)
        BY <2>2, <3>2, <4>1 DEF IsObj
      <4> QED
        BY <3>2, <4>1, <4>2
    <3> QED
      BY <1>7, <2>2, <3>1, <3>2
  <2>3. ASSUME NEW p \in DOMAIN u.list, NEW i \in Taken(u.list[p]),
               o = Object(p, i), e = u.attr[p]
        PROVE  \/ IsObj(s, t, c, o, e)
               \/ \E x \in Path : o = obj \o x /\ IsObj(s, inside, d, x, e)
    <3>1. CASE p \in DOMAIN t.list
      <4>1. i \in Taken(t.list[p]) /\ e = t.attr[p]
        BY <1>4, <1>7, <1>9, <2>3, <3>1
      <4> QED
        BY <2>3, <3>1, <4>1 DEF IsObj
    <3>2. ASSUME NEW x \in DOMAIN inside.list, p = obj \o x
          PROVE  \E y \in Path : o = obj \o y /\ IsObj(s, inside, d, y, e)
      <4>1. x \in Path /\ i \in Taken(inside.list[x]) /\ e = inside.attr[x]
        BY <1>2, <1>4, <1>7, <1>9, <2>3, <3>2
      <4>2. i \in Nat
        BY <3>2, <4>1, TakenIs DEF Fits, IsTree
      <4>3. Object(x, i) \in Path /\ o = obj \o Object(x, i)
        <5>1. obj \o Object(x, i) = Object(obj \o x, i)
        BY <1>0, <4>1, <4>2, JoinedStep
      <5> QED
        BY <2>3, <3>2, <4>1, <4>2, <5>1, ObjectIs
      <4>4. IsObj(s, inside, d, Object(x, i), e)
        BY <3>2, <4>1 DEF IsObj
      <4> QED
        BY <4>3, <4>4
    <3> QED
      BY <1>9, <3>1, <3>2
  <2> QED
    BY <1>13, <2>1, <2>2, <2>3 DEF IsObj
<1>14. ASSUME NEW q \in DOMAIN u.attr PROVE InObject(s, u, c, R, {}, q)
  <2>1. CASE q \in DOMAIN t.attr
    <3>1. PICK o \in Path : /\ IsObj(s, t, c, o, s[t.attr[q]].owner)
                            /\ Has(R, {obj}, o, t.attr[q])
                            /\ q = Attr(o, s[t.attr[q]].name)
      BY <2>1 DEF Fits, InObject
    <3>2. u.attr[q] = t.attr[q] /\ q \in Path /\ t.attr[q] \in DOMAIN s
      BY <1>1, <1>7, <2>1
    <3>3. IsObj(s, u, c, o, s[t.attr[q]].owner) /\ Has(R, {}, o, t.attr[q])
      BY <1>11, <3>1 DEF Has
    <3> QED
      BY <3>1, <3>2, <3>3 DEF InObject
  <2>2. ASSUME NEW x \in DOMAIN inside.attr, q = obj \o x
        PROVE  InObject(s, u, c, R, {}, q)
    <3>1. PICK i \in DOMAIN s : i = inside.attr[x]
      BY <1>2, <2>2
    <3>2. PICK o \in Path : IsObj(s, inside, d, o, s[i].owner) /\ x = Attr(o, s[i].name)
      BY <2>2, <3>1 DEF Fits, InObject
    <3>3. q \in Path /\ u.attr[q] = i
      BY <1>0, <1>2, <1>7, <2>2, <3>1, Joined
    <3>4. /\ obj \o o \in Path /\ obj \o o # <<>>
          /\ q = Attr(obj \o o, s[i].name)
      <4>1. obj \o o \in Path
        BY <1>0, Joined
      <4>2. obj \o o # <<>>
        BY <1>0, JoinedApart
      <4>3. s[i].name \in Word
        BY ModelIs
      <4>4. obj \o Attr(o, s[i].name) = Attr(obj \o o, s[i].name)
        BY <1>0, <4>3, JoinedStep
      <4> QED
        BY <2>2, <3>2, <4>1, <4>2, <4>4
    <3>5. IsObj(s, u, c, obj \o o, s[i].owner)
      BY <1>12, <3>2
    <3>6. Has(R, {}, obj \o o, i)
      BY <3>4 DEF Has
    <3> QED
      BY <3>3, <3>4, <3>5, <3>6 DEF InObject
  <2> QED
    BY <1>7, <2>1, <2>2
<1>15. ASSUME NEW o \in Path, NEW e \in 0..Len(s), NEW i \in DOMAIN s,
              IsObj(s, u, c, o, e), s[i].owner = e, Has(R, {}, o, i)
       PROVE  Attr(o, s[i].name) \in DOMAIN u.attr
  <2>1. ASSUME NEW x \in Path, o = obj \o x, IsObj(s, inside, d, x, e)
        PROVE  Attr(o, s[i].name) \in DOMAIN u.attr
    <3>1. Has(All(s, d), {}, x, i)
      <4>1. x = <<>> => e = d
        <5>1. IsObj(s, inside, d, <<>>, d)
          BY DEF IsObj
        <5> QED
          BY <2>1, <5>1, ObjectOfOneClass
      <4> QED
        BY <1>15, <4>1 DEF Has, All
    <3>2. Attr(x, s[i].name) \in DOMAIN inside.attr
      BY <1>15, <2>1, <3>1 DEF Fits
    <3>3. obj \o Attr(x, s[i].name) = Attr(o, s[i].name)
      BY <1>0, <2>1, ModelIs, JoinedStep
    <3> QED
      BY <1>7, <3>2, <3>3
  <2>2. CASE IsObj(s, t, c, o, e) /\ o # obj
    <3>1. Has(R, {obj}, o, i)
      BY <1>15, <2>2 DEF Has
    <3>2. Attr(o, s[i].name) \in DOMAIN t.attr
      BY <1>15, <2>2, <3>1 DEF Fits
    <3> QED
      BY <1>7, <3>2
  <2>3. CASE IsObj(s, t, c, o, e) /\ o = obj
    <3>1. e = d
      BY <2>3, ObjectOfOneClass
    <3>2. IsObj(s, inside, d, <<>>, e) /\ <<>> \in Path /\ o = obj \o <<>>
      BY <1>0, <2>3, <3>1, Joined, PrefixOfRoot DEF IsObj
    <3> QED
      BY <2>1, <3>2
  <2> QED
    BY <1>13, <1>15, <2>1, <2>2, <2>3
<1>16. ASSUME NEW q \in DOMAIN t.attr
       PROVE  /\ u.attr[q] = t.attr[q]
              /\ q \in DOMAIN u.list <=> q \in DOMAIN t.list
              /\ q \in DOMAIN u.param <=> q \in DOMAIN t.param
  <2>1. \A x \in DOMAIN inside.attr : q # obj \o x
    BY <1>3
  <2> QED
    BY <1>4, <1>7, <1>8, <1>9, <2>1
<1>17. ASSUME NEW x \in DOMAIN inside.attr
       PROVE  /\ u.attr[obj \o x] = inside.attr[x]
              /\ obj \o x \in DOMAIN u.list <=> x \in DOMAIN inside.list
              /\ obj \o x \in DOMAIN u.param <=> x \in DOMAIN inside.param
  <2>1. \A y \in DOMAIN inside.attr : obj \o x = obj \o y => x = y
    BY <1>0, <1>2, JoinedApart
  <2>2. obj \o x \notin DOMAIN t.attr
    BY <1>3
  <2> QED
    BY <1>4, <1>7, <1>8, <1>9, <2>1, <2>2
<1>18. \A q \in DOMAIN u.attr :
         /\ q \in DOMAIN u.list <=> s[u.attr[q]].type = "multiple"
         /\ q \in DOMAIN u.param <=> s[u.attr[q]].type \notin {"object", "multiple"}
  <2>1. \A q \in DOMAIN t.attr :
          /\ q \in DOMAIN t.list <=> s[t.attr[q]].type = "multiple"
          /\ q \in DOMAIN t.param <=> s[t.attr[q]].type \notin {"object", "multiple"}
    BY DEF Fits
  <2>2. \A q \in DOMAIN inside.attr :
          /\ q \in DOMAIN inside.list <=> s[inside.attr[q]].type = "multiple"
          /\ q \in DOMAIN inside.param <=> s[inside.attr[q]].type \notin {"object", "multiple"}
    BY DEF Fits
  <2> TAKE q \in DOMAIN u.attr
  <2>3. CASE q \in DOMAIN t.attr
    <3>1. /\ u.attr[q] = t.attr[q]
          /\ q \in DOMAIN u.list <=> q \in DOMAIN t.list
          /\ q \in DOMAIN u.param <=> q \in DOMAIN t.param
      BY <1>16, <2>3
    <3> QED
      BY <2>1, <2>3, <3>1
  <2>4. ASSUME NEW x \in DOMAIN inside.attr, q = obj \o x
        PROVE  /\ q \in DOMAIN u.list <=> s[u.attr[q]].type = "multiple"
               /\ q \in DOMAIN u.param <=> s[u.attr[q]].type \notin {"object", "multiple"}
    <3>1. /\ u.attr[q] = inside.attr[x]
          /\ q \in DOMAIN u.list <=> x \in DOMAIN inside.list
          /\ q \in DOMAIN u.param <=> x \in DOMAIN inside.param
      BY <1>17, <2>4
    <3> QED
      BY <2>2, <3>1
  <2> QED
    BY <1>7, <2>3, <2>4
<1>19. DOMAIN u.list \subseteq DOMAIN u.attr /\ DOMAIN u.param \subseteq DOMAIN u.attr
  BY <1>4, <1>7, <1>8, <1>9
<1>20. ASSUME NEW p \in DOMAIN u.list PROVE NewObject(s)[u.attr[p]].rc = "ok"
  <2>1. CASE p \in DOMAIN t.list
    <3>1. u.attr[p] = t.attr[p]
      BY <1>4, <1>7, <2>1
    <3> QED
      BY <2>1, <3>1 DEF Fits
  <2>2. ASSUME NEW x \in DOMAIN inside.list, p = obj \o x
        PROVE  NewObject(s)[u.attr[p]].rc = "ok"
    <3>1. u.attr[p] = inside.attr[x]
      BY <1>4, <1>7, <2>2
    <3> QED
      BY <3>1 DEF Fits
  <2> QED
    BY <1>9, <2>1, <2>2
<1>21. /\ DOMAIN u.list = {q \in DOMAIN u.attr : s[u.attr[q]].type = "multiple"}
       /\ DOMAIN u.param =
            {q \in DOMAIN u.attr : s[u.attr[q]].type \notin {"object", "multiple"}}
  BY <1>18, <1>19
<1>22. Fits(s, u, c, R, {})
  BY <1>10, <1>14, <1>15, <1>20, <1>21 DEF Fits
<1> QED
  BY <1>6, <1>22 DEF u

\* That a class can be made means that a new object of it fits the model.
NewFits(s, d) ==
  NewObject(s)[d].rc = "ok" => Fits(s, NewObject(s)[d], d, All(s, d), {})

\* Tree t with a new object in list p, before objects are counted.
Grown(s, t, p) ==
  LET i == FirstFree(t.list[p].slots, FALSE)
  IN  Graft(Filled(t, p, i), Object(p, i), NewObject(s)[t.attr[p]])

\* A tree with a new object fits the model; what was in it is as it was.
LEMMA GrownFits ==
  ASSUME NEW s, Model(s), NEW c \in 0..Len(s), NEW R, NEW t, Fits(s, t, c, R, {}),
         NEW p \in DOMAIN t.list, \A d \in DOMAIN s : NewFits(s, d)
  PROVE  /\ Fits(s, Grown(s, t, p), c, R, {})
         /\ Grown(s, t, p).rc = "ok"
         /\ \A q \in DOMAIN t.attr : /\ q \in DOMAIN Grown(s, t, p).attr
                                     /\ Grown(s, t, p).attr[q] = t.attr[q]
         /\ \A q \in DOMAIN t.param : q \in DOMAIN Grown(s, t, p).param
<1>1. PICK i : i = FirstFree(t.list[p].slots, FALSE)
  OBVIOUS
<1>2. PICK u : u = Filled(t, p, i)
  OBVIOUS
<1>3. PICK inside : inside = NewObject(s)[t.attr[p]]
  OBVIOUS
<1>4. /\ Fits(s, u, c, R, {Object(p, i)})
      /\ IsObj(s, u, c, Object(p, i), t.attr[p])
      /\ Object(p, i) # <<>>
      /\ t.attr[p] \in DOMAIN s
      /\ u.attr = t.attr /\ u.param = t.param
  BY <1>1, <1>2, FillFits
<1>d. PICK d \in DOMAIN s : d = t.attr[p]
  BY <1>4
<1>e. PICK obj : obj = Object(p, i)
  OBVIOUS
<1>f. Fits(s, u, c, R, {obj}) /\ IsObj(s, u, c, obj, d) /\ obj # <<>>
  BY <1>4, <1>d, <1>e, Zenon
<1>5. inside.rc = "ok"
  BY <1>3 DEF Fits
<1>g. Fits(s, inside, d, All(s, d), {})
  BY <1>3, <1>5, <1>d DEF NewFits
<1>6. /\ Fits(s, Graft(u, obj, inside), c, R, {})
      /\ Graft(u, obj, inside).rc = inside.rc
  BY <1>f, <1>g, GraftFits
<1>7. Grown(s, t, p) = Graft(u, obj, inside)
  BY <1>1, <1>2, <1>3, <1>e DEF Grown
<1>8. /\ \A q \in DOMAIN u.attr : /\ q \in DOMAIN Graft(u, obj, inside).attr
                                  /\ Graft(u, obj, inside).attr[q] = u.attr[q]
      /\ \A q \in DOMAIN u.param : q \in DOMAIN Graft(u, obj, inside).param
  BY DEF Graft
<1> QED
  BY <1>4, <1>5, <1>6, <1>7, <1>8

\* evcpe_attr_add_obj: the list is full, the object is not made, or it is counted.
LEMMA AddObjIs ==
  ASSUME NEW s, NEW t, NEW p
  PROVE  AddObj(s, t, p) =
           IF /\ t.list[p].limit # 0
              /\ Cardinality(Taken(t.list[p])) >= t.list[p].limit
             THEN Fails(t, "full")
           ELSE IF Grown(s, t, p).rc # "ok" THEN Grown(s, t, p)
           ELSE Count(s, Grown(s, t, p), Front(p), t.attr[p],
                      Cardinality(Taken(t.list[p])) + 1)
BY DEF AddObj, Grown, Filled

\* Adding an object keeps the tree as the model says.
LEMMA AddObjFits ==
  ASSUME NEW s, Model(s), NEW c \in 0..Len(s), NEW R, NEW t, Fits(s, t, c, R, {}),
         NEW p \in DOMAIN t.list, \A d \in DOMAIN s : NewFits(s, d)
  PROVE  Fits(s, AddObj(s, t, p), c, R, {})
<1>1. Fits(s, Fails(t, "full"), c, R, {})
  <2>1. IsTree(t)
    BY DEF Fits
  <2> QED
    BY <2>1, FailsKeeps, KeepsFits
<1>2. /\ Fits(s, Grown(s, t, p), c, R, {})
      /\ Grown(s, t, p).rc = "ok"
  BY GrownFits
<1>3. ASSUME NEW n PROVE Fits(s, Count(s, Grown(s, t, p), Front(p), t.attr[p], n), c, R, {})
  <2>1. IsTree(Grown(s, t, p))
    BY <1>2 DEF Fits
  <2> QED
    BY <1>2, <2>1, CountKeeps, KeepsFits
<1> QED
  BY <1>1, <1>2, <1>3, AddObjIs

\* Emptying a slot removes its object and no other.
LEMMA ClearIs ==
  ASSUME NEW S, NEW e \in S, NEW f \in Seq(S), NEW i \in Live(f, e)
  PROVE  Clear(f, i, e) \in Seq(S) /\ Live(Clear(f, i, e), e) = Live(f, e) \ {i}
<1>1. i \in 1..Len(f) /\ DOMAIN f = 1..Len(f)
  BY DEF Live
<1>2. /\ Clear(f, i, e) \in Seq(S) /\ DOMAIN Clear(f, i, e) = DOMAIN f
      /\ Clear(f, i, e)[i] = e
      /\ \A j \in DOMAIN f : j # i => Clear(f, i, e)[j] = f[j]
  BY <1>1 DEF Clear
<1>3. Live(Clear(f, i, e), e) = Live(f, e) \ {i}
  BY <1>1, <1>2 DEF Live
<1> QED
  BY <1>2, <1>3

\* Deleting an object leaves a tree as the model says.
LEMMA DelObjFits ==
  ASSUME NEW s, Model(s), NEW c \in 0..Len(s), NEW R, NEW t, Fits(s, t, c, R, {}),
         NEW p \in DOMAIN t.list, NEW i \in Taken(t.list[p])
  PROVE  Fits(s, DelObj(t, p, i), c, R, {})
<1>1. PICK obj : obj = Object(p, i)
  OBVIOUS
<1>2. PICK u : u = DelObj(t, p, i)
  OBVIOUS
<1>3. /\ \A q \in DOMAIN t.attr : q \in Path /\ t.attr[q] \in DOMAIN s
      /\ \A q \in DOMAIN t.list : q \in DOMAIN t.attr /\ Taken(t.list[q]) \subseteq Nat \ {0}
      /\ DOMAIN t.param \subseteq DOMAIN t.attr
  BY TakenIs DEF Fits, InObject, IsTree
<1>4. obj \in Path /\ obj # <<>> /\ i \in Nat \ {0}
  BY <1>1, <1>3, ObjectIs
<1> DEFINE Stays(q) == ~IsPrefix(obj, q)
           slots == Clear(t.list[p].slots, i, FALSE)
           x == [t.list[p] EXCEPT !.slots = slots]
           list == [t.list EXCEPT ![p] = x]
<1>5. IsList(x) /\ Taken(x) = Taken(t.list[p]) \ {i}
  <2>1. PICK f \in Seq(BOOLEAN) : f = t.list[p].slots
    BY DEF Fits, IsTree, IsList
  <2>2. t.list[p] = [limit |-> t.list[p].limit, slots |-> t.list[p].slots]
    BY DEF Fits, IsTree, IsList
  <2>3. x = [limit |-> t.list[p].limit, slots |-> slots]
    <3> HIDE DEF slots
    <3> QED
      BY <2>2
  <2>4. i \in Live(f, FALSE)
    BY <2>1 DEF Taken
  <2>5. slots \in Seq(BOOLEAN) /\ Live(slots, FALSE) = Live(f, FALSE) \ {i}
    <3>1. PICK B, e : B = BOOLEAN /\ e = FALSE
      OBVIOUS
    <3>2. f \in Seq(B) /\ e \in B
      BY <3>1, Zenon
    <3>3. i \in Live(f, e)
      BY <2>4, <3>1, Zenon
    <3>4. Clear(f, i, e) \in Seq(B) /\ Live(Clear(f, i, e), e) = Live(f, e) \ {i}
      BY <3>2, <3>3, ClearIs
    <3> QED
      BY <2>1, <3>1, <3>4, Zenon
  <2>6. x.slots = slots
    BY <2>3
  <2> HIDE DEF slots
  <2> QED
    BY <2>1, <2>3, <2>5, <2>6 DEF IsList, Taken
<1> HIDE DEF x
<1>6. /\ DOMAIN list = DOMAIN t.list
      /\ list[p] = x
      /\ \A q \in DOMAIN t.list : q # p => list[q] = t.list[q]
  OBVIOUS
<1> DEFINE Rest(f) == Without(f, obj)
<1>7. u = [rc |-> t.rc, attr |-> Rest(t.attr), param |-> Rest(t.param), list |-> Rest(list)]
  <2>1. t = [rc |-> t.rc, attr |-> t.attr, param |-> t.param, list |-> t.list]
    BY DEF Fits, IsTree
  <2>2. u = [t EXCEPT !.list = Rest(list), !.attr = Rest(t.attr), !.param = Rest(t.param)]
    <3>1. list = [t.list EXCEPT ![p].slots = slots]
      BY DEF x
    <3> HIDE DEF list
    <3> DEFINE v == [t EXCEPT !.list = list]
    <3>2. DelObj(t, p, i) = [v EXCEPT !.list = Without(@, Object(p, i)),
                                      !.attr = Without(@, Object(p, i)),
                                      !.param = Without(@, Object(p, i))]
      BY <3>1 DEF DelObj
    <3>3. v.list = list /\ v.attr = t.attr /\ v.param = t.param
      BY <2>1
    <3> QED
      BY <1>1, <1>2, <2>1, <3>2
  <2> HIDE DEF list, Rest
  <2> QED
    BY <2>1, <2>2
<1> HIDE DEF list
<1>8. \A f : /\ IsFun(Rest(f))
             /\ DOMAIN Rest(f) = {q \in DOMAIN f : Stays(q)}
             /\ \A q \in DOMAIN f : Stays(q) => Rest(f)[q] = f[q]
  BY DEF Without, Restrict, IsFun
<1> HIDE DEF Rest, Stays
<1>9. /\ u = [rc |-> u.rc, attr |-> u.attr, param |-> u.param, list |-> u.list]
      /\ u.attr = Rest(t.attr) /\ u.param = Rest(t.param) /\ u.list = Rest(list)
  BY <1>7
<1>10. /\ IsFun(u.attr) /\ IsFun(u.param) /\ IsFun(u.list)
       /\ DOMAIN u.attr = {q \in DOMAIN t.attr : Stays(q)}
       /\ DOMAIN u.param = {q \in DOMAIN t.param : Stays(q)}
       /\ DOMAIN u.list = {q \in DOMAIN t.list : Stays(q)}
       /\ \A q \in DOMAIN t.attr : Stays(q) => u.attr[q] = t.attr[q]
       /\ \A q \in DOMAIN t.param : Stays(q) => u.param[q] = t.param[q]
       /\ \A q \in DOMAIN t.list : Stays(q) => u.list[q] = list[q]
  BY <1>6, <1>8, <1>9
<1>11. IsTree(u)
  <2>1. /\ \A q \in DOMAIN t.param : IsParam(t.param[q])
        /\ \A q \in DOMAIN t.list : IsList(t.list[q])
    BY DEF Fits, IsTree
  <2>2. \A q \in DOMAIN u.param : IsParam(u.param[q])
    BY <1>10, <2>1
  <2>3. \A q \in DOMAIN u.list : IsList(u.list[q])
    BY <1>5, <1>6, <1>10, <2>1
  <2> QED
    BY <1>9, <1>10, <2>2, <2>3 DEF IsTree
<1>12. ASSUME NEW o \in Path, NEW d
       PROVE  IsObj(s, u, c, o, d) <=> IsObj(s, t, c, o, d) /\ Stays(o)
  <2>1. Stays(<<>>)
    BY <1>4, PrefixOfRoot DEF Stays
  <2>2. ASSUME NEW q \in DOMAIN t.list, NEW j \in Taken(t.list[q])
        PROVE  Stays(Object(q, j)) <=> Stays(q) /\ ~(q = p /\ j = i)
    <3>1. q \in Path /\ j \in Nat /\ p \in Path /\ i \in Nat
      BY <1>3, <1>4
    <3>2. obj = Object(q, j) <=> q = p /\ j = i
      BY <1>1, <3>1, Apart
    <3>3. IsPrefix(obj, Object(q, j)) <=> obj = Object(q, j) \/ IsPrefix(obj, q)
      BY <1>4, <3>1, PrefixOfObject
    <3> QED
      BY <3>2, <3>3 DEF Stays
  <2>3. /\ \A q \in DOMAIN t.list : q # p => Taken(list[q]) = Taken(t.list[q])
        /\ Taken(list[p]) = Taken(t.list[p]) \ {i}
    BY <1>5, <1>6
  <2>4. (\E q \in DOMAIN u.list : \E j \in Taken(u.list[q]) : o = Object(q, j) /\ d = u.attr[q])
        <=> (\E q \in DOMAIN t.list : \E j \in Taken(t.list[q]) :
               o = Object(q, j) /\ d = t.attr[q]) /\ Stays(o)
    <3>1. ASSUME NEW q \in DOMAIN u.list, NEW j \in Taken(u.list[q]),
                 o = Object(q, j), d = u.attr[q]
          PROVE  q \in DOMAIN t.list /\ j \in Taken(t.list[q]) /\ d = t.attr[q] /\ Stays(o)
      <4>1. q \in DOMAIN t.list /\ Stays(q) /\ q \in DOMAIN t.attr /\ d = t.attr[q]
        BY <1>3, <1>10, <3>1
      <4>2. j \in Taken(t.list[q]) /\ ~(q = p /\ j = i)
        BY <1>10, <2>3, <3>1, <4>1
      <4> QED
        BY <2>2, <3>1, <4>1, <4>2
    <3>2. ASSUME NEW q \in DOMAIN t.list, NEW j \in Taken(t.list[q]),
                 o = Object(q, j), d = t.attr[q], Stays(o)
          PROVE  q \in DOMAIN u.list /\ j \in Taken(u.list[q]) /\ d = u.attr[q]
      <4>1. Stays(q) /\ ~(q = p /\ j = i)
        BY <2>2, <3>2
      <4>2. j \in Taken(list[q])
        BY <2>3, <4>1
      <4> QED
        BY <1>3, <1>10, <3>2, <4>1, <4>2
    <3> QED
      BY <3>1, <3>2
  <2>5. (o \in DOMAIN u.attr /\ s[u.attr[o]].type = "object" /\ d = u.attr[o])
        <=> (o \in DOMAIN t.attr /\ s[t.attr[o]].type = "object" /\ d = t.attr[o]) /\ Stays(o)
    BY <1>10
  <2> QED
    BY <2>1, <2>4, <2>5 DEF IsObj
<1>13. ASSUME NEW o \in Path, NEW n \in Word PROVE Stays(Attr(o, n)) <=> Stays(o)
  <2>1. obj # Attr(o, n)
    BY <1>1, <1>3, <1>4, Apart
  <2> QED
    BY <1>4, <2>1, PrefixOfAttr DEF Stays
<1>14. ASSUME NEW q \in DOMAIN u.attr PROVE InObject(s, u, c, R, {}, q)
  <2>1. /\ q \in DOMAIN t.attr /\ Stays(q) /\ u.attr[q] = t.attr[q]
        /\ q \in Path /\ t.attr[q] \in DOMAIN s
    BY <1>3, <1>10
  <2>2. PICK o \in Path : /\ IsObj(s, t, c, o, s[t.attr[q]].owner)
                          /\ Has(R, {}, o, t.attr[q])
                          /\ q = Attr(o, s[t.attr[q]].name)
    BY <2>1 DEF Fits, InObject
  <2>3. Stays(o)
    BY <1>13, <2>1, <2>2, ModelIs
  <2>4. IsObj(s, u, c, o, s[t.attr[q]].owner)
    BY <1>12, <2>2, <2>3
  <2> QED
    BY <2>1, <2>2, <2>4 DEF InObject
<1>15. ASSUME NEW o \in Path, NEW d \in 0..Len(s), NEW j \in DOMAIN s,
              IsObj(s, u, c, o, d), s[j].owner = d, Has(R, {}, o, j)
       PROVE  Attr(o, s[j].name) \in DOMAIN u.attr
  <2>1. IsObj(s, t, c, o, d) /\ Stays(o)
    BY <1>12, <1>15
  <2>2. Attr(o, s[j].name) \in DOMAIN t.attr
    BY <1>15, <2>1 DEF Fits
  <2>3. Stays(Attr(o, s[j].name))
    BY <1>13, <2>1, ModelIs
  <2> QED
    BY <1>10, <2>2, <2>3
<1>16. /\ DOMAIN u.list = {q \in DOMAIN u.attr : s[u.attr[q]].type = "multiple"}
       /\ DOMAIN u.param =
            {q \in DOMAIN u.attr : s[u.attr[q]].type \notin {"object", "multiple"}}
       /\ \A q \in DOMAIN u.list : NewObject(s)[u.attr[q]].rc = "ok"
  <2>1. /\ DOMAIN t.list = {q \in DOMAIN t.attr : s[t.attr[q]].type = "multiple"}
        /\ DOMAIN t.param =
             {q \in DOMAIN t.attr : s[t.attr[q]].type \notin {"object", "multiple"}}
        /\ \A q \in DOMAIN t.list : NewObject(s)[t.attr[q]].rc = "ok"
    BY DEF Fits
  <2> QED
    BY <1>10, <2>1
<1>17. Fits(s, u, c, R, {})
  BY <1>11, <1>14, <1>15, <1>16 DEF Fits
<1> QED
  BY <1>2, <1>17

-----------------------------------------------------------------------------
(***************************************************************************)
(* The attributes of a new object.                                         *)
(***************************************************************************)

\* Function h is f with value v at p, where f has none.
Adds(h, f, p, v) ==
  /\ IsFun(h) /\ DOMAIN h = DOMAIN f \cup {p}
  /\ h[p] = v
  /\ \A q \in DOMAIN f : q # p => h[q] = f[q]

\* Put adds a value or changes one.
LEMMA PutAdds ==
  ASSUME NEW f, NEW p, NEW v
  PROVE  Adds(Put(f, p, v), f, p, v)
BY DEF Adds, IsFun, Put

\* The path of the attribute that schema i makes of the root.
RootAttr(s, i) == Attr(<<>>, s[i].name)

\* The objects that schema i makes of the root.
RootObject(s, i) == {p \in {RootAttr(s, i)} : s[i].type = "object"}

\* Tree u is tree t with attribute i of the root.
AttrMade(s, t, u, i) ==
  /\ IsTree(u)
  /\ Adds(u.attr, t.attr, RootAttr(s, i), i)
  /\ IF s[i].type = "multiple"
       THEN \E x : /\ Adds(u.list, t.list, RootAttr(s, i), x) /\ Taken(x) = {}
                   /\ NewObject(s)[i].rc = "ok"
       ELSE u.list = t.list
  /\ DOMAIN u.param = IF s[i].type \in {"object", "multiple"} THEN DOMAIN t.param
                      ELSE DOMAIN t.param \cup {RootAttr(s, i)}

\* It fits the model, but for the object that it may be.
LEMMA AttrFits ==
  ASSUME NEW s, Model(s), NEW c \in 0..Len(s), NEW R, NEW t, Fits(s, t, c, R, {}),
         NEW i \in DOMAIN s, s[i].owner = c, RootAttr(s, i) \notin DOMAIN t.attr,
         NEW u, AttrMade(s, t, u, i)
  PROVE  /\ Fits(s, u, c, R \cup {i}, RootObject(s, i))
         /\ s[i].type = "object" => IsObj(s, u, c, RootAttr(s, i), i)
         /\ RootAttr(s, i) # <<>>
<1>1. PICK p \in Path : p = RootAttr(s, i) /\ p # <<>>
  <2>1. <<>> \in Path /\ s[i].name \in Word
    BY ModelIs, EmptySeq DEF Path
  <2> QED
    BY <2>1, AttrIs DEF RootAttr
<1>2. PICK X : X = RootObject(s, i)
  OBVIOUS
<1>3. X = IF s[i].type = "object" THEN {p} ELSE {}
  BY <1>1, <1>2 DEF RootObject
<1>4. /\ IsTree(u)
      /\ DOMAIN u.attr = DOMAIN t.attr \cup {p}
      /\ u.attr[p] = i
      /\ p \notin DOMAIN t.attr
      /\ \A q \in DOMAIN t.attr : u.attr[q] = t.attr[q]
  BY <1>1 DEF AttrMade, Adds
<1>5. DOMAIN t.list \subseteq DOMAIN t.attr /\ DOMAIN t.param \subseteq DOMAIN t.attr
  BY DEF Fits
<1>6. /\ DOMAIN u.list = IF s[i].type = "multiple" THEN DOMAIN t.list \cup {p} ELSE DOMAIN t.list
      /\ \A q \in DOMAIN t.list : u.list[q] = t.list[q]
      /\ s[i].type = "multiple" => Taken(u.list[p]) = {} /\ NewObject(s)[i].rc = "ok"
  <2>1. CASE s[i].type = "multiple"
    <3>1. PICK x : /\ Adds(u.list, t.list, p, x) /\ Taken(x) = {}
                   /\ NewObject(s)[i].rc = "ok"
      BY <1>1, <2>1 DEF AttrMade
    <3>2. u.list[p] = x /\ DOMAIN u.list = DOMAIN t.list \cup {p}
          /\ \A q \in DOMAIN t.list : u.list[q] = t.list[q]
      BY <1>4, <1>5, <3>1 DEF Adds
    <3> QED
      BY <2>1, <3>1, <3>2
  <2>2. CASE s[i].type # "multiple"
    BY <2>2 DEF AttrMade
  <2> QED
    BY <2>1, <2>2
<1>7. DOMAIN u.param = IF s[i].type \in {"object", "multiple"} THEN DOMAIN t.param
                       ELSE DOMAIN t.param \cup {p}
  BY <1>1 DEF AttrMade
<1>8. ASSUME NEW o, NEW d
      PROVE  IsObj(s, u, c, o, d)
             <=> IsObj(s, t, c, o, d) \/ (s[i].type = "object" /\ o = p /\ d = i)
  <2>1. (\E q \in DOMAIN u.list : \E j \in Taken(u.list[q]) : o = Object(q, j) /\ d = u.attr[q])
        <=> (\E q \in DOMAIN t.list : \E j \in Taken(t.list[q]) :
               o = Object(q, j) /\ d = t.attr[q])
    <3>1. \A q \in DOMAIN u.list : \A j \in Taken(u.list[q]) :
            q \in DOMAIN t.list /\ u.list[q] = t.list[q] /\ u.attr[q] = t.attr[q]
      BY <1>4, <1>5, <1>6
    <3>2. \A q \in DOMAIN t.list :
            q \in DOMAIN u.list /\ u.list[q] = t.list[q] /\ u.attr[q] = t.attr[q]
      BY <1>4, <1>5, <1>6
    <3> QED
      BY <3>1, <3>2
  <2>2. (o \in DOMAIN u.attr /\ s[u.attr[o]].type = "object" /\ d = u.attr[o])
        <=> \/ o \in DOMAIN t.attr /\ s[t.attr[o]].type = "object" /\ d = t.attr[o]
            \/ s[i].type = "object" /\ o = p /\ d = i
    BY <1>4
  <2> QED
    BY <2>1, <2>2 DEF IsObj
<1>9. ASSUME NEW d, IsObj(s, t, c, p, d) PROVE FALSE
  <2>1. ASSUME NEW q \in DOMAIN t.list, NEW j \in Taken(t.list[q]), p = Object(q, j)
        PROVE  FALSE
    <3>1. q \in Path /\ j \in Nat \ {0}
      BY <2>1, TakenIs DEF Fits, InObject, IsTree
    <3>2. <<>> \in Path /\ s[i].name \in Word /\ Attr(<<>>, s[i].name) = Object(q, j)
      BY <1>1, <2>1, ModelIs, PrefixOfRoot DEF RootAttr
    <3> QED
      BY <3>1, <3>2, Apart
  <2> QED
    BY <1>1, <1>4, <1>9, <2>1 DEF IsObj
<1>10. ASSUME NEW q \in DOMAIN u.attr PROVE InObject(s, u, c, R \cup {i}, X, q)
  <2>1. CASE q = p
    <3>1. IsObj(s, u, c, <<>>, s[i].owner) /\ <<>> \in Path
      BY PrefixOfRoot DEF IsObj
    <3>2. Has(R \cup {i}, X, <<>>, i) /\ q = Attr(<<>>, s[i].name)
      BY <1>1, <1>3, <2>1 DEF Has, RootAttr
    <3>3. q \in Path /\ u.attr[q] = i
      BY <1>4, <2>1
    <3> QED
      BY <3>1, <3>2, <3>3 DEF InObject
  <2>2. CASE q \in DOMAIN t.attr
    <3>1. q \in Path /\ t.attr[q] \in DOMAIN s /\ u.attr[q] = t.attr[q]
      BY <1>4, <2>2 DEF Fits, InObject
    <3>2. PICK o \in Path : /\ IsObj(s, t, c, o, s[t.attr[q]].owner)
                            /\ Has(R, {}, o, t.attr[q])
                            /\ q = Attr(o, s[t.attr[q]].name)
      BY <2>2 DEF Fits, InObject
    <3>3. IsObj(s, u, c, o, s[t.attr[q]].owner)
      BY <1>8, <3>2
    <3>4. o \notin X
      BY <1>3, <1>9, <3>2
    <3>5. Has(R \cup {i}, X, o, t.attr[q])
      BY <3>2, <3>4 DEF Has
    <3> QED
      BY <3>1, <3>2, <3>3, <3>5 DEF InObject
  <2> QED
    BY <1>4, <2>1, <2>2
<1>11. ASSUME NEW o \in Path, NEW d \in 0..Len(s), NEW j \in DOMAIN s,
              IsObj(s, u, c, o, d), s[j].owner = d, Has(R \cup {i}, X, o, j)
       PROVE  Attr(o, s[j].name) \in DOMAIN u.attr
  <2>1. CASE o = <<>> /\ j = i
    BY <1>1, <1>4, <2>1 DEF RootAttr
  <2>2. CASE ~(o = <<>> /\ j = i)
    <3>1. IsObj(s, t, c, o, d)
      <4>1. ~(s[i].type = "object" /\ o = p)
        BY <1>3, <1>11 DEF Has
      <4> QED
        BY <1>8, <1>11, <4>1
    <3>2. Has(R, {}, o, j)
      BY <1>11, <2>2 DEF Has
    <3>3. Attr(o, s[j].name) \in DOMAIN t.attr
      BY <1>11, <3>1, <3>2 DEF Fits
    <3> QED
      BY <1>4, <3>3
  <2> QED
    BY <2>1, <2>2
<1>12. \A q \in DOMAIN u.attr :
         /\ q \in DOMAIN u.list <=> s[u.attr[q]].type = "multiple"
         /\ q \in DOMAIN u.param <=> s[u.attr[q]].type \notin {"object", "multiple"}
  <2>1. \A q \in DOMAIN t.attr :
          /\ q \in DOMAIN t.list <=> s[t.attr[q]].type = "multiple"
          /\ q \in DOMAIN t.param <=> s[t.attr[q]].type \notin {"object", "multiple"}
    BY DEF Fits
  <2>2. ASSUME NEW q \in DOMAIN t.attr
        PROVE  /\ q \in DOMAIN u.list <=> q \in DOMAIN t.list
               /\ q \in DOMAIN u.param <=> q \in DOMAIN t.param
               /\ u.attr[q] = t.attr[q]
    BY <1>4, <1>6, <1>7
  <2>3. /\ p \in DOMAIN u.list <=> s[i].type = "multiple"
        /\ p \in DOMAIN u.param <=> s[i].type \notin {"object", "multiple"}
    BY <1>4, <1>5, <1>6, <1>7
  <2> QED
    BY <1>4, <2>1, <2>2, <2>3
<1>13. DOMAIN u.list \subseteq DOMAIN u.attr /\ DOMAIN u.param \subseteq DOMAIN u.attr
  BY <1>4, <1>5, <1>6, <1>7
<1>14. ASSUME NEW q \in DOMAIN u.list PROVE NewObject(s)[u.attr[q]].rc = "ok"
  <2>1. CASE q \in DOMAIN t.list
    <3>1. u.attr[q] = t.attr[q]
      BY <1>4, <1>5, <2>1
    <3> QED
      BY <2>1, <3>1 DEF Fits
  <2>2. CASE q \notin DOMAIN t.list
    BY <1>4, <1>6, <2>2
  <2> QED
    BY <2>1, <2>2
<1>15. /\ DOMAIN u.list = {q \in DOMAIN u.attr : s[u.attr[q]].type = "multiple"}
       /\ DOMAIN u.param =
            {q \in DOMAIN u.attr : s[u.attr[q]].type \notin {"object", "multiple"}}
  BY <1>12, <1>13
<1>16. Fits(s, u, c, R \cup {i}, X)
  BY <1>4, <1>10, <1>11, <1>14, <1>15 DEF Fits
<1>17. s[i].type = "object" => IsObj(s, u, c, p, i)
  BY <1>8
<1> QED
  BY <1>1, <1>2, <1>16, <1>17

\* A tree with other attributes, parameters or lists has the fields of a tree.
LEMMA TreeWith ==
  ASSUME NEW t, t = [rc |-> t.rc, attr |-> t.attr, param |-> t.param, list |-> t.list],
         NEW f, NEW g, NEW u
  PROVE  /\ u = [t EXCEPT !.attr = f, !.param = g] =>
              u = [rc |-> t.rc, attr |-> f, param |-> g, list |-> t.list]
         /\ u = [t EXCEPT !.attr = f, !.list = g] =>
              u = [rc |-> t.rc, attr |-> f, param |-> t.param, list |-> g]
<1>1. ASSUME u = [t EXCEPT !.attr = f, !.param = g]
      PROVE  u = [rc |-> t.rc, attr |-> f, param |-> g, list |-> t.list]
  BY <1>1
<1>2. ASSUME u = [t EXCEPT !.attr = f, !.list = g]
      PROVE  u = [rc |-> t.rc, attr |-> f, param |-> t.param, list |-> g]
  BY <1>2
<1> QED
  BY <1>1, <1>2, Zenon

\* A new parameter is one.
LEMMA NewParamIs == IsParam(NewParam)
<1>1. <<>> \in Seq({})
  BY EmptySeq
<1> QED
  BY <1>1 DEF IsParam, NewParam, IsSeq

\* A new list is one, and empty.
LEMMA NewListIs ==
  ASSUME NEW n
  PROVE  LET x == [limit |-> n, slots |-> <<>>] IN IsList(x) /\ Taken(x) = {}
<1>1. <<>> \in Seq(BOOLEAN)
  BY EmptySeq
<1>2. DOMAIN <<>> = {}
  BY EmptySeq
<1>3. Live(<<>>, FALSE) = {}
  BY <1>2, Zenon DEF Live
<1> QED
  BY <1>1, <1>3 DEF IsList, Taken

\* That inside can be made means that a list of its class can grow, and that
\* it fits the model.
Fine(s, i, inside) ==
  inside.rc = "ok" => NewObject(s)[i].rc = "ok" /\ Fits(s, inside, i, All(s, i), {})

\* evcpe_attr_init of a list.
LEMMA ListInitFits ==
  ASSUME NEW s, Model(s), NEW c \in 0..Len(s), NEW R, NEW t, Fits(s, t, c, R, {}),
         NEW i \in DOMAIN s, s[i].owner = c, RootAttr(s, i) \notin DOMAIN t.attr,
         s[i].type = "multiple",
         NEW inside, Fine(s, i, inside), ListInit(s, t, i, inside).rc = "ok"
  PROVE  Fits(s, ListInit(s, t, i, inside), c, R \cup {i}, {})
<1> DEFINE p == RootAttr(s, i)
           x == [limit |-> Limit(s, t, i), slots |-> <<>>]
           v == Count(s, t, <<>>, i, 0)
           w == [v EXCEPT !.attr = Put(@, p, i), !.list = Put(@, p, x)]
           u == Fails(w, inside.rc)
<1>0. IsTree(t)
  BY DEF Fits
<1>1. IsTree(v) /\ v.attr = t.attr /\ v.list = t.list /\ DOMAIN v.param = DOMAIN t.param
  BY <1>0, CountKeeps DEF Keeps
<1>2. IsList(x) /\ Taken(x) = {}
  BY NewListIs
<1>3. /\ Adds(Put(v.attr, p, i), v.attr, p, i)
      /\ Adds(Put(v.list, p, x), v.list, p, x)
  BY PutAdds
<1>4. \/ ListInit(s, t, i, inside) = Fails(t, "fault")
      \/ ListInit(s, t, i, inside) = w /\ w.rc # "ok"
      \/ ListInit(s, t, i, inside) = u
  <2> HIDE DEF x, v
  <2>1. ListInit(s, t, i, inside) =
          IF /\ s[i].constraint.kind = "attr"
             /\ Attr(<<>>, s[i].constraint.attr) \notin DOMAIN t.param
            THEN Fails(t, "fault") ELSE IF w.rc # "ok" THEN w ELSE u
    BY Zenon DEF ListInit, RootAttr, x, v
  <2> HIDE DEF w, u
  <2> QED
    BY <2>1
<1> HIDE DEF p, x, v
<1>5. w = [rc |-> v.rc, attr |-> Put(v.attr, p, i), param |-> v.param, list |-> Put(v.list, p, x)]
  <2>1. v = [rc |-> v.rc, attr |-> v.attr, param |-> v.param, list |-> v.list]
    BY <1>1 DEF IsTree
  <2>2. PICK y : y = w
    OBVIOUS
  <2>3. PICK f, g : f = Put(v.attr, p, i) /\ g = Put(v.list, p, x)
    OBVIOUS
  <2>4. y = [v EXCEPT !.attr = f, !.list = g]
    BY <2>2, <2>3, Zenon
  <2>5. y = [rc |-> v.rc, attr |-> f, param |-> v.param, list |-> g]
    BY <2>1, <2>4, TreeWith, Zenon
  <2> QED
    BY <2>2, <2>3, <2>5, Zenon
<1> HIDE DEF w
<1>6. /\ w = [rc |-> w.rc, attr |-> w.attr, param |-> w.param, list |-> w.list]
      /\ Adds(w.attr, t.attr, p, i) /\ Adds(w.list, t.list, p, x)
      /\ w.param = v.param
  BY <1>1, <1>3, <1>5
<1>7. IsTree(w)
  <2>1. \A q \in DOMAIN w.list : IsList(w.list[q])
    <3>1. \A q \in DOMAIN t.list : IsList(t.list[q])
      BY <1>0 DEF IsTree
    <3> QED
      BY <1>2, <1>6, <3>1 DEF Adds
  <2>2. \A q \in DOMAIN w.param : IsParam(w.param[q])
    BY <1>1, <1>6 DEF IsTree
  <2>3. IsFun(w.attr) /\ IsFun(w.list) /\ IsFun(w.param)
    BY <1>1, <1>6 DEF IsTree, Adds
  <2> QED
    BY <1>6, <2>1, <2>2, <2>3 DEF IsTree
<1>8. Keeps(w, u) /\ u.rc = inside.rc
  BY <1>7, FailsKeeps
<1> HIDE DEF u
<1>9. Fails(t, "fault").rc = "fault"
  BY <1>0, FailsKeeps
<1>10. ListInit(s, t, i, inside) = u
  BY <1>4, <1>9
<1>11. NewObject(s)[i].rc = "ok"
  <2>1. inside.rc = "ok"
    BY <1>8, <1>10
  <2> QED
    BY <2>1 DEF Fine
<1>12. AttrMade(s, t, u, i)
  <2>1. /\ IsTree(u) /\ Adds(u.attr, t.attr, p, i) /\ Adds(u.list, t.list, p, x)
        /\ DOMAIN u.param = DOMAIN t.param
    BY <1>1, <1>6, <1>8 DEF Keeps
  <2> QED
    BY <1>2, <1>11, <2>1 DEF AttrMade, p
<1>13. Fits(s, u, c, R \cup {i}, RootObject(s, i))
  BY <1>12, AttrFits
<1>14. RootObject(s, i) = {}
  BY DEF RootObject
<1> QED
  BY <1>10, <1>13, <1>14

\* evcpe_attr_init of a parameter.
LEMMA ParamInitFits ==
  ASSUME NEW s, Model(s), NEW c \in 0..Len(s), NEW R, NEW t, Fits(s, t, c, R, {}),
         NEW i \in DOMAIN s, s[i].owner = c, RootAttr(s, i) \notin DOMAIN t.attr,
         s[i].type \notin {"object", "multiple"}
  PROVE  Fits(s, ParamInit(s, t, i), c, R \cup {i}, {})
<1> DEFINE p == RootAttr(s, i)
           u == [t EXCEPT !.attr = Put(@, p, i), !.param = Put(@, p, NewParam)]
<1>0. IsTree(t)
  BY DEF Fits
<1>1. /\ Adds(Put(t.attr, p, i), t.attr, p, i)
      /\ Adds(Put(t.param, p, NewParam), t.param, p, NewParam)
  BY PutAdds
<1>2. ParamInit(s, t, i) = IF s[i].default = Null THEN u ELSE AttrSet(s, u, p, s[i].default)
  BY DEF ParamInit, RootAttr
<1> HIDE DEF p
<1>3. u = [rc |-> t.rc, attr |-> Put(t.attr, p, i), param |-> Put(t.param, p, NewParam),
           list |-> t.list]
  <2>1. t = [rc |-> t.rc, attr |-> t.attr, param |-> t.param, list |-> t.list]
    BY <1>0 DEF IsTree
  <2>2. PICK y : y = u
    OBVIOUS
  <2>3. PICK f, g : f = Put(t.attr, p, i) /\ g = Put(t.param, p, NewParam)
    OBVIOUS
  <2>4. y = [t EXCEPT !.attr = f, !.param = g]
    BY <2>2, <2>3, Zenon
  <2>5. y = [rc |-> t.rc, attr |-> f, param |-> g, list |-> t.list]
    BY <2>1, <2>4, TreeWith, Zenon
  <2> QED
    BY <2>2, <2>3, <2>5, Zenon
<1> HIDE DEF u
<1>4. /\ u = [rc |-> u.rc, attr |-> u.attr, param |-> u.param, list |-> u.list]
      /\ Adds(u.attr, t.attr, p, i) /\ Adds(u.param, t.param, p, NewParam)
      /\ u.list = t.list
  BY <1>1, <1>3
<1>5. IsTree(u)
  <2>1. \A q \in DOMAIN u.param : IsParam(u.param[q])
    <3>1. \A q \in DOMAIN t.param : IsParam(t.param[q])
      BY <1>0 DEF IsTree
    <3> QED
      BY <1>4, <3>1, NewParamIs DEF Adds
  <2>2. \A q \in DOMAIN u.list : IsList(u.list[q])
    BY <1>0, <1>4 DEF IsTree
  <2>3. IsFun(u.attr) /\ IsFun(u.list) /\ IsFun(u.param)
    BY <1>0, <1>4 DEF IsTree, Adds
  <2> QED
    BY <1>4, <2>1, <2>2, <2>3 DEF IsTree
<1>6. AttrMade(s, t, u, i)
  BY <1>4, <1>5 DEF AttrMade, Adds, p
<1>7. RootObject(s, i) = {}
  BY DEF RootObject
<1>8. Fits(s, u, c, R \cup {i}, {})
  <2>1. Fits(s, u, c, R \cup {i}, RootObject(s, i))
    BY <1>6, AttrFits
  <2> QED
    BY <1>7, <2>1
<1>9. Fits(s, AttrSet(s, u, p, s[i].default), c, R \cup {i}, {})
  BY <1>5, <1>8, AttrSetKeeps, KeepsFits
<1> QED
  BY <1>2, <1>8, <1>9

\* evcpe_attr_init of an object: the object is made inside.
LEMMA ObjectAttrFits ==
  ASSUME NEW s, Model(s), NEW c \in 0..Len(s), NEW R, NEW t, Fits(s, t, c, R, {}),
         NEW i \in DOMAIN s, s[i].owner = c, RootAttr(s, i) \notin DOMAIN t.attr,
         s[i].type = "object",
         NEW inside, Fine(s, i, inside), inside.rc = "ok"
  PROVE  Fits(s, Graft([t EXCEPT !.attr = Put(@, RootAttr(s, i), i)], RootAttr(s, i), inside),
              c, R \cup {i}, {})
<1> DEFINE u == [t EXCEPT !.attr = Put(@, RootAttr(s, i), i)]
<1>0. IsTree(t)
  BY DEF Fits
<1>1. PICK p : p = RootAttr(s, i)
  OBVIOUS
<1>2. Adds(Put(t.attr, p, i), t.attr, p, i)
  BY PutAdds
<1>3. u = [rc |-> t.rc, attr |-> Put(t.attr, p, i), param |-> t.param, list |-> t.list]
  <2>1. t = [rc |-> t.rc, attr |-> t.attr, param |-> t.param, list |-> t.list]
    BY <1>0 DEF IsTree
  <2> QED
    BY <1>1, <2>1
<1> HIDE DEF u
<1>4. /\ u = [rc |-> u.rc, attr |-> u.attr, param |-> u.param, list |-> u.list]
      /\ Adds(u.attr, t.attr, p, i)
      /\ u.param = t.param /\ u.list = t.list
  BY <1>2, <1>3
<1>5. IsTree(u)
  <2>1. IsFun(u.attr)
    BY <1>4 DEF Adds
  <2> QED
    BY <1>0, <1>4, <2>1 DEF IsTree
<1>6. AttrMade(s, t, u, i)
  BY <1>1, <1>4, <1>5 DEF AttrMade, Adds
<1>7. RootObject(s, i) = {p}
  BY <1>1 DEF RootObject
<1>8. /\ Fits(s, u, c, R \cup {i}, RootObject(s, i))
      /\ IsObj(s, u, c, RootAttr(s, i), i)
      /\ RootAttr(s, i) # <<>>
  BY <1>6, AttrFits
<1>9. Fits(s, u, c, R \cup {i}, {p}) /\ IsObj(s, u, c, p, i) /\ p # <<>>
  BY <1>1, <1>7, <1>8
<1>10. Fits(s, inside, i, All(s, i), {})
  BY DEF Fine
<1>11. Fits(s, Graft(u, p, inside), c, R \cup {i}, {})
  BY <1>9, <1>10, GraftFits
<1> QED
  BY <1>1, <1>11 DEF u

\* One turn of the loop in evcpe_obj_init.
LEMMA AttrInitFits ==
  ASSUME NEW s, Model(s), NEW c \in 0..Len(s), NEW R, NEW t, Fits(s, t, c, R, {}),
         NEW i \in DOMAIN s, s[i].owner = c,
         NEW inside, Fine(s, i, inside), t.rc = "ok", AttrInit(s, t, i, inside).rc = "ok"
  PROVE  Fits(s, AttrInit(s, t, i, inside), c, R \cup {i}, {})
<1> DEFINE p == RootAttr(s, i)
<1>0. /\ Fails(t, "undefined").rc = "undefined"
      /\ Fails(t, "fault").rc = "fault"
  BY FailsKeeps DEF Fits
<1>1. AttrInit(s, t, i, inside) =
        IF t.rc # "ok" THEN t
        ELSE IF s[i].name = Null THEN Fails(t, "undefined")
        ELSE IF p \in DOMAIN t.attr THEN Fails(t, "fault")
        ELSE CASE s[i].type = "multiple" -> ListInit(s, t, i, inside)
               [] s[i].type = "object" -> Graft([t EXCEPT !.attr = Put(@, p, i)], p, inside)
               [] OTHER -> ParamInit(s, t, i)
  BY Zenon DEF AttrInit, RootAttr
<1> HIDE DEF p
<1>2. \/ AttrInit(s, t, i, inside) \in {Fails(t, "undefined"), Fails(t, "fault")}
      \/ /\ p \notin DOMAIN t.attr
         /\ \/ s[i].type = "multiple" /\ AttrInit(s, t, i, inside) = ListInit(s, t, i, inside)
            \/ /\ s[i].type = "object"
               /\ AttrInit(s, t, i, inside) = Graft([t EXCEPT !.attr = Put(@, p, i)], p, inside)
            \/ /\ s[i].type \notin {"object", "multiple"}
               /\ AttrInit(s, t, i, inside) = ParamInit(s, t, i)
  <2>1. PICK a : a = AttrInit(s, t, i, inside)
    OBVIOUS
  <2>2. PICK g : g = Graft([t EXCEPT !.attr = Put(@, p, i)], p, inside)
    OBVIOUS
  <2>3. PICK d, e : d = Fails(t, "undefined") /\ e = Fails(t, "fault")
    OBVIOUS
  <2>4. a = IF t.rc # "ok" THEN t
            ELSE IF s[i].name = Null THEN d
            ELSE IF p \in DOMAIN t.attr THEN e
            ELSE CASE s[i].type = "multiple" -> ListInit(s, t, i, inside)
                   [] s[i].type = "object" -> g
                   [] OTHER -> ParamInit(s, t, i)
    BY <1>1, <2>1, <2>2, <2>3, Zenon
  <2>5. \/ a \in {d, e}
        \/ /\ p \notin DOMAIN t.attr
           /\ \/ s[i].type = "multiple" /\ a = ListInit(s, t, i, inside)
              \/ s[i].type = "object" /\ a = g
              \/ s[i].type \notin {"object", "multiple"} /\ a = ParamInit(s, t, i)
    BY <2>4
  <2> QED
    BY <2>1, <2>2, <2>3, <2>5, Zenon
<1>3. AttrInit(s, t, i, inside) \notin {Fails(t, "undefined"), Fails(t, "fault")}
  BY <1>0
<1>4. CASE s[i].type = "multiple" /\ AttrInit(s, t, i, inside) = ListInit(s, t, i, inside)
  BY <1>2, <1>3, <1>4, ListInitFits DEF p
<1>5. CASE /\ s[i].type = "object"
           /\ AttrInit(s, t, i, inside) = Graft([t EXCEPT !.attr = Put(@, p, i)], p, inside)
  <2>1. inside.rc = "ok"
    BY <1>5 DEF Graft
  <2> QED
    BY <1>2, <1>3, <1>5, <2>1, ObjectAttrFits DEF p
<1>6. CASE /\ s[i].type \notin {"object", "multiple"}
           /\ AttrInit(s, t, i, inside) = ParamInit(s, t, i)
  BY <1>2, <1>3, <1>6, ParamInitFits DEF p
<1> QED
  BY <1>2, <1>3, <1>4, <1>5, <1>6

-----------------------------------------------------------------------------
(***************************************************************************)
(* New objects: the loop of evcpe_obj_init and the classes inside.         *)
(***************************************************************************)

\* A turn of the loop for class c, and its first n turns.
InitTurn(s, c, made, t, i) == IF s[i].owner = c THEN AttrInit(s, t, i, made[i]) ELSE t

InitChain(s, c, made, n, u) ==
  /\ IsFun(u) /\ DOMAIN u = 0..n
  /\ u[0] = EmptyTree
  /\ \A i \in 1..n : u[i] = InitTurn(s, c, made, u[i - 1], i)

\* The loop can be made of any length, in one way.
LEMMA InitChainExists ==
  ASSUME NEW s, NEW c, NEW made, NEW n \in Nat
  PROVE  \E u : InitChain(s, c, made, n, u)
<1> DEFINE S == {m \in Nat : \E u : InitChain(s, c, made, m, u)}
<1>1. ASSUME NEW m \in Nat, \A k \in Nat : k < m => k \in S PROVE m \in S
  <2>1. CASE m = 0
    <3>1. PICK u : u = [i \in 0..0 |-> EmptyTree]
      OBVIOUS
    <3>2. InitChain(s, c, made, 0, u)
      BY <3>1 DEF InitChain, IsFun
    <3> QED
      BY <2>1, <3>2
  <2>2. CASE m # 0
    <3>1. PICK k \in Nat : m = k + 1
      <4>1. m - 1 \in Nat /\ m = (m - 1) + 1
        BY <2>2
      <4> QED
        BY <4>1
    <3>2. PICK u : InitChain(s, c, made, k, u)
      BY <1>1, <3>1
    <3>3. PICK x : x = InitTurn(s, c, made, u[k], m)
      OBVIOUS
    <3>4. PICK v : v = [i \in 0..m |-> IF i = m THEN x ELSE u[i]]
      OBVIOUS
    <3>5. ASSUME NEW i \in 1..m PROVE v[i] = InitTurn(s, c, made, v[i - 1], i)
      <4>1. CASE i = m
        <5>1. v[i] = x /\ i - 1 = k /\ k \in 0..m /\ k # m
          BY <3>1, <3>4, <4>1
        <5>2. v[i - 1] = u[k]
          BY <3>4, <5>1
        <5> QED
          BY <3>3, <4>1, <5>1, <5>2
      <4>2. CASE i # m
        <5>1. i \in 1..k /\ i - 1 \in 0..m /\ i - 1 # m /\ i \in 0..m
          BY <3>1, <4>2
        <5>2. v[i] = u[i] /\ v[i - 1] = u[i - 1]
          BY <3>4, <4>2, <5>1
        <5>3. u[i] = InitTurn(s, c, made, u[i - 1], i)
          BY <3>2, <5>1 DEF InitChain
        <5> QED
          BY <5>2, <5>3
      <4> QED
        BY <4>1, <4>2
    <3>6. v[0] = EmptyTree
      BY <2>2, <3>2, <3>4 DEF InitChain
    <3>7. IsFun(v) /\ DOMAIN v = 0..m
      BY <3>4 DEF IsFun
    <3>8. InitChain(s, c, made, m, v)
      BY <3>5, <3>6, <3>7 DEF InitChain
    <3> QED
      BY <3>8
  <2> QED
    BY <2>1, <2>2
<1>2. \A k \in Nat : k \in S
  <2> HIDE DEF S
  <2> QED
    BY <1>1, Induct
<1> QED
  BY <1>2

\* In no other way.
LEMMA InitChainStays ==
  ASSUME NEW s, NEW c, NEW made, NEW n \in Nat,
         NEW u, InitChain(s, c, made, n, u), NEW v, InitChain(s, c, made, n, v)
  PROVE  u[n] = v[n]
<1> DEFINE S == {m \in Nat : m \in 0..n => u[m] = v[m]}
<1>1. ASSUME NEW m \in Nat, \A k \in Nat : k < m => k \in S, m \in 0..n PROVE u[m] = v[m]
  <2>1. CASE m = 0
    BY <2>1 DEF InitChain
  <2>2. CASE m # 0
    <3>1. m - 1 \in Nat /\ m - 1 < m /\ m - 1 \in 0..n /\ m \in 1..n
      BY <1>1, <2>2
    <3>2. u[m - 1] = v[m - 1]
      BY <1>1, <3>1
    <3>3. /\ u[m] = InitTurn(s, c, made, u[m - 1], m)
          /\ v[m] = InitTurn(s, c, made, v[m - 1], m)
      BY <3>1 DEF InitChain
    <3> QED
      BY <3>2, <3>3
  <2> QED
    BY <2>1, <2>2
<1>2. \A m \in Nat : (\A k \in Nat : k < m => k \in S) => m \in S
  BY <1>1
<1>3. \A k \in Nat : k \in S
  <2> HIDE DEF S
  <2> QED
    BY <1>2, Induct
<1> QED
  BY <1>3

\* evcpe_obj_init is what the loop ends with.
LEMMA ObjInitIs ==
  ASSUME NEW s, Len(s) \in Nat, NEW c, NEW made, NEW u, InitChain(s, c, made, Len(s), u)
  PROVE  ObjInit(s, c, made) = u[Len(s)]
<1> DEFINE Turn(f, i) == IF i = 0 THEN EmptyTree
                         ELSE IF s[i].owner = c THEN AttrInit(s, f[i - 1], i, made[i])
                         ELSE f[i - 1]
           g == CHOOSE f : f = [i \in 0..Len(s) |-> Turn(f, i)]
<1>1. ObjInit(s, c, made) = g[Len(s)]
  BY Zenon DEF ObjInit
<1>2. ASSUME NEW f, f = [i \in 0..Len(s) |-> Turn(f, i)]
      PROVE  InitChain(s, c, made, Len(s), f)
  <2>1. \A i \in 0..Len(s) : f[i] = Turn(f, i)
    BY <1>2
  <2>2. f[0] = EmptyTree
    BY <2>1
  <2>3. \A i \in 1..Len(s) : f[i] = InitTurn(s, c, made, f[i - 1], i)
    BY <2>1 DEF InitTurn
  <2>4. IsFun(f) /\ DOMAIN f = 0..Len(s)
    BY <1>2 DEF IsFun
  <2> QED
    BY <2>2, <2>3, <2>4 DEF InitChain
<1>3. u = [i \in 0..Len(s) |-> Turn(u, i)]
  <2>1. ASSUME NEW i \in 0..Len(s) PROVE u[i] = Turn(u, i)
    <3>1. CASE i = 0
      BY <3>1 DEF InitChain
    <3>2. CASE i # 0
      <4>1. i \in 1..Len(s)
        BY <3>2
      <4>2. u[i] = InitTurn(s, c, made, u[i - 1], i)
        BY <4>1 DEF InitChain
      <4> QED
        BY <3>2, <4>2 DEF InitTurn
    <3> QED
      BY <3>1, <3>2
  <2>2. IsFun(u) /\ DOMAIN u = 0..Len(s)
    BY DEF InitChain
  <2> HIDE DEF Turn
  <2> QED
    BY <2>1, <2>2 DEF IsFun
<1>4. g = [i \in 0..Len(s) |-> Turn(g, i)]
  BY <1>3, Zenon
<1>5. InitChain(s, c, made, Len(s), g)
  <2> HIDE DEF g
  <2> QED
    BY <1>2, <1>4
<1> HIDE DEF g
<1> QED
  BY <1>1, <1>5, InitChainStays

\* It depends only on the classes inside.
LEMMA ObjInitOf ==
  ASSUME NEW s, Model(s), NEW c, NEW f, NEW g, \A i \in All(s, c) : f[i] = g[i]
  PROVE  ObjInit(s, c, f) = ObjInit(s, c, g)
<1>1. Len(s) \in Nat /\ DOMAIN s = 1..Len(s)
  BY ModelIs
<1>2. PICK u : InitChain(s, c, f, Len(s), u)
  BY <1>1, InitChainExists
<1>3. ASSUME NEW i \in 1..Len(s) PROVE u[i] = InitTurn(s, c, g, u[i - 1], i)
  <2>1. u[i] = InitTurn(s, c, f, u[i - 1], i)
    BY <1>2 DEF InitChain
  <2>2. s[i].owner = c => f[i] = g[i]
    BY <1>1 DEF All
  <2> QED
    BY <2>1, <2>2 DEF InitTurn
<1>4. InitChain(s, c, g, Len(s), u)
  BY <1>2, <1>3 DEF InitChain
<1>5. ObjInit(s, c, f) = u[Len(s)]
  BY <1>1, <1>2, ObjInitIs
<1>6. ObjInit(s, c, g) = u[Len(s)]
  BY <1>1, <1>4, ObjInitIs
<1> QED
  BY <1>5, <1>6

\* There is a new object of each class: those of the last classes first.
LEMMA NewObjectIs ==
  ASSUME NEW s, Model(s)
  PROVE  \A c \in 0..Len(s) : NewObject(s)[c] = ObjInit(s, c, NewObject(s))
<1>0. Len(s) \in Nat /\ DOMAIN s = 1..Len(s)
  BY ModelIs
<1> DEFINE Done(k, f) == /\ IsFun(f) /\ DOMAIN f = 0..Len(s)
                         /\ \A c \in 0..Len(s) : c + k > Len(s) => f[c] = ObjInit(s, c, f)
           S == {k \in Nat : \E f : Done(k, f)}
<1>1. ASSUME NEW m \in Nat, \A k \in Nat : k < m => k \in S PROVE m \in S
  <2>1. CASE m = 0
    <3>1. PICK f : f = [c \in 0..Len(s) |-> EmptyTree]
      OBVIOUS
    <3>2. Done(0, f)
      BY <1>0, <3>1 DEF IsFun
    <3> QED
      BY <2>1, <3>2
  <2>2. CASE m # 0
    <3>1. PICK k \in Nat : m = k + 1
      <4>1. m - 1 \in Nat /\ m = (m - 1) + 1
        BY <2>2
      <4> QED
        BY <4>1
    <3>2. PICK f : Done(k, f)
      <4>1. k < m
        BY <3>1
      <4>2. k \in S
        BY <1>1, <4>1, Zenon
      <4> QED
        BY <4>2
    <3>3. PICK d : d = Len(s) - k
      OBVIOUS
    <3>4. PICK x : x = ObjInit(s, d, f)
      OBVIOUS
    <3>5. PICK g : g = [c \in 0..Len(s) |-> IF c = d THEN x ELSE f[c]]
      OBVIOUS
    <3>6. ASSUME NEW c \in 0..Len(s), c + m > Len(s) PROVE g[c] = ObjInit(s, c, g)
      <4>1. c \in Nat /\ d \in Int /\ (c = d \/ c + k > Len(s)) /\ c >= d
        <5>1. Len(s) \in Nat /\ c \in 0..Len(s) /\ m = k + 1 /\ d = Len(s) - k /\ c + m > Len(s)
          BY <1>0, <3>1, <3>3, <3>6
        <5> QED
          BY <5>1
      <4>2. ASSUME NEW i \in All(s, c) PROVE f[i] = g[i]
        <5>1. i \in 1..Len(s) /\ i \in Nat /\ c < i
          BY <1>0, ModelIs DEF All
        <5>2. i \in 0..Len(s) /\ i # d
          BY <1>0, <4>1, <5>1
        <5> QED
          BY <3>5, <5>2
      <4>3. ObjInit(s, c, f) = ObjInit(s, c, g)
        BY <4>2, ObjInitOf
      <4>4. CASE c = d
        BY <3>4, <3>5, <4>3, <4>4
      <4>5. CASE c # d
        <5>1. g[c] = f[c]
          BY <3>5, <4>5
        <5>2. f[c] = ObjInit(s, c, f)
          BY <3>2, <4>1, <4>5
        <5> QED
          BY <4>3, <5>1, <5>2
      <4> QED
        BY <4>4, <4>5
    <3>7. IsFun(g) /\ DOMAIN g = 0..Len(s)
      BY <3>5 DEF IsFun
    <3>8. Done(m, g)
      BY <3>6, <3>7
    <3> QED
      BY <3>8
  <2> QED
    BY <2>1, <2>2
<1>2. \A k \in Nat : k \in S
  <2> HIDE DEF S
  <2> QED
    BY <1>1, Induct
<1>3. PICK f : Done(Len(s) + 1, f)
  <2>1. Len(s) + 1 \in S
    BY <1>0, <1>2
  <2> QED
    BY <2>1
<1>4. f = [c \in 0..Len(s) |-> ObjInit(s, c, f)]
  <2>1. \A c \in 0..Len(s) : f[c] = ObjInit(s, c, f)
    BY <1>0, <1>3
  <2> QED
    BY <1>3, <2>1 DEF IsFun
<1> DEFINE h == CHOOSE x : x = [c \in 0..Len(s) |-> ObjInit(s, c, x)]
<1>5. NewObject(s) = h
  BY Zenon DEF NewObject
<1>6. h = [c \in 0..Len(s) |-> ObjInit(s, c, h)]
  BY <1>4, Zenon
<1> HIDE DEF h
<1> QED
  BY <1>5, <1>6

\* The loop begins with an object that has no attributes.
LEMMA EmptyTreeFits ==
  ASSUME NEW s, Model(s), NEW c \in 0..Len(s)
  PROVE  Fits(s, EmptyTree, c, {}, {})
<1>1. <<>> \in Seq({}) /\ DOMAIN <<>> = {}
  BY EmptySeq
<1>2. IsFun(<<>>)
  BY <1>1 DEF IsFun
<1>3. PICK t : t = EmptyTree
  OBVIOUS
<1>4. /\ t = [rc |-> t.rc, attr |-> t.attr, param |-> t.param, list |-> t.list]
      /\ t.attr = <<>> /\ t.param = <<>> /\ t.list = <<>>
  BY <1>3 DEF EmptyTree
<1>5. IsTree(t)
  BY <1>1, <1>2, <1>4 DEF IsTree
<1>6. DOMAIN t.attr = {} /\ DOMAIN t.param = {} /\ DOMAIN t.list = {}
  BY <1>1, <1>4
<1>7. ASSUME NEW o \in Path, NEW d, NEW i, IsObj(s, t, c, o, d), Has({}, {}, o, i) PROVE FALSE
  BY <1>6, <1>7 DEF IsObj, Has
<1>8. Fits(s, t, c, {}, {})
  BY <1>5, <1>6, <1>7 DEF Fits
<1> QED
  BY <1>3, <1>8

\* The attributes of class c that schemas 1 to n make.
Upto(s, c, n) == {i \in All(s, c) : i <= n}

\* What the loop of evcpe_obj_init makes fits the model, if the objects of the
\* classes inside do.
LEMMA InitChainFits ==
  ASSUME NEW s, Model(s), NEW c \in 0..Len(s), \A i \in All(s, c) : NewFits(s, i),
         NEW u, InitChain(s, c, NewObject(s), Len(s), u)
  PROVE  u[Len(s)].rc = "ok" => Fits(s, u[Len(s)], c, All(s, c), {})
<1>0. /\ Len(s) \in Nat /\ DOMAIN s = 1..Len(s) /\ All(s, c) \subseteq DOMAIN s
      /\ \A m \in Nat : m \in DOMAIN s <=> m \in 1..Len(s)
  BY ModelIs DEF All
<1> DEFINE Good(m) == u[m].rc = "ok" => Fits(s, u[m], c, Upto(s, c, m), {})
           S == {m \in Nat : m \in 0..Len(s) => Good(m)}
<1>1. ASSUME NEW m \in Nat, \A k \in Nat : k < m => k \in S, m \in 0..Len(s) PROVE Good(m)
  <2>1. CASE m = 0
    <3>1. u[0] = EmptyTree
      BY DEF InitChain
    <3>2. Upto(s, c, 0) = {}
      BY <1>0 DEF Upto
    <3>3. Fits(s, EmptyTree, c, {}, {})
      BY EmptyTreeFits
    <3> QED
      BY <2>1, <3>1, <3>2, <3>3
  <2>2. CASE m # 0
    <3>1. m - 1 \in Nat /\ m - 1 < m /\ m - 1 \in 0..Len(s) /\ m \in 1..Len(s)
      BY <1>1, <2>2
    <3>2. PICK k \in Nat : k = m - 1
      BY <3>1
    <3>3. Good(k)
      BY <1>1, <3>1, <3>2
    <3>4. u[m] = InitTurn(s, c, NewObject(s), u[k], m)
      BY <3>1, <3>2 DEF InitChain
    <3>5. m \in DOMAIN s
      BY <1>0, <3>1
    <3>6. PICK t, v : t = u[k] /\ v = u[m]
      OBVIOUS
    <3>7. t.rc = "ok" => Fits(s, t, c, Upto(s, c, k), {})
      BY <3>3, <3>6, Zenon
    <3>8. SUFFICES ASSUME v.rc = "ok" PROVE Fits(s, v, c, Upto(s, c, m), {})
      BY <3>6, Zenon
    <3>9. \A i \in All(s, c) : i <= m <=> i <= k \/ i = m
      BY <1>0, <3>2
    <3>10. CASE s[m].owner = c
      <4>1. m \in All(s, c) /\ Upto(s, c, m) = Upto(s, c, k) \cup {m}
        BY <3>5, <3>9, <3>10, <1>1 DEF All, Upto
      <4>2. PICK inside : inside = NewObject(s)[m]
        OBVIOUS
      <4>3. v = AttrInit(s, t, m, inside)
        BY <3>4, <3>6, <3>10, <4>2 DEF InitTurn
      <4>4. Fine(s, m, inside)
        BY <4>1, <4>2 DEF Fine, NewFits
      <4>5. t.rc = "ok"
        <5>1. t.rc # "ok" => v = t
          BY <4>3 DEF AttrInit
        <5> QED
          BY <3>8, <5>1
      <4>6. Fits(s, t, c, Upto(s, c, k), {})
        BY <3>7, <4>5
      <4>7. AttrInit(s, t, m, inside).rc = "ok"
        BY <3>8, <4>3, Zenon
      <4>8. Fits(s, AttrInit(s, t, m, inside), c, Upto(s, c, k) \cup {m}, {})
        BY <3>5, <3>10, <4>4, <4>5, <4>6, <4>7, AttrInitFits
      <4> QED
        BY <4>1, <4>3, <4>8, Zenon
    <3>11. CASE s[m].owner # c
      <4>1. v = t
        BY <3>4, <3>6, <3>11 DEF InitTurn
      <4>2. Upto(s, c, m) = Upto(s, c, k)
        BY <3>9, <3>11 DEF Upto, All
      <4> QED
        BY <3>7, <3>8, <4>1, <4>2
    <3> QED
      BY <3>10, <3>11
  <2> QED
    BY <2>1, <2>2
<1>2. \A m \in Nat : m \in S
  <2>1. \A m \in Nat : (\A k \in Nat : k < m => k \in S) => m \in S
    BY <1>1
  <2> HIDE DEF S
  <2> QED
    BY <2>1, Induct
<1>3. Good(Len(s))
  BY <1>0, <1>2
<1>4. Upto(s, c, Len(s)) = All(s, c)
  BY <1>0 DEF Upto
<1> QED
  BY <1>3, <1>4

\* A new object of any class fits the model.
LEMMA NewObjectFits ==
  ASSUME NEW s, Model(s)
  PROVE  \A c \in 0..Len(s) : NewFits(s, c)
<1>0. Len(s) \in Nat /\ DOMAIN s = 1..Len(s)
  BY ModelIs
<1> DEFINE S == {k \in Nat : \A c \in 0..Len(s) : Len(s) - c <= k => NewFits(s, c)}
<1>1. ASSUME NEW m \in Nat, \A k \in Nat : k < m => k \in S,
             NEW c \in 0..Len(s), Len(s) - c <= m
      PROVE  NewFits(s, c)
  <2>1. ASSUME NEW i \in All(s, c) PROVE NewFits(s, i)
    <3>1. i \in Nat /\ i \in 0..Len(s) /\ c < i
      BY <1>0, <2>1, ModelIs DEF All
    <3>2. PICK k \in Nat : Len(s) - i <= k /\ k < m
      <4>1. c \in Nat /\ Len(s) - c <= m /\ i <= Len(s)
        BY <1>0, <1>1, <3>1
      <4>2. Len(s) - i \in Nat /\ Len(s) - i <= Len(s) - i /\ Len(s) - i < m
        BY <1>0, <3>1, <4>1
      <4> QED
        BY <4>2
    <3>3. k \in S
      BY <1>1, <3>2, Zenon
    <3> QED
      BY <3>1, <3>2, <3>3
  <2>2. PICK u : InitChain(s, c, NewObject(s), Len(s), u)
    BY <1>0, InitChainExists
  <2>3. ObjInit(s, c, NewObject(s)) = u[Len(s)]
    BY <1>0, <2>2, ObjInitIs
  <2>4. NewObject(s)[c] = u[Len(s)]
    BY <2>3, NewObjectIs
  <2>5. u[Len(s)].rc = "ok" => Fits(s, u[Len(s)], c, All(s, c), {})
    BY <2>1, <2>2, InitChainFits
  <2> QED
    BY <2>4, <2>5 DEF NewFits
<1>2. \A m \in Nat : m \in S
  <2>1. \A m \in Nat : (\A k \in Nat : k < m => k \in S) => m \in S
    BY <1>1
  <2> HIDE DEF S
  <2> QED
    BY <2>1, Induct
<1>3. ASSUME NEW c \in 0..Len(s) PROVE NewFits(s, c)
  <2>1. Len(s) - c \in Nat /\ Len(s) - c <= Len(s) - c
    BY <1>0
  <2>2. PICK k \in Nat : Len(s) - c <= k
    BY <2>1
  <2> QED
    BY <1>2, <2>2
<1> QED
  BY <1>3

-----------------------------------------------------------------------------
(***************************************************************************)
(* Reading the data file.                                                  *)
(***************************************************************************)

\* The parser has a tree that fits the model, unless it has failed.
Loads(s, r) ==
  /\ r = [stack |-> r.stack, tree |-> r.tree]
  /\ r.tree.rc = "ok" => Fits(s, r.tree, 0, All(s, 0), {})

\* The parser has another stack, or another tree that fits.
LEMMA LoadsTree ==
  ASSUME NEW s, NEW t, t.rc = "ok" => Fits(s, t, 0, All(s, 0), {}), NEW st
  PROVE  Loads(s, [stack |-> st, tree |-> t])
<1>1. PICK r : r = [stack |-> st, tree |-> t]
  OBVIOUS
<1>2. r = [stack |-> r.stack, tree |-> r.tree] /\ r.tree = t
  BY <1>1
<1>3. Loads(s, r)
  BY <1>2 DEF Loads
<1> QED
  BY <1>1, <1>3

\* The parser goes on with a tree that fits.
LEMMA LoadsWith ==
  ASSUME NEW s, NEW r, Loads(s, r), NEW t, t.rc = "ok" => Fits(s, t, 0, All(s, 0), {})
  PROVE  Loads(s, [r EXCEPT !.tree = t])
<1>1. PICK u : u = [r EXCEPT !.tree = t]
  OBVIOUS
<1>2. r = [stack |-> r.stack, tree |-> r.tree]
  BY DEF Loads
<1>3. u = [stack |-> u.stack, tree |-> u.tree] /\ u.tree = t
  BY <1>1, <1>2
<1>4. Loads(s, u)
  BY <1>3 DEF Loads
<1> QED
  BY <1>1, <1>4

\* The parser fails.
LEMMA LoadsWrong ==
  ASSUME NEW s, NEW r, Loads(s, r), r.tree.rc = "ok"
  PROVE  Loads(s, Wrong(r))
<1>1. IsTree(r.tree)
  BY DEF Loads, Fits
<1>2. PICK t : t = Fails(r.tree, "fault")
  OBVIOUS
<1>3. t.rc = "fault"
  BY <1>1, <1>2, FailsKeeps
<1>4. Loads(s, [r EXCEPT !.tree = t])
  BY <1>3, LoadsWith
<1>5. Wrong(r) = [r EXCEPT !.tree = t]
  BY <1>2 DEF Wrong, Fails
<1> QED
  BY <1>4, <1>5

\* evcpe_obj_xml_elm_begin_cb.
LEMMA LoadBeginLoads ==
  ASSUME NEW s, Model(s), NEW r, Loads(s, r), r.tree.rc = "ok", NEW name
  PROVE  Loads(s, LoadBegin(s, r, name))
<1> DEFINE obj == IF r.stack = <<>> THEN <<>> ELSE Last(r.stack).obj
           p == Attr(obj, name)
           enter(o, t) == [stack |-> Append(r.stack, [name |-> name, obj |-> o]), tree |-> t]
           i == r.tree.attr[p]
<1>1. LoadBegin(s, r, name) =
        IF name \in Reserved
          THEN IF name = "string" /\ Open(r, 1) # "AccessList"
                 THEN Wrong(r) ELSE enter(obj, r.tree)
        ELSE IF p \notin DOMAIN r.tree.attr THEN Wrong(r)
        ELSE CASE s[i].type = "object" -> enter(p, r.tree)
               [] s[i].type = "multiple" ->
                    enter(NextObject(r.tree, p), AddObj(s, r.tree, p))
               [] OTHER -> enter(obj, r.tree)
  BY Zenon DEF LoadBegin
<1>2. Fits(s, r.tree, 0, All(s, 0), {})
  BY DEF Loads
<1> HIDE DEF obj, p
<1>3. \A o : Loads(s, enter(o, r.tree))
  BY <1>2, LoadsTree
<1>4. ASSUME p \in DOMAIN r.tree.attr, s[i].type = "multiple"
      PROVE  \A o : Loads(s, enter(o, AddObj(s, r.tree, p)))
  <2>1. p \in DOMAIN r.tree.list
    BY <1>2, <1>4 DEF Fits
  <2>2. \A d \in DOMAIN s : NewFits(s, d)
    BY NewObjectFits, ModelIs
  <2>3. 0 \in 0..Len(s)
    BY ModelIs
  <2>4. Fits(s, AddObj(s, r.tree, p), 0, All(s, 0), {})
    BY <1>2, <2>1, <2>2, <2>3, AddObjFits
  <2> QED
    BY <2>4, LoadsTree
<1>5. Loads(s, Wrong(r))
  BY LoadsWrong
<1> HIDE DEF i, enter
<1>6. PICK x : x = LoadBegin(s, r, name)
  OBVIOUS
<1>7. PICK d, e, f, g :
        /\ d = Wrong(r) /\ e = enter(obj, r.tree) /\ f = enter(p, r.tree)
        /\ g = enter(NextObject(r.tree, p), AddObj(s, r.tree, p))
  OBVIOUS
<1>8. x = IF name \in Reserved
            THEN IF name = "string" /\ Open(r, 1) # "AccessList" THEN d ELSE e
          ELSE IF p \notin DOMAIN r.tree.attr THEN d
          ELSE CASE s[i].type = "object" -> f
                 [] s[i].type = "multiple" -> g
                 [] OTHER -> e
  BY <1>1, <1>6, <1>7, Zenon
<1>9. x \in {d, e, f} \/ (x = g /\ p \in DOMAIN r.tree.attr /\ s[i].type = "multiple")
  BY <1>8
<1>10. Loads(s, d) /\ Loads(s, e) /\ Loads(s, f)
  BY <1>3, <1>5, <1>7, Zenon
<1>11. p \in DOMAIN r.tree.attr /\ s[i].type = "multiple" => Loads(s, g)
  BY <1>4, <1>7, Zenon
<1>12. Loads(s, x)
  BY <1>9, <1>10, <1>11
<1> QED
  BY <1>6, <1>12

\* evcpe_obj_xml_data_cb.
LEMMA LoadTextLoads ==
  ASSUME NEW s, Model(s), NEW r, Loads(s, r), r.tree.rc = "ok", NEW text
  PROVE  Loads(s, LoadText(s, r, text))
<1> DEFINE obj == Last(r.stack).obj
           p == Attr(obj, Open(r, 2))
           q == Attr(obj, Open(r, 3))
           a == [r EXCEPT !.tree = AttrSet(s, @, p, text)]
           b == [r EXCEPT !.tree.param[p].notification = Number[text]]
           c == [r EXCEPT !.tree.param[q].access = Append(@, text)]
<1>1. LoadText(s, r, text) =
        IF Len(r.stack) < 2 THEN Wrong(r)
        ELSE CASE Open(r, 1) = "Value" -> IF p \in DOMAIN r.tree.attr THEN a ELSE Wrong(r)
               [] Open(r, 1) = "Notification" ->
                    IF /\ p \in DOMAIN r.tree.param
                       /\ text \in DOMAIN Number /\ Number[text] \in 0..2
                      THEN b ELSE Wrong(r)
               [] Open(r, 1) = "string" ->
                    IF q \in DOMAIN r.tree.param THEN c ELSE Wrong(r)
               [] OTHER -> IF text = "" THEN r ELSE Wrong(r)
  BY Zenon DEF LoadText
<1>2. Fits(s, r.tree, 0, All(s, 0), {}) /\ r = [stack |-> r.stack, tree |-> r.tree]
  BY DEF Loads
<1>3. IsTree(r.tree) /\ \A x \in DOMAIN r.tree.param : IsParam(r.tree.param[x])
  BY <1>2 DEF Fits, IsTree
<1> HIDE DEF p, q
<1>4. Loads(s, a)
  <2>1. PICK t : t = AttrSet(s, r.tree, p, text)
    OBVIOUS
  <2>2. Keeps(r.tree, t)
    BY <1>3, <2>1, AttrSetKeeps
  <2>3. Fits(s, t, 0, All(s, 0), {})
    BY <1>2, <2>2, KeepsFits
  <2>4. Loads(s, [r EXCEPT !.tree = t])
    BY <2>3, LoadsWith
  <2>5. a = [r EXCEPT !.tree = t]
    BY <2>1
  <2> QED
    BY <2>4, <2>5
<1>5. ASSUME NEW x \in DOMAIN r.tree.param, NEW v, IsParam(v)
      PROVE  Loads(s, [r EXCEPT !.tree.param[x] = v])
  <2>1. PICK t : t = [r.tree EXCEPT !.param[x] = v]
    OBVIOUS
  <2>2. Keeps(r.tree, t)
    BY <1>3, <1>5, <2>1, ParamKeeps
  <2>3. Fits(s, t, 0, All(s, 0), {})
    BY <1>2, <2>2, KeepsFits
  <2>4. Loads(s, [r EXCEPT !.tree = t])
    BY <2>3, LoadsWith
  <2>5. [r EXCEPT !.tree.param[x] = v] = [r EXCEPT !.tree = t]
    BY <2>1
  <2> QED
    BY <2>4, <2>5
<1>6. p \in DOMAIN r.tree.param => Loads(s, b)
  <2> SUFFICES ASSUME p \in DOMAIN r.tree.param PROVE Loads(s, b)
    OBVIOUS
  <2>1. PICK v : v = [r.tree.param[p] EXCEPT !.notification = Number[text]]
    OBVIOUS
  <2>2. IsParam(v)
    BY <1>3, <2>1, ParamIs
  <2>3. b = [r EXCEPT !.tree.param[p] = v]
    BY <2>1
  <2> QED
    BY <1>5, <2>2, <2>3
<1>7. q \in DOMAIN r.tree.param => Loads(s, c)
  <2> SUFFICES ASSUME q \in DOMAIN r.tree.param PROVE Loads(s, c)
    OBVIOUS
  <2>1. PICK v : v = [r.tree.param[q] EXCEPT !.access = Append(@, text)]
    OBVIOUS
  <2>2. IsParam(v)
    BY <1>3, <2>1, ParamIs
  <2>3. c = [r EXCEPT !.tree.param[q] = v]
    BY <2>1
  <2> QED
    BY <1>5, <2>2, <2>3
<1>8. Loads(s, Wrong(r))
  BY LoadsWrong
<1> HIDE DEF a, b, c
<1>9. PICK x, w : x = LoadText(s, r, text) /\ w = Wrong(r)
  OBVIOUS
<1>10. PICK B \in BOOLEAN : B = (text = "")
  OBVIOUS
<1>11. x = IF Len(r.stack) < 2 THEN w
           ELSE CASE Open(r, 1) = "Value" -> IF p \in DOMAIN r.tree.attr THEN a ELSE w
                  [] Open(r, 1) = "Notification" ->
                       IF /\ p \in DOMAIN r.tree.param
                          /\ text \in DOMAIN Number /\ Number[text] \in 0..2
                         THEN b ELSE w
                  [] Open(r, 1) = "string" ->
                       IF q \in DOMAIN r.tree.param THEN c ELSE w
                  [] OTHER -> IF B THEN r ELSE w
  BY <1>1, <1>9, <1>10, Zenon
<1>12. \/ x \in {w, a, r}
       \/ x = b /\ p \in DOMAIN r.tree.param
       \/ x = c /\ q \in DOMAIN r.tree.param
  BY <1>11
<1>13. Loads(s, w) /\ Loads(s, r)
  BY <1>8, <1>9
<1>14. Loads(s, x)
  BY <1>4, <1>6, <1>7, <1>12, <1>13
<1> QED
  BY <1>9, <1>14

\* One callback.
LEMMA TakeLoads ==
  ASSUME NEW s, Model(s), NEW r, Loads(s, r), NEW event
  PROVE  Loads(s, Take(s, r, event))
<1>1. CASE r.tree.rc # "ok"
  BY <1>1 DEF Take
<1>2. CASE r.tree.rc = "ok"
  <2>1. PICK x, w, b, t, e :
          /\ x = Take(s, r, event) /\ w = Wrong(r)
          /\ b = LoadBegin(s, r, event.text)
          /\ t = LoadText(s, r, Delivered(event.text))
          /\ e = [r EXCEPT !.stack = Front(@)]
    OBVIOUS
  <2>2. x = CASE event.kind = "begin" -> b
              [] event.kind = "text" -> IF event.text = "<" THEN w ELSE t
              [] OTHER -> IF Open(r, 1) = event.text THEN e ELSE w
    BY <1>2, <2>1, Zenon DEF Take
  <2>3. x \in {b, w, t, e}
    BY <2>2
  <2>4. Loads(s, w)
    BY <1>2, <2>1, LoadsWrong
  <2>5. Loads(s, b)
    BY <1>2, <2>1, LoadBeginLoads
  <2>6. Loads(s, t)
    BY <1>2, <2>1, LoadTextLoads
  <2>7. Loads(s, e)
    <3>1. PICK st : st = Front(r.stack)
      OBVIOUS
    <3>2. e = [stack |-> st, tree |-> r.tree]
      BY <2>1, <3>1 DEF Loads
    <3>3. Loads(s, [stack |-> st, tree |-> r.tree])
      BY LoadsTree DEF Loads
    <3> QED
      BY <3>2, <3>3
  <2>8. Loads(s, x)
    BY <2>3, <2>4, <2>5, <2>6, <2>7
  <2> QED
    BY <2>1, <2>8
<1> QED
  BY <1>1, <1>2

\* The parser after n callbacks.
TakeChain(s, data, n, u) ==
  /\ IsFun(u) /\ DOMAIN u = 0..n
  /\ u[0] = Loading(NewObject(s)[0])
  /\ \A k \in 1..n : u[k] = Take(s, u[k - 1], data[k])

\* It can be run for any number of them.
LEMMA TakeChainExists ==
  ASSUME NEW s, NEW f, NEW n \in Nat
  PROVE  \E u : TakeChain(s, f, n, u)
<1> DEFINE S == {m \in Nat : \E u : TakeChain(s, f, m, u)}
<1>1. ASSUME NEW m \in Nat, \A k \in Nat : k < m => k \in S PROVE m \in S
  <2>1. CASE m = 0
    <3>1. PICK u : u = [i \in 0..0 |-> Loading(NewObject(s)[0])]
      OBVIOUS
    <3>2. TakeChain(s, f, 0, u)
      BY <3>1 DEF TakeChain, IsFun
    <3> QED
      BY <2>1, <3>2
  <2>2. CASE m # 0
    <3>1. PICK k \in Nat : m = k + 1
      <4>1. m - 1 \in Nat /\ m = (m - 1) + 1
        BY <2>2
      <4> QED
        BY <4>1
    <3>2. PICK u : TakeChain(s, f, k, u)
      BY <1>1, <3>1
    <3>3. PICK x : x = Take(s, u[k], f[m])
      OBVIOUS
    <3>4. PICK v : v = [i \in 0..m |-> IF i = m THEN x ELSE u[i]]
      OBVIOUS
    <3>5. ASSUME NEW i \in 1..m PROVE v[i] = Take(s, v[i - 1], f[i])
      <4>1. CASE i = m
        <5>1. v[i] = x /\ i - 1 = k /\ k \in 0..m /\ k # m
          BY <3>1, <3>4, <4>1
        <5>2. v[i - 1] = u[k]
          BY <3>4, <5>1
        <5> QED
          BY <3>3, <4>1, <5>1, <5>2
      <4>2. CASE i # m
        <5>1. i \in 1..k /\ i - 1 \in 0..m /\ i - 1 # m /\ i \in 0..m
          BY <3>1, <4>2
        <5>2. v[i] = u[i] /\ v[i - 1] = u[i - 1]
          BY <3>4, <4>2, <5>1
        <5>3. u[i] = Take(s, u[i - 1], f[i])
          BY <3>2, <5>1 DEF TakeChain
        <5> QED
          BY <5>2, <5>3
      <4> QED
        BY <4>1, <4>2
    <3>6. v[0] = Loading(NewObject(s)[0])
      BY <2>2, <3>2, <3>4 DEF TakeChain
    <3>7. IsFun(v) /\ DOMAIN v = 0..m
      BY <3>4 DEF IsFun
    <3>8. TakeChain(s, f, m, v)
      BY <3>5, <3>6, <3>7 DEF TakeChain
    <3> QED
      BY <3>8
  <2> QED
    BY <2>1, <2>2
<1>2. \A k \in Nat : k \in S
  <2> HIDE DEF S
  <2> QED
    BY <1>1, Induct
<1> QED
  BY <1>2

\* What is read fits the model, whatever the file has in it.
LEMMA ReadFits ==
  ASSUME NEW s, Model(s), NEW f, IsSeq(f), Read(s, f).rc = "ok"
  PROVE  Fits(s, Read(s, f), 0, All(s, 0), {})
<1>0. PICK n \in Nat : n = Len(f)
  BY DEF IsSeq
<1> DEFINE Turn(u, k) == IF k = 0 THEN Loading(NewObject(s)[0]) ELSE Take(s, u[k - 1], f[k])
           g == CHOOSE u : u = [k \in 0..Len(f) |-> Turn(u, k)]
<1>1. Read(s, f) = g[Len(f)].tree
  BY Zenon DEF Read
<1>2. PICK u : TakeChain(s, f, n, u)
  BY TakeChainExists
<1>3. u = [k \in 0..Len(f) |-> Turn(u, k)]
  <2>1. ASSUME NEW k \in 0..n PROVE u[k] = Turn(u, k)
    <3>1. CASE k = 0
      BY <1>2, <3>1 DEF TakeChain
    <3>2. CASE k # 0
      <4>1. k \in 1..n
        BY <3>2
      <4>2. u[k] = Take(s, u[k - 1], f[k])
        BY <1>2, <4>1 DEF TakeChain
      <4> QED
        BY <3>2, <4>2
    <3> QED
      BY <3>1, <3>2
  <2>2. IsFun(u) /\ DOMAIN u = 0..n
    BY <1>2 DEF TakeChain
  <2> HIDE DEF Turn
  <2> QED
    BY <1>0, <2>1, <2>2 DEF IsFun
<1>4. g = [k \in 0..Len(f) |-> Turn(g, k)]
  BY <1>3, Zenon
<1>5. \A k \in 0..n : g[k] = Turn(g, k)
  <2> HIDE DEF g
  <2> QED
    BY <1>0, <1>4
<1> HIDE DEF g
<1> DEFINE S == {m \in Nat : m \in 0..n => Loads(s, g[m])}
<1>6. ASSUME NEW m \in Nat, \A k \in Nat : k < m => k \in S, m \in 0..n PROVE Loads(s, g[m])
  <2>1. CASE m = 0
    <3>1. g[m] = [stack |-> <<>>, tree |-> NewObject(s)[0]]
      BY <1>5, <1>6, <2>1 DEF Loading
    <3>2. NewFits(s, 0)
      BY NewObjectFits, ModelIs
    <3>3. Loads(s, [stack |-> <<>>, tree |-> NewObject(s)[0]])
      BY <3>2, LoadsTree DEF NewFits
    <3> QED
      BY <3>1, <3>3
  <2>2. CASE m # 0
    <3>1. m - 1 \in Nat /\ m - 1 < m /\ m - 1 \in 0..n
      BY <1>6, <2>2
    <3>2. Loads(s, g[m - 1])
      BY <1>6, <3>1
    <3>3. g[m] = Take(s, g[m - 1], f[m])
      BY <1>5, <1>6, <2>2
    <3> QED
      BY <3>2, <3>3, TakeLoads
  <2> QED
    BY <2>1, <2>2
<1>7. \A m \in Nat : m \in S
  <2>1. \A m \in Nat : (\A k \in Nat : k < m => k \in S) => m \in S
    BY <1>6
  <2> HIDE DEF S
  <2> QED
    BY <2>1, Induct
<1>8. Loads(s, g[n])
  BY <1>7
<1>9. PICK t : t = Read(s, f)
  OBVIOUS
<1>10. t = g[n].tree
  BY <1>0, <1>1, <1>9
<1>11. t.rc = "ok"
  BY <1>9
<1>12. Fits(s, t, 0, All(s, 0), {})
  BY <1>8, <1>10, <1>11 DEF Loads
<1> QED
  BY <1>9, <1>12

-----------------------------------------------------------------------------
(***************************************************************************)
(* Writing the data file.                                                  *)
(***************************************************************************)

\* A function on 1 to n is a sequence, and so is what is made of sequences.
LEMMA FunIsSeq ==
  ASSUME NEW f, NEW n \in Nat, IsFun(f), DOMAIN f = 1..n
  PROVE  IsSeq(f) /\ Len(f) = n
<1> DEFINE S == {f[i] : i \in 1..n}
<1>1. f \in [1..n -> S]
  BY DEF IsFun
<1>2. f \in Seq(S)
  <2> HIDE DEF S
  <2> QED
    BY <1>1
<1>3. Len(f) = n
  BY <1>2
<1> QED
  BY <1>2, <1>3 DEF IsSeq

\* Sequences can be put together.
LEMMA ConcatIsSeq ==
  ASSUME NEW f, IsSeq(f), NEW g, IsSeq(g)
  PROVE  IsSeq(f \o g)
<1>1. PICK S : f \in Seq(S)
  BY DEF IsSeq
<1>2. PICK T : g \in Seq(T)
  BY DEF IsSeq
<1>3. f \in Seq(S \cup T) /\ g \in Seq(S \cup T)
  BY <1>1, <1>2
<1>4. f \o g \in Seq(S \cup T)
  BY <1>3
<1> QED
  BY <1>4 DEF IsSeq

\* There is a sequence of nothing.
LEMMA EmptyIsSeq == IsSeq(<<>>)
<1>1. <<>> \in Seq({})
  BY EmptySeq
<1> QED
  BY <1>1 DEF IsSeq

\* The elements of a sequence of sequences make a sequence.
LEMMA FlattenIsSeq ==
  ASSUME NEW q, IsSeq(q), \A i \in DOMAIN q : IsSeq(q[i])
  PROVE  IsSeq(FlattenSeq(q))
<1>0. PICK n \in Nat : n = Len(q) /\ DOMAIN q = 1..n
  BY DEF IsSeq
<1> DEFINE Turn(u, i) == IF i = 1 THEN q[i] ELSE u[i - 1] \o q[i]
           g == CHOOSE u : u = [i \in 1..Len(q) |-> Turn(u, i)]
           Chain(m, u) == IsFun(u) /\ DOMAIN u = 1..m /\ \A i \in 1..m : u[i] = Turn(u, i)
           S == {m \in Nat : \E u : Chain(m, u)}
<1>1. FlattenSeq(q) = IF Len(q) = 0 THEN q ELSE g[Len(q)]
  BY Zenon DEF FlattenSeq
<1>2. ASSUME NEW m \in Nat, \A k \in Nat : k < m => k \in S PROVE m \in S
  <2>1. CASE m = 0
    <3>1. PICK u : u = [i \in 1..0 |-> <<>>]
      OBVIOUS
    <3>2. Chain(0, u)
      BY <3>1 DEF IsFun
    <3> QED
      BY <2>1, <3>2
  <2>2. CASE m # 0
    <3>1. PICK k \in Nat : m = k + 1
      <4>1. m - 1 \in Nat /\ m = (m - 1) + 1
        BY <2>2
      <4> QED
        BY <4>1
    <3>2. PICK u : Chain(k, u)
      <4>1. k < m
        BY <3>1
      <4>2. k \in S
        BY <1>2, <4>1, Zenon
      <4> QED
        BY <4>2
    <3>3. PICK x : x = Turn(u, m)
      OBVIOUS
    <3>4. PICK v : v = [i \in 1..m |-> IF i = m THEN x ELSE u[i]]
      OBVIOUS
    <3>5. ASSUME NEW i \in 1..m PROVE v[i] = Turn(v, i)
      <4>1. i # 1 => i - 1 \in 1..m /\ i - 1 # m
        OBVIOUS
      <4>2. i # 1 => v[i - 1] = u[i - 1]
        BY <3>4, <4>1
      <4>3. CASE i = m
        BY <3>3, <3>4, <4>2, <4>3
      <4>4. CASE i # m
        <5>1. i \in 1..k
          BY <3>1, <4>4
        <5>2. v[i] = u[i]
          BY <3>4, <4>4
        <5>3. u[i] = Turn(u, i)
          BY <3>2, <5>1
        <5> QED
          BY <4>2, <5>2, <5>3
      <4> QED
        BY <4>3, <4>4
    <3>6. IsFun(v) /\ DOMAIN v = 1..m
      BY <3>4 DEF IsFun
    <3>7. Chain(m, v)
      BY <3>5, <3>6
    <3> QED
      BY <3>7
  <2> QED
    BY <2>1, <2>2
<1>3. PICK u : Chain(n, u)
  <2>1. \A k \in Nat : k \in S
    <3> HIDE DEF S
    <3> QED
      BY <1>2, Induct
  <2> QED
    BY <2>1
<1>4. g = [i \in 1..Len(q) |-> Turn(g, i)]
  <2>1. u = [i \in 1..n |-> Turn(u, i)]
    <3> HIDE DEF Turn
    <3> QED
      BY <1>3 DEF IsFun
  <2>2. u = [i \in 1..Len(q) |-> Turn(u, i)]
    BY <1>0, <2>1
  <2> QED
    BY <2>2, Zenon
<1>5. \A i \in 1..n : g[i] = Turn(g, i)
  <2> HIDE DEF g
  <2> QED
    BY <1>0, <1>4
<1> HIDE DEF g
<1> DEFINE T == {m \in Nat : m \in 1..n => IsSeq(g[m])}
<1>6. ASSUME NEW m \in Nat, \A k \in Nat : k < m => k \in T, m \in 1..n PROVE IsSeq(g[m])
  <2>1. CASE m = 1
    BY <1>0, <1>5, <1>6, <2>1
  <2>2. CASE m # 1
    <3>1. m - 1 \in Nat /\ m - 1 < m /\ m - 1 \in 1..n
      BY <1>6, <2>2
    <3>2. IsSeq(g[m - 1])
      BY <1>6, <3>1
    <3>3. g[m] = g[m - 1] \o q[m]
      BY <1>5, <1>6, <2>2
    <3>4. IsSeq(q[m])
      BY <1>0, <1>6
    <3>5. IsSeq(g[m - 1] \o q[m])
      BY <3>2, <3>4, ConcatIsSeq
    <3> QED
      BY <3>3, <3>5
  <2> QED
    BY <2>1, <2>2
<1>7. \A m \in Nat : m \in T
  <2>1. \A m \in Nat : (\A k \in Nat : k < m => k \in T) => m \in T
    BY <1>6
  <2> HIDE DEF T
  <2> QED
    BY <2>1, Induct
<1>8. CASE n = 0
  BY <1>0, <1>1, <1>8
<1>9. CASE n # 0
  <2>1. n \in 1..n
    BY <1>9
  <2>2. IsSeq(g[n])
    BY <1>7, <2>1
  <2>3. FlattenSeq(q) = g[n]
    BY <1>0, <1>1, <1>9
  <2> QED
    BY <2>2, <2>3
<1> QED
  BY <1>8, <1>9

\* An element is a sequence of callbacks.
LEMMA ElementIsSeq ==
  ASSUME NEW name, NEW content, IsSeq(content)
  PROVE  IsSeq(Element(name, content))
<1> DEFINE c == IF content = <<>> THEN <<TextIs("")>> ELSE content
<1>1. IsSeq(<<BeginOf(name)>>) /\ IsSeq(<<EndOf(name)>>)
  <2>1. \A x : <<x>> \in Seq({x})
    OBVIOUS
  <2> QED
    BY <2>1 DEF IsSeq
<1>2. IsSeq(<<TextIs("")>>)
  <2>1. PICK x : x = TextIs("")
    OBVIOUS
  <2>2. <<x>> \in Seq({x})
    OBVIOUS
  <2>3. IsSeq(<<x>>)
    BY <2>2 DEF IsSeq
  <2> QED
    BY <2>1, <2>3, Zenon
<1>3. IsSeq(c)
  BY <1>2, Zenon
<1> HIDE DEF c
<1>4. IsSeq(<<BeginOf(name)>> \o c)
  BY <1>1, <1>3, ConcatIsSeq
<1>5. IsSeq(<<BeginOf(name)>> \o c \o <<EndOf(name)>>)
  BY <1>1, <1>4, ConcatIsSeq
<1> QED
  BY <1>5, Zenon DEF Element, c

\* So is one with a text.
LEMMA LeafIsSeq ==
  ASSUME NEW name, NEW text
  PROVE  IsSeq(Leaf(name, text))
<1>1. \A x, y, z : <<x, y, z>> \in Seq({x, y, z})
  OBVIOUS
<1> QED
  BY <1>1 DEF Leaf, IsSeq

\* So is a parameter.
LEMMA ParamIsSeq ==
  ASSUME NEW name, NEW x, IsParam(x)
  PROVE  IsSeq(WriteParam(name, x))
<1> DEFINE a == IF x.value = Null THEN <<>> ELSE Leaf("Value", x.value)
           b == IF x.notification = 0 THEN <<>>
                ELSE Leaf("Notification", TextOf(x.notification))
           f == [k \in DOMAIN x.access |-> Leaf("string", x.access[k])]
           c == IF x.access = <<>> THEN <<>> ELSE Element("AccessList", FlattenSeq(f))
<1>1. IsSeq(a) /\ IsSeq(b)
  BY LeafIsSeq, EmptyIsSeq
<1>2. PICK n \in Nat : DOMAIN x.access = 1..n
  BY DEF IsParam, IsSeq
<1>3. IsSeq(f) /\ \A k \in DOMAIN f : IsSeq(f[k])
  <2>1. IsFun(f) /\ DOMAIN f = 1..n
    BY <1>2 DEF IsFun
  <2>2. IsSeq(f)
    <3> HIDE DEF f
    <3> QED
      BY <2>1, FunIsSeq
  <2>3. ASSUME NEW k \in DOMAIN f PROVE IsSeq(f[k])
    BY LeafIsSeq
  <2> QED
    BY <2>2, <2>3
<1> HIDE DEF f
<1>4. IsSeq(c)
  <2>1. IsSeq(FlattenSeq(f))
    BY <1>3, FlattenIsSeq
  <2>2. IsSeq(Element("AccessList", FlattenSeq(f)))
    BY <2>1, ElementIsSeq
  <2> QED
    BY <2>2, EmptyIsSeq
<1>5. WriteParam(name, x) = IF x = NewParam THEN <<>> ELSE Element(name, a \o b \o c)
  BY Zenon DEF WriteParam, f
<1> HIDE DEF a, b, c
<1>6. IsSeq(a \o b)
  BY <1>1, ConcatIsSeq
<1>7. IsSeq(a \o b \o c)
  BY <1>4, <1>6, ConcatIsSeq
<1>8. IsSeq(Element(name, a \o b \o c))
  BY <1>7, ElementIsSeq
<1> QED
  BY <1>5, <1>8, EmptyIsSeq

\* The attributes of an object are there, after the schema of its class.
LEMMA AttrOfObject ==
  ASSUME NEW s, Model(s), NEW t, NEW c \in 0..Len(s), Fits(s, t, c, All(s, c), {}),
         NEW o, NEW d, IsObj(s, t, c, o, d), NEW i \in All(s, d)
  PROVE  Attr(o, s[i].name) \in DOMAIN t.attr /\ t.attr[Attr(o, s[i].name)] > d
<1>1. o \in Path /\ d \in 0..Len(s)
  BY ObjectHasPath
<1>2. o = <<>> => d = c
  <2>1. IsObj(s, t, c, <<>>, c)
    BY DEF IsObj
  <2> QED
    BY <2>1, ObjectOfOneClass
<1>3. i \in DOMAIN s /\ s[i].owner = d /\ Has(All(s, c), {}, o, i)
  BY <1>2 DEF All, Has
<1>4. PICK q : q = Attr(o, s[i].name)
  OBVIOUS
<1>5. q \in DOMAIN t.attr
  BY <1>1, <1>3, <1>4 DEF Fits
<1>6. PICK j : j = t.attr[q]
  OBVIOUS
<1>7. /\ j \in DOMAIN s
      /\ \E x \in Path : IsObj(s, t, c, x, s[j].owner) /\ q = Attr(x, s[j].name)
  BY <1>5, <1>6 DEF Fits, InObject
<1>8. PICK x \in Path : IsObj(s, t, c, x, s[j].owner) /\ q = Attr(x, s[j].name)
  BY <1>7
<1>9. s[i].name \in Word /\ s[j].name \in Word
  BY <1>3, <1>7, ModelIs
<1>10. x = o
  <2>1. Attr(o, s[i].name) = Attr(x, s[j].name)
    BY <1>4, <1>8
  <2> QED
    BY <1>1, <1>9, <2>1, Apart
<1>11. s[j].owner = d
  BY <1>8, <1>10, ObjectOfOneClass
<1>12. d < j
  BY <1>7, <1>11, ModelIs
<1>13. j > d
  BY <1>1, <1>7, <1>12, ModelIs
<1> QED
  BY <1>4, <1>5, <1>6, <1>13

\* What an object is written as depends on the attributes in it only.
LEMMA ObjTextOf ==
  ASSUME NEW s, Model(s), NEW t, NEW c \in 0..Len(s), Fits(s, t, c, All(s, c), {}),
         NEW o, NEW d, IsObj(s, t, c, o, d),
         NEW f, NEW g, \A q \in DOMAIN t.attr : t.attr[q] > d => f[q] = g[q]
  PROVE  ObjText(s, o, d, f) = ObjText(s, o, d, g)
<1> DEFINE F(i) == IF s[i].owner = d THEN f[Attr(o, s[i].name)] ELSE <<>>
           G(i) == IF s[i].owner = d THEN g[Attr(o, s[i].name)] ELSE <<>>
<1>1. ASSUME NEW i \in DOMAIN s PROVE F(i) = G(i)
  <2>1. s[i].owner = d => i \in All(s, d)
    BY DEF All
  <2>2. s[i].owner = d => f[Attr(o, s[i].name)] = g[Attr(o, s[i].name)]
    BY <2>1, AttrOfObject
  <2> QED
    BY <2>2
<1>2. ObjText(s, o, d, f) = FlattenSeq([i \in DOMAIN s |-> F(i)])
  BY Zenon DEF ObjText
<1>3. ObjText(s, o, d, g) = FlattenSeq([i \in DOMAIN s |-> G(i)])
  BY Zenon DEF ObjText
<1> HIDE DEF F, G
<1>4. [i \in DOMAIN s |-> F(i)] = [i \in DOMAIN s |-> G(i)]
  BY <1>1
<1> QED
  BY <1>2, <1>3, <1>4, Zenon

\* An object is written as a sequence, if its attributes are.
LEMMA ObjTextIsSeq ==
  ASSUME NEW s, Model(s), NEW t, NEW c \in 0..Len(s), Fits(s, t, c, All(s, c), {}),
         NEW o, NEW d, IsObj(s, t, c, o, d),
         NEW f, \A q \in DOMAIN t.attr : t.attr[q] > d => IsSeq(f[q])
  PROVE  IsSeq(ObjText(s, o, d, f))
<1> DEFINE F(i) == IF s[i].owner = d THEN f[Attr(o, s[i].name)] ELSE <<>>
           h == [i \in DOMAIN s |-> F(i)]
<1>1. ASSUME NEW i \in DOMAIN s PROVE IsSeq(F(i))
  <2>1. s[i].owner = d => i \in All(s, d)
    BY DEF All
  <2>2. s[i].owner = d => IsSeq(f[Attr(o, s[i].name)])
    BY <2>1, AttrOfObject
  <2> QED
    BY <2>2, EmptyIsSeq
<1>2. ObjText(s, o, d, f) = FlattenSeq(h)
  BY Zenon DEF ObjText
<1> HIDE DEF F
<1>3. IsFun(h) /\ DOMAIN h = 1..Len(s) /\ Len(s) \in Nat
  BY ModelIs DEF IsFun
<1>4. \A i \in DOMAIN h : IsSeq(h[i])
  BY <1>1
<1> HIDE DEF h
<1>5. IsSeq(h)
  BY <1>3, FunIsSeq
<1>6. IsSeq(FlattenSeq(h))
  BY <1>4, <1>5, FlattenIsSeq
<1> QED
  BY <1>2, <1>6

\* So does what an attribute is written as.
LEMMA WriteAttrOf ==
  ASSUME NEW s, Model(s), NEW t, NEW c \in 0..Len(s), Fits(s, t, c, All(s, c), {}),
         NEW p \in DOMAIN t.attr,
         NEW f, NEW g, \A q \in DOMAIN t.attr : t.attr[q] > t.attr[p] => f[q] = g[q]
  PROVE  WriteAttr(s, t, p, f) = WriteAttr(s, t, p, g)
<1> DEFINE i == t.attr[p]
           name == s[i].name
           F(k) == IF ~t.list[p].slots[k] THEN <<>>
                   ELSE Element(name, ObjText(s, Object(p, k), i, f))
           G(k) == IF ~t.list[p].slots[k] THEN <<>>
                   ELSE Element(name, ObjText(s, Object(p, k), i, g))
           D == DOMAIN t.list[p].slots
<1>1. /\ WriteAttr(s, t, p, f) =
           CASE s[i].type = "object" -> Element(name, ObjText(s, p, i, f))
             [] s[i].type = "multiple" -> FlattenSeq([k \in D |-> F(k)])
             [] OTHER -> WriteParam(name, t.param[p])
      /\ WriteAttr(s, t, p, g) =
           CASE s[i].type = "object" -> Element(name, ObjText(s, p, i, g))
             [] s[i].type = "multiple" -> FlattenSeq([k \in D |-> G(k)])
             [] OTHER -> WriteParam(name, t.param[p])
  BY Zenon DEF WriteAttr
<1>2. CASE s[i].type = "object"
  <2>1. IsObj(s, t, c, p, i)
    BY <1>2 DEF IsObj
  <2>2. ObjText(s, p, i, f) = ObjText(s, p, i, g)
    BY <2>1, ObjTextOf
  <2> HIDE DEF F, G
  <2> QED
    BY <1>1, <1>2, <2>2
<1>3. CASE s[i].type = "multiple"
  <2>1. p \in DOMAIN t.list
    BY <1>3 DEF Fits
  <2>2. IsList(t.list[p])
    BY <2>1 DEF Fits, IsTree
  <2>3. ASSUME NEW k \in D PROVE F(k) = G(k)
    <3>1. CASE t.list[p].slots[k]
      <4>1. k \in Taken(t.list[p])
        BY <2>2, <3>1, TakenIs DEF IsList
      <4>2. IsObj(s, t, c, Object(p, k), i)
        BY <2>1, <4>1 DEF IsObj
      <4>3. ObjText(s, Object(p, k), i, f) = ObjText(s, Object(p, k), i, g)
        BY <4>2, ObjTextOf
      <4> QED
        BY <4>3
    <3>2. CASE ~t.list[p].slots[k]
      BY <3>2
    <3> QED
      BY <3>1, <3>2
  <2> HIDE DEF F, G
  <2>4. [k \in D |-> F(k)] = [k \in D |-> G(k)]
    BY <2>3
  <2>5. s[i].type # "object"
    BY <1>3
  <2> QED
    BY <1>1, <1>3, <2>4, <2>5
<1>4. CASE s[i].type \notin {"object", "multiple"}
  <2> HIDE DEF F, G
  <2> QED
    BY <1>1, <1>4
<1> QED
  BY <1>2, <1>3, <1>4

\* An attribute is, if the attributes in it are.
LEMMA WriteAttrIsSeq ==
  ASSUME NEW s, Model(s), NEW t, NEW c \in 0..Len(s), Fits(s, t, c, All(s, c), {}),
         NEW p \in DOMAIN t.attr,
         NEW f, \A q \in DOMAIN t.attr : t.attr[q] > t.attr[p] => IsSeq(f[q])
  PROVE  IsSeq(WriteAttr(s, t, p, f))
<1> DEFINE i == t.attr[p]
           name == s[i].name
           F(k) == IF ~t.list[p].slots[k] THEN <<>>
                   ELSE Element(name, ObjText(s, Object(p, k), i, f))
           D == DOMAIN t.list[p].slots
           h == [k \in D |-> F(k)]
<1>1. WriteAttr(s, t, p, f) =
        CASE s[i].type = "object" -> Element(name, ObjText(s, p, i, f))
          [] s[i].type = "multiple" -> FlattenSeq(h)
          [] OTHER -> WriteParam(name, t.param[p])
  BY Zenon DEF WriteAttr
<1>2. CASE s[i].type = "object"
  <2>1. IsObj(s, t, c, p, i)
    BY <1>2 DEF IsObj
  <2>2. IsSeq(ObjText(s, p, i, f))
    BY <2>1, ObjTextIsSeq
  <2>3. IsSeq(Element(name, ObjText(s, p, i, f)))
    BY <2>2, ElementIsSeq
  <2> HIDE DEF h
  <2> QED
    BY <1>1, <1>2, <2>3
<1>3. CASE s[i].type = "multiple"
  <2>1. p \in DOMAIN t.list
    BY <1>3 DEF Fits
  <2>2. IsList(t.list[p])
    BY <2>1 DEF Fits, IsTree
  <2>3. ASSUME NEW k \in D PROVE IsSeq(F(k))
    <3>1. CASE t.list[p].slots[k]
      <4>1. k \in Taken(t.list[p])
        BY <2>2, <3>1, TakenIs DEF IsList
      <4>2. IsObj(s, t, c, Object(p, k), i)
        BY <2>1, <4>1 DEF IsObj
      <4>3. IsSeq(ObjText(s, Object(p, k), i, f))
        BY <4>2, ObjTextIsSeq
      <4>4. IsSeq(Element(name, ObjText(s, Object(p, k), i, f)))
        BY <4>3, ElementIsSeq
      <4> QED
        BY <3>1, <4>4
    <3>2. CASE ~t.list[p].slots[k]
      BY <3>2, EmptyIsSeq
    <3> QED
      BY <3>1, <3>2
  <2> HIDE DEF F
  <2>4. PICK n \in Nat : D = 1..n
    BY <2>2 DEF IsList
  <2>5. IsFun(h) /\ DOMAIN h = 1..n /\ \A k \in DOMAIN h : IsSeq(h[k])
    BY <2>3, <2>4 DEF IsFun
  <2> HIDE DEF h
  <2>6. IsSeq(h)
    BY <2>5, FunIsSeq
  <2>7. IsSeq(FlattenSeq(h))
    BY <2>5, <2>6, FlattenIsSeq
  <2>8. s[i].type # "object"
    BY <1>3
  <2> QED
    BY <1>1, <1>3, <2>7, <2>8
<1>4. CASE s[i].type \notin {"object", "multiple"}
  <2>1. p \in DOMAIN t.param
    BY <1>4 DEF Fits
  <2>2. IsParam(t.param[p])
    BY <2>1 DEF Fits, IsTree
  <2>3. IsSeq(WriteParam(name, t.param[p]))
    BY <2>2, ParamIsSeq
  <2> HIDE DEF h
  <2> QED
    BY <1>1, <1>4, <2>3
<1> QED
  BY <1>2, <1>3, <1>4

\* What the attributes are written as can be found, those of the last schemas
\* first, and is a sequence.
LEMMA TextsExist ==
  ASSUME NEW s, Model(s), NEW t, NEW c \in 0..Len(s), Fits(s, t, c, All(s, c), {})
  PROVE  \E f : f = [p \in DOMAIN t.attr |-> WriteAttr(s, t, p, f)]
<1>0. PICK n \in Nat : n = Len(s)
  BY ModelIs
<1>1. \A p \in DOMAIN t.attr : t.attr[p] \in 1..n
  BY <1>0, ModelIs DEF Fits, InObject
<1> DEFINE D == DOMAIN t.attr
           Done(k, f) == /\ IsFun(f) /\ DOMAIN f = D
                         /\ \A p \in D : t.attr[p] + k > n => f[p] = WriteAttr(s, t, p, f)
           S == {k \in Nat : \E f : Done(k, f)}
<1>2. ASSUME NEW m \in Nat, \A k \in Nat : k < m => k \in S PROVE m \in S
  <2>1. CASE m = 0
    <3>1. PICK f : f = [p \in D |-> <<>>]
      OBVIOUS
    <3>2. Done(0, f)
      BY <1>1, <3>1 DEF IsFun
    <3> QED
      BY <2>1, <3>2
  <2>2. CASE m # 0
    <3>1. PICK k \in Nat : m = k + 1
      <4>1. m - 1 \in Nat /\ m = (m - 1) + 1
        BY <2>2
      <4> QED
        BY <4>1
    <3>2. PICK f : Done(k, f)
      <4>1. k < m
        BY <3>1
      <4>2. k \in S
        BY <1>2, <4>1, Zenon
      <4> QED
        BY <4>2
    <3>3. PICK g : g = [p \in D |-> IF t.attr[p] + k > n THEN f[p] ELSE WriteAttr(s, t, p, f)]
      OBVIOUS
    <3>4. ASSUME NEW p \in D, t.attr[p] + m > n PROVE g[p] = WriteAttr(s, t, p, g)
      <4>1. PICK i \in 1..n : i = t.attr[p]
        BY <1>1
      <4>2. ASSUME NEW q \in D, t.attr[q] > t.attr[p] PROVE f[q] = g[q]
        <5>1. PICK j \in 1..n : j = t.attr[q]
          BY <1>1
        <5>2. j + k > n
          <6>1. j > i
            BY <4>1, <4>2, <5>1
          <6>2. i + (k + 1) > n
            BY <3>1, <3>4, <4>1
          <6> QED
            BY <6>1, <6>2
        <5> QED
          BY <3>3, <5>1, <5>2
      <4>3. WriteAttr(s, t, p, f) = WriteAttr(s, t, p, g)
        BY <4>2, WriteAttrOf
      <4>4. CASE i + k > n
        <5>1. g[p] = f[p]
          BY <3>3, <4>1, <4>4
        <5>2. f[p] = WriteAttr(s, t, p, f)
          BY <3>2, <4>1, <4>4
        <5> QED
          BY <4>3, <5>1, <5>2
      <4>5. CASE ~(i + k > n)
        BY <3>3, <4>1, <4>3, <4>5
      <4> QED
        BY <4>4, <4>5
    <3>5. IsFun(g) /\ DOMAIN g = D
      BY <3>3 DEF IsFun
    <3>6. Done(m, g)
      BY <3>4, <3>5
    <3> QED
      BY <3>6
  <2> QED
    BY <2>1, <2>2
<1>3. PICK f : Done(n, f)
  <2>1. \A k \in Nat : k \in S
    <3> HIDE DEF S
    <3> QED
      BY <1>2, Induct
  <2> QED
    BY <2>1
<1>4. \A p \in D : f[p] = WriteAttr(s, t, p, f)
  <2>1. \A p \in D : t.attr[p] + n > n
    BY <1>1
  <2> QED
    BY <1>3, <2>1
<1>5. f = [p \in D |-> WriteAttr(s, t, p, f)]
  BY <1>3, <1>4 DEF IsFun
<1> QED
  BY <1>5

\* All of them are written as sequences.
LEMMA TextsAreSeqs ==
  ASSUME NEW s, Model(s), NEW t, NEW c \in 0..Len(s), Fits(s, t, c, All(s, c), {}),
         NEW f, \A p \in DOMAIN t.attr : f[p] = WriteAttr(s, t, p, f)
  PROVE  \A p \in DOMAIN t.attr : IsSeq(f[p])
<1>0. PICK n \in Nat : n = Len(s)
  BY ModelIs
<1>1. \A p \in DOMAIN t.attr : t.attr[p] \in 1..n
  BY <1>0, ModelIs DEF Fits, InObject
<1> DEFINE S == {k \in Nat : \A p \in DOMAIN t.attr : n - t.attr[p] <= k => IsSeq(f[p])}
<1>2. ASSUME NEW m \in Nat, \A k \in Nat : k < m => k \in S,
             NEW p \in DOMAIN t.attr, n - t.attr[p] <= m
      PROVE  IsSeq(f[p])
  <2>1. PICK i \in 1..n : i = t.attr[p]
    BY <1>1
  <2>2. ASSUME NEW q \in DOMAIN t.attr, t.attr[q] > t.attr[p] PROVE IsSeq(f[q])
    <3>1. PICK j \in 1..n : j = t.attr[q]
      BY <1>1
    <3>2. PICK k \in Nat : n - j <= k /\ k < m
      <4>1. j > i
        BY <2>1, <2>2, <3>1
      <4>2. n - i <= m
        BY <1>2, <2>1
      <4>3. n - j \in Nat /\ n - j <= n - j /\ n - j < m
        BY <4>1, <4>2
      <4> QED
        BY <4>3
    <3>3. k \in S
      BY <1>2, <3>2, Zenon
    <3> QED
      BY <3>1, <3>2, <3>3
  <2>3. IsSeq(WriteAttr(s, t, p, f))
    BY <2>2, WriteAttrIsSeq
  <2> QED
    BY <2>3
<1>3. \A m \in Nat : m \in S
  <2>1. \A m \in Nat : (\A k \in Nat : k < m => k \in S) => m \in S
    BY <1>2
  <2> HIDE DEF S
  <2> QED
    BY <2>1, Induct
<1>4. ASSUME NEW p \in DOMAIN t.attr PROVE IsSeq(f[p])
  <2>1. PICK k \in Nat : n - t.attr[p] <= k
    <3>1. n - t.attr[p] \in Nat /\ n - t.attr[p] <= n - t.attr[p]
      BY <1>1
    <3> QED
      BY <3>1
  <2> QED
    BY <1>3, <2>1
<1> QED
  BY <1>4

\* A model that is not empty has an attribute of the root object.
LEMMA RootSchemaIs ==
  ASSUME NEW s, Model(s), s # <<>>
  PROVE  RootSchema(s) \in All(s, 0)
<1>1. /\ DOMAIN s = 1..Len(s) /\ Len(s) \in Nat
      /\ \A i \in DOMAIN s : s[i].owner \in Nat /\ s[i].owner < i
  BY ModelIs
<1>2. Len(s) # 0
  BY DEF Model
<1>3. 1 \in All(s, 0)
  <2>1. 1 \in DOMAIN s
    BY <1>1, <1>2
  <2>2. s[1].owner = 0
    BY <1>1, <2>1
  <2> QED
    BY <2>1, <2>2 DEF All
<1>4. All(s, 0) \in SUBSET Nat /\ All(s, 0) # {}
  BY <1>1, <1>3 DEF All
<1>5. PICK i \in All(s, 0) : \A j \in All(s, 0) : i <= j
  BY <1>4, HasLeast
<1>6. /\ i \in DOMAIN s
      /\ s[i].owner = 0 /\ \A j \in DOMAIN s : s[j].owner = 0 => i <= j
  BY <1>5 DEF All
<1>7. RootSchema(s) \in DOMAIN s /\ s[RootSchema(s)].owner = 0
  BY <1>6 DEF RootSchema
<1> QED
  BY <1>7 DEF All

\* The data file is a sequence of callbacks.
LEMMA WrittenIsSeq ==
  ASSUME NEW s, Model(s), s # <<>>, NEW t, Fits(s, t, 0, All(s, 0), {})
  PROVE  IsSeq(Written(s, t))
<1> DEFINE D == DOMAIN t.attr
           g == CHOOSE f : f = [p \in D |-> WriteAttr(s, t, p, f)]
           p == Attr(<<>>, s[RootSchema(s)].name)
<1>0. 0 \in 0..Len(s)
  BY ModelIs
<1>1. Written(s, t) = g[p]
  BY Zenon DEF Written
<1>2. g = [q \in D |-> WriteAttr(s, t, q, g)]
  BY <1>0, TextsExist
<1>3. \A q \in D : g[q] = WriteAttr(s, t, q, g)
  <2> HIDE DEF g
  <2> QED
    BY <1>2
<1> HIDE DEF g
<1>4. \A q \in D : IsSeq(g[q])
  BY <1>0, <1>3, TextsAreSeqs
<1>5. p \in D
  <2>1. IsObj(s, t, 0, <<>>, 0)
    BY DEF IsObj
  <2> QED
    BY <1>0, <2>1, RootSchemaIs, AttrOfObject
<1> QED
  BY <1>1, <1>4, <1>5

-----------------------------------------------------------------------------
(***************************************************************************)
(* Reading the model.                                                      *)
(***************************************************************************)

\* The parser has a model, and its open elements have schemas of it.
Reads(r) ==
  /\ r = [status |-> r.status, stack |-> r.stack, schemas |-> r.schemas]
  /\ Model(r.schemas)
  /\ IsSeq(r.stack)
  /\ \A k \in DOMAIN r.stack : r.stack[k].schema \in 0..Len(r.schemas)

\* The parser begins and fails with an empty model.
LEMMA NoModelReads == Reads(Reading) /\ Reads(Refused) /\ Reads(Undefined)
<1>1. <<>> \in Seq(SchemaIn({})) /\ DOMAIN <<>> = {}
  BY EmptySeq
<1>2. Model(<<>>)
  BY <1>1 DEF Model
<1>3. ASSUME NEW status PROVE Reads([status |-> status, stack |-> <<>>, schemas |-> <<>>])
  BY <1>1, <1>2, EmptyIsSeq DEF Reads
<1>4. /\ Refused = [status |-> "refused", stack |-> <<>>, schemas |-> <<>>]
      /\ Undefined = [status |-> "undefined", stack |-> <<>>, schemas |-> <<>>]
  BY DEF Refused, Undefined, Reading
<1> QED
  BY <1>3, <1>4 DEF Reading

\* A schema of class c is added.
LEMMA SchemaAdded ==
  ASSUME NEW s, Model(s), NEW c \in 0..Len(s)
  PROVE  /\ Model(Append(s, NewSchema(c)))
         /\ Len(s) \in Nat /\ Len(Append(s, NewSchema(c))) = Len(s) + 1
<1>1. PICK S : s \in Seq(SchemaIn(S))
  BY DEF Model
<1>2. PICK T : T = S \cup {"unknown", NoConstraint, Null}
  OBVIOUS
<1>3. \A x \in SchemaIn(S) : x \in SchemaIn(T)
  BY <1>2 DEF SchemaIn
<1>4. s \in Seq(SchemaIn(T))
  BY <1>1, <1>3
<1>5. PICK x : x = NewSchema(c)
  OBVIOUS
<1>6. x \in SchemaIn(T) /\ x.owner = c
  <2>1. c \in Nat /\ Null \in Word /\ "unknown" \in T /\ NoConstraint \in T /\ Null \in T
    BY <1>2, NullIs, ModelIs
  <2> QED
    BY <1>5, <2>1 DEF NewSchema, SchemaIn
<1>7. PICK t : t = Append(s, x)
  OBVIOUS
<1>8. /\ t \in Seq(SchemaIn(T)) /\ Len(s) \in Nat /\ Len(t) = Len(s) + 1
      /\ DOMAIN s = 1..Len(s) /\ DOMAIN t = 1..(Len(s) + 1)
      /\ \A i \in 1..Len(s) : t[i] = s[i]
      /\ t[Len(s) + 1] = x
  BY <1>4, <1>6, <1>7
<1>9. ASSUME NEW i \in DOMAIN t PROVE t[i].owner < i
  <2>1. CASE i \in 1..Len(s)
    BY <1>8, <2>1, ModelIs
  <2>2. CASE i = Len(s) + 1
    <3>1. c < Len(s) + 1
      BY <1>8
    <3> QED
      BY <1>6, <1>8, <2>2, <3>1
  <2> QED
    BY <1>8, <2>1, <2>2
<1>10. Model(t)
  BY <1>8, <1>9 DEF Model
<1> QED
  BY <1>5, <1>7, <1>8, <1>10

\* A field of a schema is set.
SetIn(s, c, field, v) == [s EXCEPT ![c][field] = v]

\* It stays a model.
LEMMA SchemaSet ==
  ASSUME NEW s, Model(s), NEW c, NEW field \in Fields, NEW v, field = "name" => v \in Word
  PROVE  Model(SetIn(s, c, field, v)) /\ Len(SetIn(s, c, field, v)) = Len(s)
<1>1. PICK S : s \in Seq(SchemaIn(S))
  BY DEF Model
<1>2. PICK T : T = S \cup {v}
  OBVIOUS
<1>3. \A x \in SchemaIn(S) : x \in SchemaIn(T)
  BY <1>2 DEF SchemaIn
<1>4. s \in Seq(SchemaIn(T))
  BY <1>1, <1>3
<1>5. PICK x : x = [s[c] EXCEPT ![field] = v]
  OBVIOUS
<1>6. PICK t : t = [s EXCEPT ![c] = x]
  OBVIOUS
<1>7. SetIn(s, c, field, v) = t
  BY <1>5, <1>6 DEF SetIn
<1>8. CASE c \in DOMAIN s
  <2>1. s[c] \in SchemaIn(T) /\ v \in T
    BY <1>2, <1>4, <1>8
  <2>2. x \in SchemaIn(T) /\ x.owner = s[c].owner
    BY <1>5, <2>1 DEF SchemaIn, Fields
  <2>3. t \in Seq(SchemaIn(T)) /\ DOMAIN t = DOMAIN s /\ Len(t) = Len(s)
    BY <1>4, <1>6, <1>8, <2>2
  <2>4. \A i \in DOMAIN s : t[i] = IF i = c THEN x ELSE s[i]
    BY <1>4, <1>6, <1>8
  <2>5. \A i \in DOMAIN t : t[i].owner < i
    BY <2>2, <2>3, <2>4 DEF Model
  <2> QED
    BY <1>7, <2>3, <2>5 DEF Model
<1>9. CASE c \notin DOMAIN s
  <2>1. DOMAIN t = DOMAIN s /\ \A i \in DOMAIN s : t[i] = s[i]
    BY <1>6, <1>9
  <2>2. t = s
    BY <1>1, <1>6, <1>9, <2>1
  <2> QED
    BY <1>7, <2>2
<1> QED
  BY <1>8, <1>9

\* The parser sets a field of the open schema.
LEMMA SetReads ==
  ASSUME NEW r, Reads(r), NEW field \in Fields, NEW v, field = "name" => v \in Word
  PROVE  Reads(Set(r, field, v))
<1>1. PICK t : t = SetIn(r.schemas, Top(r).schema, field, v)
  OBVIOUS
<1>2. Model(t) /\ Len(t) = Len(r.schemas)
  <2>1. Model(r.schemas)
    BY DEF Reads
  <2>2. /\ Model(SetIn(r.schemas, Top(r).schema, field, v))
        /\ Len(SetIn(r.schemas, Top(r).schema, field, v)) = Len(r.schemas)
    BY <2>1, SchemaSet
  <2> QED
    BY <1>1, <2>2, Zenon
<1>3. PICK u : u = Set(r, field, v)
  OBVIOUS
<1>4. u = [r EXCEPT !.schemas = t]
  BY <1>1, <1>3 DEF Set, SetIn
<1>5. u = [status |-> r.status, stack |-> r.stack, schemas |-> t]
  BY <1>4 DEF Reads
<1>6. Reads(u)
  BY <1>2, <1>5 DEF Reads
<1> QED
  BY <1>3, <1>6

\* evcpe_class_xml_elm_begin_cb: a schema is in the class of the open element.
LEMMA PushReads ==
  ASSUME NEW r, Reads(r), NEW e, NEW c \in 0..Len(r.schemas)
  PROVE  Reads(Push(r, e, c))
<1>1. PICK x : x = [name |-> e, schema |-> c]
  OBVIOUS
<1>2. PICK S : r.stack \in Seq(S)
  BY DEF Reads, IsSeq
<1>3. r.stack \in Seq(S \cup {x})
  BY <1>2
<1>4. PICK st : st = Append(r.stack, x)
  OBVIOUS
<1>5. /\ st \in Seq(S \cup {x})
      /\ DOMAIN st = 1..(Len(r.stack) + 1) /\ DOMAIN r.stack = 1..Len(r.stack)
      /\ Len(r.stack) \in Nat
      /\ \A k \in 1..Len(r.stack) : st[k] = r.stack[k]
      /\ st[Len(r.stack) + 1] = x
  BY <1>3, <1>4
<1>6. ASSUME NEW k \in DOMAIN st PROVE st[k].schema \in 0..Len(r.schemas)
  <2>1. CASE k \in 1..Len(r.stack)
    BY <1>5, <2>1 DEF Reads
  <2>2. CASE k = Len(r.stack) + 1
    BY <1>1, <1>5, <2>2
  <2> QED
    BY <1>5, <2>1, <2>2
<1>7. PICK u : u = Push(r, e, c)
  OBVIOUS
<1>8. u = [status |-> r.status, stack |-> st, schemas |-> r.schemas]
  BY <1>1, <1>4, <1>7 DEF Push, Reads
<1>9. IsSeq(st)
  BY <1>5 DEF IsSeq
<1>10. Reads(u)
  BY <1>6, <1>8, <1>9 DEF Reads
<1> QED
  BY <1>7, <1>10

\* The open element has a schema of the model.
LEMMA TopIs ==
  ASSUME NEW r, Reads(r), r.stack # <<>>
  PROVE  Top(r).schema \in 0..Len(r.schemas)
<1>1. PICK S : r.stack \in Seq(S)
  BY DEF Reads, IsSeq
<1>2. Len(r.stack) \in DOMAIN r.stack
  BY <1>1
<1> QED
  BY <1>2 DEF Top, Last, Reads

\* A schema that begins is in the class of the open element.
LEMMA BeginReads ==
  ASSUME NEW r, Reads(r), NEW e
  PROVE  Reads(Begin(r, e))
<1> DEFINE added == [r EXCEPT !.schemas = Append(@, NewSchema(Top(r).schema))]
<1>1. Begin(r, e) =
        CASE e = "model" /\ r.stack = <<>> -> Push(r, e, 0)
          [] /\ e \in {"schema", "extension"}
             /\ r.stack # <<>>
             /\ TypeOf(r, Top(r).schema) \in {"object", "multiple"} ->
               Push(added, e, Len(r.schemas) + 1)
          [] OTHER -> Refused
  BY Zenon DEF Begin
<1>2. Reads(Push(r, e, 0))
  <2>1. 0 \in 0..Len(r.schemas)
    BY ModelIs DEF Reads
  <2> QED
    BY <2>1, PushReads
<1>3. ASSUME r.stack # <<>> PROVE Reads(Push(added, e, Len(r.schemas) + 1))
  <2>1. PICK s : s = Append(r.schemas, NewSchema(Top(r).schema))
    OBVIOUS
  <2>2. Model(r.schemas) /\ Top(r).schema \in 0..Len(r.schemas)
    BY <1>3, TopIs DEF Reads
  <2>3. Model(s) /\ Len(r.schemas) \in Nat /\ Len(s) = Len(r.schemas) + 1
    BY <2>1, <2>2, SchemaAdded
  <2>4. PICK u : u = added
    OBVIOUS
  <2>5. u = [status |-> r.status, stack |-> r.stack, schemas |-> s]
    BY <2>1, <2>4 DEF Reads
  <2>6. \A k \in 0..Len(r.schemas) : k \in 0..Len(s)
    BY <2>3
  <2>7. Reads(u)
    BY <2>3, <2>5, <2>6 DEF Reads
  <2>8. Len(r.schemas) + 1 \in 0..Len(u.schemas)
    BY <2>3, <2>5
  <2>9. Reads(Push(u, e, Len(r.schemas) + 1))
    BY <2>7, <2>8, PushReads
  <2> QED
    BY <2>4, <2>9
<1> HIDE DEF added
<1>4. PICK x, m, n, w : /\ x = Begin(r, e) /\ m = Push(r, e, 0)
                        /\ n = Push(added, e, Len(r.schemas) + 1) /\ w = Refused
  OBVIOUS
<1>5. x = CASE e = "model" /\ r.stack = <<>> -> m
            [] /\ e \in {"schema", "extension"}
               /\ r.stack # <<>>
               /\ TypeOf(r, Top(r).schema) \in {"object", "multiple"} -> n
            [] OTHER -> w
  BY <1>1, <1>4, Zenon
<1>6. x \in {m, w} \/ (x = n /\ r.stack # <<>>)
  BY <1>5
<1>7. Reads(m) /\ Reads(w) /\ (r.stack # <<>> => Reads(n))
  BY <1>2, <1>3, <1>4, NoModelReads, Zenon
<1>8. Reads(x)
  BY <1>6, <1>7
<1> QED
  BY <1>4, <1>8

\* evcpe_class_xml_elm_end_cb.
LEMMA EndReads ==
  ASSUME NEW r, Reads(r), NEW e
  PROVE  Reads(End(r, e))
<1> DEFINE c == Top(r).schema
           A == \/ e = "model" /\ Attributes(r.schemas, 0) = {}
                \/ /\ e = "schema"
                   /\ \/ r.schemas[c].name = Null
                      \/ r.schemas[c].type = "unknown"
                      \/ /\ r.schemas[c].type \in {"object", "multiple"}
                         /\ Attributes(r.schemas, c) = {}
           B == r.stack = <<>> \/ Top(r).name # e
           popped == [r EXCEPT !.stack = Front(@)]
<1>1. End(r, e) = CASE B -> Refused [] A -> Refused [] OTHER -> popped
  BY Zenon DEF End
<1>2. r.stack # <<>> => Reads(popped)
  <2> SUFFICES ASSUME r.stack # <<>> PROVE Reads(popped)
    OBVIOUS
  <2>1. PICK S : r.stack \in Seq(S)
    BY DEF Reads, IsSeq
  <2>2. PICK n \in Nat : Len(r.stack) = n + 1
    <3>1. Len(r.stack) \in Nat /\ Len(r.stack) # 0
      BY <2>1
    <3>2. Len(r.stack) - 1 \in Nat /\ Len(r.stack) = (Len(r.stack) - 1) + 1
      BY <3>1
    <3> QED
      BY <3>2
  <2>3. PICK f : f = Front(r.stack)
    OBVIOUS
  <2>4. f = SubSeq(r.stack, 1, n)
    BY <2>2, <2>3 DEF Front
  <2>5. 1..n \subseteq DOMAIN r.stack
    BY <2>1, <2>2
  <2>6. \A k \in 1..n : r.stack[k] \in S
    BY <2>1, <2>5
  <2>7. /\ f \in Seq(S) /\ Len(f) = n
        /\ \A k \in 1..n : f[k] = r.stack[k]
    <3>1. /\ SubSeq(r.stack, 1, n) \in Seq(S)
          /\ Len(SubSeq(r.stack, 1, n)) = IF 1 <= n THEN n - 1 + 1 ELSE 0
          /\ \A k \in 1..(n - 1 + 1) : SubSeq(r.stack, 1, n)[k] = r.stack[1 + k - 1]
      BY <2>6, SubSeqProperties
    <3> QED
      BY <2>4, <3>1
  <2>8. \A k \in DOMAIN f : f[k].schema \in 0..Len(r.schemas)
    BY <2>5, <2>7 DEF Reads
  <2>9. PICK u : u = popped
    OBVIOUS
  <2>10. u = [status |-> r.status, stack |-> f, schemas |-> r.schemas]
    BY <2>3, <2>9 DEF Reads
  <2>11. IsSeq(f)
    BY <2>7 DEF IsSeq
  <2>12. Reads(u)
    BY <2>8, <2>10, <2>11 DEF Reads
  <2> QED
    BY <2>9, <2>12
<1>3. B \/ r.stack # <<>>
  OBVIOUS
<1> HIDE DEF A, B, popped
<1>4. PICK x, w : x = End(r, e) /\ w = Refused
  OBVIOUS
<1>5. x = CASE B -> w [] A -> w [] OTHER -> popped
  BY <1>1, <1>4, Zenon
<1>6. x = w \/ (x = popped /\ ~B)
  BY <1>5
<1>7. Reads(w)
  BY <1>4, NoModelReads
<1>8. Reads(x)
  BY <1>2, <1>3, <1>6, <1>7
<1> QED
  BY <1>4, <1>8

\* A field that refers to another attribute is set or refused.
LEMMA ReferReads ==
  ASSUME NEW r, Reads(r), NEW field \in Fields \ {"name"}, NEW name, NEW v
  PROVE  Reads(Refer(r, field, name, v))
<1>1. PICK x, w, u, f : /\ x = Refer(r, field, name, v)
                        /\ w = Refused /\ u = Undefined /\ f = Set(r, field, v)
  OBVIOUS
<1>2. PICK i : i = Found(r, name)
  OBVIOUS
<1>3. x = CASE i = 0 -> w
            [] r.schemas[i].name = Null -> u
            [] r.schemas[i].type # "unsignedInt" -> w
            [] OTHER -> f
  BY <1>1, <1>2, Zenon DEF Refer
<1>4. x \in {w, u, f}
  BY <1>3
<1>5. Reads(w) /\ Reads(u)
  BY <1>1, NoModelReads
<1>6. Reads(f)
  BY <1>1, SetReads
<1>7. Reads(x)
  BY <1>4, <1>5, <1>6
<1> QED
  BY <1>1, <1>7

\* So is a constraint.
LEMMA ConstrainReads ==
  ASSUME NEW r, Reads(r), NEW text
  PROVE  Reads(Constrain(r, text))
<1>0. "constraint" \in Fields \ {"name"}
  BY DEF Fields
<1>1. PICK x, w, a, b, c, d :
        /\ x = Constrain(r, text) /\ w = Refused
        /\ a = Set(r, "constraint", SizeConstraint)
        /\ b = Set(r, "constraint", EnumConstraint)
        /\ c = Set(r, "constraint", RangeConstraint(text))
        /\ d = Refer(r, "constraint", text, AttrConstraint(text))
  OBVIOUS
<1>2. PICK type : type = TypeOf(r, Top(r).schema)
  OBVIOUS
<1>3. x = CASE type \in {"string", "base64"} /\ text \in DOMAIN Number ->
                 IF Number[text] < 0 THEN w ELSE a
            [] type = "string" -> b
            [] type \in {"int", "unsignedInt"} /\ text \in DOMAIN Bounds -> c
            [] type = "multiple" -> d
            [] OTHER -> w
  BY <1>1, <1>2, Zenon DEF Constrain
<1>4. x \in {w, a, b, c, d}
  BY <1>3
<1>5. Reads(w)
  BY <1>1, NoModelReads
<1>6. \A v : Reads(Set(r, "constraint", v))
  BY <1>0, SetReads
<1>7. Reads(a) /\ Reads(b) /\ Reads(c)
  BY <1>1, <1>6, Zenon
<1>8. Reads(d)
  BY <1>0, <1>1, ReferReads
<1>9. Reads(x)
  BY <1>4, <1>5, <1>7, <1>8
<1> QED
  BY <1>1, <1>9

\* So is a default.
LEMMA DefaultReads ==
  ASSUME NEW r, Reads(r), NEW text, NEW x \in Default(r, text)
  PROVE  Reads(x)
<1>1. PICK w, a : w = Refused /\ a = Set(r, "default", text)
  OBVIOUS
<1>2. PICK c, d : c = Top(r).schema /\ d = Default(r, text)
  OBVIOUS
<1>3. d = CASE TypeOf(r, c) = "dateTime" -> IF text = "auto" THEN {a} ELSE {w, r}
            [] c # 0 /\ Validates(r.schemas[c].type, text, r.schemas[c].constraint) -> {a}
            [] OTHER -> {w}
  BY <1>1, <1>2, Zenon DEF Default
<1>4. x \in d
  BY <1>2, Zenon
<1>5. x \in {a, w, r}
  BY <1>3, <1>4
<1>6. Reads(w)
  BY <1>1, NoModelReads
<1>7. Reads(a)
  <2>1. "default" \in Fields /\ "default" # "name"
    BY DEF Fields
  <2> QED
    BY <1>1, <2>1, SetReads
<1> QED
  BY <1>5, <1>6, <1>7

\* evcpe_class_xml_attr_cb.
LEMMA AttributeReads ==
  ASSUME NEW r, Reads(r), NEW attr, NEW text \in STRING, NEW x \in Attribute(r, attr, text)
  PROVE  Reads(x)
<1>1. PICK w, n, t, m, c : /\ w = Refused
                           /\ n = Set(r, "name", text) /\ t = Set(r, "type", text)
                           /\ m = Refer(r, "number", text, text)
                           /\ c = Constrain(r, text)
  OBVIOUS
<1>2. PICK d : d = Attribute(r, attr, text)
  OBVIOUS
<1>3. d = CASE attr = "name" -> {IF Top(r).name = "model" THEN w ELSE n}
            [] attr = "type" ->
                 {IF Top(r).name = "model" \/ text \notin Types THEN w ELSE t}
            [] attr = "constraint" -> {c}
            [] attr = "default" -> Default(r, text)
            [] attr = "number" ->
                 {IF TypeOf(r, Top(r).schema) = "multiple" THEN m ELSE w}
            [] attr \in Flags -> {IF FlagFits(r, attr) THEN r ELSE w}
            [] OTHER -> {w}
  BY <1>1, <1>2, Zenon DEF Attribute
<1>4. x \in d
  BY <1>2, Zenon
<1>5. x \in {w, n, t, m, c, r} \/ x \in Default(r, text)
  BY <1>3, <1>4
<1>6. Reads(w)
  BY <1>1, NoModelReads
<1>7. Reads(c)
  BY <1>1, ConstrainReads
<1>8. Reads(n)
  <2>1. "name" \in Fields /\ text \in Word
    BY DEF Fields, Word
  <2> QED
    BY <1>1, <2>1, SetReads
<1>9. Reads(t)
  <2>1. "type" \in Fields /\ "type" # "name"
    BY DEF Fields
  <2> QED
    BY <1>1, <2>1, SetReads
<1>10. Reads(m)
  <2>1. "number" \in Fields \ {"name"}
    BY DEF Fields
  <2> QED
    BY <1>1, <2>1, ReferReads
<1> QED
  BY <1>5, <1>6, <1>7, <1>8, <1>9, <1>10, DefaultReads

-----------------------------------------------------------------------------
(***************************************************************************)
(* The two files: the invariant and what follows from it.                  *)
(***************************************************************************)

\* A tree of the whole model.
WholeFits(s, t) == Fits(s, t, 0, All(s, 0), {})

\* The parser has a model, and the tree of a running agent fits it.
DataInv ==
  /\ Reads(reader)
  /\ process = "running" => Schemas # <<>> /\ WholeFits(Schemas, tree)

\* Changes of the tree.
LEMMA AddedFits ==
  ASSUME NEW s, Model(s), NEW t, WholeFits(s, t), NEW p \in DOMAIN t.list
  PROVE  WholeFits(s, AddObj(s, t, p)) /\ p \in DOMAIN AddObj(s, t, p).list
<1>0. 0 \in 0..Len(s) /\ \A d \in DOMAIN s : NewFits(s, d)
  BY ModelIs, NewObjectFits
<1>1. Fits(s, t, 0, All(s, 0), {})
  BY DEF WholeFits
<1>2. Fits(s, AddObj(s, t, p), 0, All(s, 0), {})
  BY <1>0, <1>1, AddObjFits
<1>3. PICK g : g = Grown(s, t, p)
  OBVIOUS
<1>4. /\ Fits(s, g, 0, All(s, 0), {})
      /\ \A q \in DOMAIN t.attr : q \in DOMAIN g.attr /\ g.attr[q] = t.attr[q]
  BY <1>0, <1>1, <1>3, GrownFits
<1>5. PICK f, n, u :
        /\ f = Fails(t, "full") /\ u = AddObj(s, t, p)
        /\ n = Count(s, g, Front(p), t.attr[p], Cardinality(Taken(t.list[p])) + 1)
  OBVIOUS
<1>6. u = IF /\ t.list[p].limit # 0
             /\ Cardinality(Taken(t.list[p])) >= t.list[p].limit
            THEN f ELSE IF g.rc # "ok" THEN g ELSE n
  BY <1>3, <1>5, AddObjIs, Zenon
<1>7. u \in {f, g, n}
  BY <1>6
<1>8. IsTree(t) /\ IsTree(g)
  BY <1>1, <1>4 DEF Fits
<1>9. f.attr = t.attr
  BY <1>5, <1>8, FailsKeeps DEF Keeps
<1>10. n.attr = g.attr
  BY <1>5, <1>8, CountKeeps DEF Keeps
<1>11. p \in DOMAIN t.attr /\ s[t.attr[p]].type = "multiple"
  BY <1>1 DEF Fits
<1>12. p \in DOMAIN u.attr /\ s[u.attr[p]].type = "multiple"
  BY <1>4, <1>7, <1>9, <1>10, <1>11
<1>13. Fits(s, u, 0, All(s, 0), {})
  BY <1>2, <1>5, Zenon
<1>14. p \in DOMAIN u.list
  BY <1>12, <1>13 DEF Fits
<1> QED
  BY <1>2, <1>5, <1>14 DEF WholeFits

\* A parameter is set.
LEMMA SetFits ==
  ASSUME NEW s, NEW t, WholeFits(s, t), NEW p, NEW text
  PROVE  WholeFits(s, AttrSet(s, t, p, text))
<1>1. Fits(s, t, 0, All(s, 0), {}) /\ IsTree(t)
  BY DEF WholeFits, Fits
<1> QED
  BY <1>1, AttrSetKeeps, KeepsFits DEF WholeFits

\* An object is deleted.
LEMMA DeletedFits ==
  ASSUME NEW s, Model(s), NEW t, WholeFits(s, t), NEW p \in DOMAIN t.list,
         NEW i \in Taken(t.list[p])
  PROVE  WholeFits(s, DelObj(t, p, i))
<1>1. 0 \in 0..Len(s)
  BY ModelIs
<1> QED
  BY <1>1, DelObjFits DEF WholeFits

\* How a function ended does not matter.
LEMMA EndsFits ==
  ASSUME NEW s, NEW t, WholeFits(s, t), NEW rc
  PROVE  WholeFits(s, Fails(t, rc))
<1>1. Fits(s, t, 0, All(s, 0), {}) /\ IsTree(t)
  BY DEF WholeFits, Fits
<1> QED
  BY <1>1, FailsKeeps, KeepsFits DEF WholeFits

\* The agent is delivered with a data file of a tree that fits the model.
LEMMA DeliveryFits ==
  ASSUME Model(Schemas), NEW t, WholeFits(Schemas, t), NEW u \in Delivery(t)
  PROVE  WholeFits(Schemas, u)
<1>1. PICK s : s = Schemas
  OBVIOUS
<1>2. Model(s) /\ WholeFits(s, t)
  BY <1>1
<1>3. Fits(s, t, 0, All(s, 0), {}) /\ IsTree(t)
  BY <1>2 DEF WholeFits, Fits
<1>4. ASSUME NEW p \in DOMAIN t.param,
             u = [t EXCEPT !.param[p].notification = 2, !.param[p].access = <<"text">>]
      PROVE  WholeFits(s, u)
  <2>1. PICK a : a = <<"text">>
    OBVIOUS
  <2>2. IsSeq(a)
    <3>1. \A x : <<x>> \in Seq({x})
      OBVIOUS
    <3> QED
      BY <2>1, <3>1 DEF IsSeq
  <2>3. IsParam(t.param[p])
    BY <1>3 DEF IsTree
  <2>4. PICK x : x = t.param[p]
    OBVIOUS
  <2>5. PICK v : v = [x EXCEPT !.notification = 2, !.access = a]
    OBVIOUS
  <2>6. IsParam(v)
    <3>1. x = [value |-> x.value, notification |-> x.notification, access |-> x.access]
      BY <2>3, <2>4 DEF IsParam
    <3>2. v = [value |-> x.value, notification |-> 2, access |-> a]
      BY <2>5, <3>1
    <3> QED
      BY <2>2, <3>2 DEF IsParam
  <2>7. PICK w : w = [t EXCEPT !.param[p] = v]
    OBVIOUS
  <2>8. u = w
    <3>1. t = [rc |-> t.rc, attr |-> t.attr, param |-> t.param, list |-> t.list]
          /\ t.param = [y \in DOMAIN t.param |-> t.param[y]]
      BY <1>3 DEF IsTree, IsFun
    <3>2. u = [t EXCEPT !.param[p].notification = 2, !.param[p].access = a]
      BY <1>4, <2>1, Zenon
    <3> QED
      BY <2>4, <2>5, <2>7, <3>1, <3>2
  <2>9. Keeps(t, w)
    BY <1>3, <2>6, <2>7, ParamKeeps
  <2>10. Fits(s, w, 0, All(s, 0), {})
    BY <1>3, <2>9, KeepsFits
  <2> QED
    BY <2>8, <2>10 DEF WholeFits
<1>5. ASSUME NEW p \in DOMAIN t.list, u = AddObj(s, AddObj(s, t, p), p)
      PROVE  WholeFits(s, u)
  <2>1. PICK v : v = AddObj(s, t, p)
    OBVIOUS
  <2>2. WholeFits(s, v) /\ p \in DOMAIN v.list
    BY <1>2, <2>1, AddedFits
  <2>3. WholeFits(s, AddObj(s, v, p))
    BY <1>2, <2>2, AddedFits
  <2> QED
    BY <1>5, <2>1, <2>3, Zenon
<1>6. \/ u = t
      \/ \E p \in DOMAIN t.param :
           u = [t EXCEPT !.param[p].notification = 2, !.param[p].access = <<"text">>]
      \/ \E p \in DOMAIN t.list : u = AddObj(s, AddObj(s, t, p), p)
  BY <1>1, Zenon DEF Delivery
<1>7. WholeFits(s, u)
  BY <1>2, <1>4, <1>5, <1>6, Zenon
<1> QED
  BY <1>1, <1>7

\* The process runs only with a tree that was made or read without an error.
LEMMA StartWithIs ==
  ASSUME NEW t, StartWith(t), process' = "running"
  PROVE  tree' = t /\ t.rc = "ok" /\ DOMAIN t.attr # {}
<1>1. PICK x : x = process'
  OBVIOUS
<1>2. x = CASE t.rc = "undefined" -> "undefined"
            [] t.rc = "ok" /\ DOMAIN t.attr # {} -> "running"
            [] OTHER -> "stopped"
  BY <1>1, Zenon DEF StartWith
<1>3. x = "running"
  BY <1>1
<1>4. t.rc = "ok" /\ DOMAIN t.attr # {}
  BY <1>2, <1>3
<1> QED
  BY <1>4 DEF StartWith

\* A data file that is read leaves a tree that fits the model.
LEMMA ReadInv ==
  ASSUME NEW s, Model(s), NEW f, IsSeq(f), StartWith(Read(s, f)), process' = "running"
  PROVE  WholeFits(s, tree')
<1>1. PICK t : t = Read(s, f)
  OBVIOUS
<1>2. StartWith(t)
  BY <1>1, Zenon
<1>3. tree' = t /\ t.rc = "ok"
  BY <1>2, StartWithIs
<1>4. Read(s, f).rc = "ok"
  BY <1>1, <1>3, Zenon
<1>5. Fits(s, Read(s, f), 0, All(s, 0), {})
  BY <1>4, ReadFits
<1> QED
  BY <1>1, <1>3, <1>5, Zenon DEF WholeFits

\* The first process makes a tree, writes it and reads it.
LEMMA FirstStartInv ==
  ASSUME DataInv, FirstStart
  PROVE  DataInv'
<1>1. PICK s : s = Schemas
  OBVIOUS
<1>2. Model(s) /\ Reads(reader)
  BY <1>1 DEF DataInv, Reads, Schemas
<1>3. UNCHANGED reader
  BY DEF FirstStart
<1>4. PICK made : made = NewObject(s)[0]
  OBVIOUS
<1>5. made.rc = "ok" => WholeFits(s, made)
  <2>1. NewFits(s, 0)
    BY <1>2, NewObjectFits, ModelIs
  <2> QED
    BY <1>4, <2>1 DEF NewFits, WholeFits
<1>6. process' = "running" => s # <<>> /\ WholeFits(s, tree')
  <2> SUFFICES ASSUME process' = "running" PROVE s # <<>> /\ WholeFits(s, tree')
    OBVIOUS
  <2>1. IF made.rc # "ok" \/ s = <<>>
          THEN StartWith(made)
          ELSE \E t \in Delivery(made) :
                 /\ dataFile' = Written(s, t)
                 /\ StartWith(Read(s, dataFile'))
    BY <1>1, <1>4, Zenon DEF FirstStart
  <2>2. CASE made.rc # "ok" \/ s = <<>>
    <3>1. made.rc = "ok" /\ DOMAIN made.attr # {} /\ s = <<>>
      BY <2>1, <2>2, StartWithIs
    <3>2. \A q \in DOMAIN made.attr : made.attr[q] \in DOMAIN s
      BY <1>5, <3>1 DEF WholeFits, Fits, InObject
    <3>3. DOMAIN s = {}
      BY <3>1, EmptySeq
    <3> QED
      BY <3>1, <3>2, <3>3
  <2>3. CASE made.rc = "ok" /\ s # <<>>
    <3>1. PICK t \in Delivery(made) :
            dataFile' = Written(s, t) /\ StartWith(Read(s, dataFile'))
      BY <2>1, <2>3
    <3>2. Model(Schemas) /\ WholeFits(Schemas, made)
      BY <1>1, <1>2, <1>5, <2>3
    <3>3. WholeFits(Schemas, t)
      BY <3>2, DeliveryFits
    <3>4. WholeFits(s, t)
      BY <1>1, <3>3
    <3>5. IsSeq(Written(s, t))
      BY <1>2, <2>3, <3>4, WrittenIsSeq DEF WholeFits
    <3>6. StartWith(Read(s, Written(s, t)))
      BY <3>1, Zenon
    <3> QED
      BY <1>2, <2>3, <3>5, <3>6, ReadInv
  <2> QED
    BY <2>2, <2>3
<1>7. s = Schemas' /\ Reads(reader')
  BY <1>1, <1>2, <1>3 DEF Schemas
<1> QED
  BY <1>6, <1>7 DEF DataInv

\* A change of the tree that leaves one that fits the model.
LEMMA ChangeToInv ==
  ASSUME DataInv, NEW t, process = "running" => WholeFits(Schemas, t), ChangeTo(t)
  PROVE  DataInv'
<1>1. UNCHANGED <<reader, process>> /\ process = "running" /\ tree' = Fails(t, "ok")
  BY DEF ChangeTo, Fails
<1>2. WholeFits(Schemas, Fails(t, "ok"))
  BY <1>1, EndsFits
<1>3. Schemas' = Schemas /\ WholeFits(Schemas, tree')
  BY <1>1, <1>2 DEF Schemas
<1> QED
  BY <1>1, <1>3 DEF DataInv

\* The next process reads what this one has written, or a part of it.
LEMMA RestartInv ==
  ASSUME DataInv, Restart \/ RestartCut
  PROVE  DataInv'
<1>1. UNCHANGED reader /\ process = "running"
  BY DEF Restart, RestartCut
<1>2. PICK s : s = Schemas
  OBVIOUS
<1>3. Model(s) /\ s # <<>> /\ WholeFits(s, tree) /\ Reads(reader)
  BY <1>1, <1>2 DEF DataInv, Reads, Schemas
<1>4. PICK f : f = Written(s, tree)
  OBVIOUS
<1>5. IsSeq(f)
  BY <1>3, <1>4, WrittenIsSeq DEF WholeFits
<1>6. IsSeq(dataFile')
  <2>1. CASE Restart
    BY <1>2, <1>4, <1>5, <2>1 DEF Restart
  <2>2. CASE RestartCut
    <3>1. PICK n \in 0..(Len(f) - 1) : dataFile' = SubSeq(f, 1, n)
      BY <1>2, <1>4, <2>2 DEF RestartCut
    <3>2. PICK S : f \in Seq(S)
      BY <1>5 DEF IsSeq
    <3>3. n \in Int /\ \A k \in 1..n : f[k] \in S
      BY <3>1, <3>2
    <3>4. SubSeq(f, 1, n) \in Seq(S)
      BY <3>3, SubSeqProperties
    <3> QED
      BY <3>1, <3>4 DEF IsSeq
  <2> QED
    BY <2>1, <2>2
<1>7. process' = "running" => WholeFits(s, tree')
  <2>1. StartWith(Read(s, dataFile'))
    BY <1>2 DEF Restart, RestartCut
  <2> QED
    BY <1>3, <1>6, <2>1, ReadInv
<1>8. s = Schemas' /\ Reads(reader')
  BY <1>1, <1>2, <1>3 DEF Schemas
<1> QED
  BY <1>3, <1>7, <1>8 DEF DataInv

\* The model is read before there is a running agent.
LEMMA ReaderInv ==
  ASSUME DataInv, process = "model", UNCHANGED process, Reads(reader')
  PROVE  DataInv'
BY DEF DataInv

\* The invariant is inductive: every action preserves it.
LEMMA DataInvInductive ==
  ASSUME DataInv, [DataModelNext]_dataModelVars
  PROVE  DataInv'
<1>1. Reads(reader)
  BY DEF DataInv
<1>2. process = "running" => Model(Schemas) /\ WholeFits(Schemas, tree)
  BY <1>1 DEF DataInv, Reads, Schemas
<1>3. CASE UNCHANGED dataModelVars
  BY <1>3 DEF DataInv, Schemas, dataModelVars
<1>4. ASSUME NEW e \in Elements, BeginElement(e) PROVE DataInv'
  <2>1. reader' = Begin(reader, e) /\ process = "model" /\ UNCHANGED process
    BY <1>4 DEF BeginElement
  <2>2. Reads(reader')
    BY <1>1, <2>1, BeginReads
  <2> QED
    BY <2>1, <2>2, ReaderInv
<1>5. ASSUME NEW e \in Elements, EndElement(e) PROVE DataInv'
  <2>1. reader' = End(reader, e) /\ process = "model" /\ UNCHANGED process
    BY <1>5 DEF EndElement
  <2>2. Reads(reader')
    BY <1>1, <2>1, EndReads
  <2> QED
    BY <2>1, <2>2, ReaderInv
<1>6. ASSUME NEW i \in Inputs, GiveAttribute(i[1], i[2]) PROVE DataInv'
  <2>1. i[2] \in STRING
    BY DataModelAssumption
  <2>2. /\ reader' \in Attribute(reader, i[1], i[2])
        /\ process = "model" /\ UNCHANGED process
    BY <1>6, Zenon DEF GiveAttribute
  <2>3. Reads(reader')
    BY <1>1, <2>1, <2>2, AttributeReads
  <2> QED
    BY <2>2, <2>3, ReaderInv
<1>7. CASE FinishModel
  <2>1. /\ reader' \in {[reader EXCEPT !.status = "accepted"], Refused}
        /\ process = "model" /\ UNCHANGED process
    BY <1>7, Zenon DEF FinishModel
  <2>2. PICK r : r = [reader EXCEPT !.status = "accepted"]
    OBVIOUS
  <2>3. r = [status |-> "accepted", stack |-> reader.stack, schemas |-> reader.schemas]
    BY <1>1, <2>2 DEF Reads
  <2>4. Reads(r)
    BY <1>1, <2>3 DEF Reads
  <2>5. Reads(reader')
    BY <2>1, <2>2, <2>4, NoModelReads
  <2> QED
    BY <2>1, <2>5, ReaderInv
<1>8. CASE FirstStart
  BY <1>8, FirstStartInv
<1>9. ASSUME NEW p, NEW text, SetValue(p, text) PROVE DataInv'
  <2>1. process = "running" => WholeFits(Schemas, AttrSet(Schemas, tree, p, text))
    BY <1>2, SetFits
  <2> QED
    BY <1>9, <2>1, ChangeToInv DEF SetValue
<1>10. ASSUME NEW p \in DOMAIN tree.list, AddObject(p) PROVE DataInv'
  <2>1. process = "running" => WholeFits(Schemas, AddObj(Schemas, tree, p))
    BY <1>2, AddedFits
  <2> QED
    BY <1>10, <2>1, ChangeToInv DEF AddObject
<1>11. ASSUME NEW p \in DOMAIN tree.list, NEW i, DeleteObject(p, i) PROVE DataInv'
  <2>1. process = "running" => WholeFits(Schemas, DelObj(tree, p, i))
    BY <1>2, <1>11, DeletedFits DEF DeleteObject
  <2> QED
    BY <1>11, <2>1, ChangeToInv DEF DeleteObject
<1>12. CASE Restart \/ RestartCut
  BY <1>12, RestartInv
<1>13. CASE DataModelNext
  BY <1>4, <1>5, <1>6, <1>7, <1>8, <1>9, <1>10, <1>11, <1>12, <1>13 DEF DataModelNext
<1> QED
  BY <1>3, <1>13

\* It holds where the model is not read yet.
LEMMA DataInvInit == DataModelInit => DataInv
BY NoModelReads DEF DataModelInit, DataInv

\* The parser has a model, and the tree of a running agent fits it, in every
\* reachable state.
THEOREM DataModelInvariance == DataModelSpec => []DataInv
<1>1. DataInv /\ [DataModelNext]_dataModelVars => DataInv'
  BY DataInvInductive
<1> QED
  BY <1>1, DataInvInit, PTL DEF DataModelSpec

\* Objects has what IsObj says.
LEMMA ObjectsAre ==
  ASSUME NEW o, NEW d
  PROVE  <<o, d>> \in Objects <=> IsObj(Schemas, tree, 0, o, d)
<1> DEFINE A == {<<<<>>, 0>>}
           B == {<<p, tree.attr[p]>> :
                   p \in {p \in DOMAIN tree.attr : Schemas[tree.attr[p]].type = "object"}}
           C == UNION {{<<Object(p, i), tree.attr[p]>> : i \in Taken(tree.list[p])} :
                         p \in DOMAIN tree.list}
<1>1. Objects = A \cup B \cup C
  BY Zenon DEF Objects
<1>2. <<o, d>> \in A <=> o = <<>> /\ d = 0
  OBVIOUS
<1>3. <<o, d>> \in B <=>
        o \in DOMAIN tree.attr /\ Schemas[tree.attr[o]].type = "object" /\ d = tree.attr[o]
  OBVIOUS
<1>4. <<o, d>> \in C <=> \E p \in DOMAIN tree.list : \E i \in Taken(tree.list[p]) :
                           o = Object(p, i) /\ d = tree.attr[p]
  <2>1. <<o, d>> \in C <=> \E p \in DOMAIN tree.list : \E i \in Taken(tree.list[p]) :
                             <<o, d>> = <<Object(p, i), tree.attr[p]>>
    <3>1. PICK x : x = <<o, d>>
      OBVIOUS
    <3>2. x \in C <=> \E p \in DOMAIN tree.list :
                        x \in {<<Object(p, i), tree.attr[p]>> : i \in Taken(tree.list[p])}
      OBVIOUS
    <3>3. \A p : x \in {<<Object(p, i), tree.attr[p]>> : i \in Taken(tree.list[p])}
                  <=> \E i \in Taken(tree.list[p]) : x = <<Object(p, i), tree.attr[p]>>
      OBVIOUS
    <3> HIDE DEF C
    <3>4. x \in C <=> \E p \in DOMAIN tree.list : \E i \in Taken(tree.list[p]) :
                        x = <<Object(p, i), tree.attr[p]>>
      BY <3>2, <3>3
    <3> QED
      BY <3>1, <3>4, Zenon
  <2> HIDE DEF C
  <2> QED
    BY <2>1
<1> HIDE DEF A, B, C
<1> QED
  BY <1>1, <1>2, <1>3, <1>4 DEF IsObj

\* A tree that fits has the attributes, lists and parameters of its objects.
LEMMA TreeFits ==
  ASSUME DataInv
  PROVE  TreeFitsModel
<1> SUFFICES ASSUME process = "running" PROVE TreeFitsModel
  BY DEF TreeFitsModel
<1> DEFINE Of(o) == {Attr(o[1], Schemas[i].name) :
                       i \in {i \in DOMAIN Schemas : Schemas[i].owner = o[2]}}
           U == UNION {Of(o) : o \in Objects}
<1>1. Model(Schemas) /\ Fits(Schemas, tree, 0, All(Schemas, 0), {})
  BY DEF DataInv, Reads, Schemas, WholeFits
<1>2. 0 \in 0..Len(Schemas)
  BY <1>1, ModelIs
<1>3. ASSUME NEW q \in DOMAIN tree.attr PROVE q \in U
  <2>1. PICK i \in DOMAIN Schemas, o \in Path :
          IsObj(Schemas, tree, 0, o, Schemas[i].owner) /\ q = Attr(o, Schemas[i].name)
    BY <1>1 DEF Fits, InObject
  <2>2. <<o, Schemas[i].owner>> \in Objects
    BY <2>1, ObjectsAre
  <2>3. q \in Of(<<o, Schemas[i].owner>>)
    BY <2>1
  <2> HIDE DEF Of
  <2> QED
    BY <2>2, <2>3
<1>4. ASSUME NEW o \in Objects, NEW q \in Of(o) PROVE q \in DOMAIN tree.attr
  <2>1. PICK i \in DOMAIN Schemas : Schemas[i].owner = o[2] /\ q = Attr(o[1], Schemas[i].name)
    OBVIOUS
  <2>2. o = <<o[1], o[2]>>
    BY DEF Objects
  <2>3. IsObj(Schemas, tree, 0, o[1], o[2])
    BY <2>2, ObjectsAre
  <2>4. i \in All(Schemas, o[2])
    BY <2>1 DEF All
  <2> QED
    BY <1>1, <1>2, <2>1, <2>3, <2>4, AttrOfObject
<1>5. DOMAIN tree.attr = U
  <2>1. \A q : q \in U => \E o \in Objects : q \in Of(o)
    BY Zenon
  <2>2. \A q : q \in U => q \in DOMAIN tree.attr
    BY <1>4, <2>1
  <2> HIDE DEF U
  <2> QED
    BY <1>3, <2>2
<1>6. /\ DOMAIN tree.list = {p \in DOMAIN tree.attr : Schemas[tree.attr[p]].type = "multiple"}
      /\ DOMAIN tree.param =
           {p \in DOMAIN tree.attr : Schemas[tree.attr[p]].type \notin {"object", "multiple"}}
  BY <1>1 DEF Fits
<1> QED
  BY <1>5, <1>6, Zenon DEF TreeFitsModel

\* The tree is what the model says, whatever was added, deleted, saved and
\* read, in whole or in part.
THEOREM AlwaysTreeFitsModel == DataModelSpec => []TreeFitsModel
BY DataModelInvariance, TreeFits, PTL

\* What counts the objects can be set in the tree with one more, if it could
\* be before.
LEMMA CountsOn ==
  ASSUME NEW s, NEW t, IsTree(t), NEW g, IsTree(g), g.rc = "ok",
         \A q \in DOMAIN t.attr : q \in DOMAIN g.attr /\ g.attr[q] = t.attr[q],
         \A q \in DOMAIN t.param : q \in DOMAIN g.param,
         NEW obj, NEW name, NEW n, SetInt(s, t, obj, name, n).rc = "ok"
  PROVE  SetInt(s, g, obj, name, n).rc = "ok"
<1>1. PICK q : q = Attr(obj, name)
  OBVIOUS
<1>2. PICK text : text = TextOf(n)
  OBVIOUS
<1>3. /\ SetInt(s, t, obj, name, n) =
           IF q \in DOMAIN t.attr THEN AttrSet(s, t, q, text) ELSE Fails(t, "fault")
      /\ SetInt(s, g, obj, name, n) =
           IF q \in DOMAIN g.attr THEN AttrSet(s, g, q, text) ELSE Fails(g, "fault")
  BY <1>1, <1>2, Zenon DEF SetInt
<1>4. Fails(t, "fault").rc = "fault"
  BY FailsKeeps
<1>5. q \in DOMAIN t.attr /\ AttrSet(s, t, q, text).rc = "ok"
  BY <1>3, <1>4
<1>6. /\ q \in DOMAIN t.param
      /\ Validates(s[t.attr[q]].type, text, s[t.attr[q]].constraint)
  BY <1>5, AttrSetKeeps
<1>7. /\ q \in DOMAIN g.attr /\ q \in DOMAIN g.param
      /\ Validates(s[g.attr[q]].type, text, s[g.attr[q]].constraint)
  BY <1>5, <1>6
<1>8. AttrSet(s, g, q, text).rc = g.rc
  BY <1>7, AttrSetKeeps
<1> QED
  BY <1>3, <1>7, <1>8

\* A list is made only of a class that can be made.
LEMMA CanBeMade ==
  ASSUME DataInv
  PROVE  ObjectsCanBeMade
<1> SUFFICES ASSUME process = "running", NEW p \in DOMAIN tree.list
             PROVE  LET s == Schemas[tree.attr[p]]
                        size == Cardinality(Taken(tree.list[p]))
                    IN  \/ AddObj(Schemas, tree, p).rc \in {"ok", "full"}
                        \/ /\ s.number # Null
                           /\ SetInt(Schemas, tree, Front(p), s.number, size + 1).rc # "ok"
  BY DEF ObjectsCanBeMade
<1>1. PICK s : s = Schemas
  OBVIOUS
<1>2. Model(s) /\ Fits(s, tree, 0, All(s, 0), {}) /\ IsTree(tree)
  BY <1>1 DEF DataInv, Reads, Schemas, WholeFits, Fits
<1>3. 0 \in 0..Len(s) /\ \A d \in DOMAIN s : NewFits(s, d)
  BY <1>2, ModelIs, NewObjectFits
<1>4. PICK g : g = Grown(s, tree, p)
  OBVIOUS
<1>5. /\ Fits(s, g, 0, All(s, 0), {}) /\ g.rc = "ok"
      /\ \A q \in DOMAIN tree.attr : q \in DOMAIN g.attr /\ g.attr[q] = tree.attr[q]
      /\ \A q \in DOMAIN tree.param : q \in DOMAIN g.param
  BY <1>2, <1>3, <1>4, GrownFits
<1>6. IsTree(g)
  BY <1>5 DEF Fits
<1>7. PICK i, size : i = tree.attr[p] /\ size = Cardinality(Taken(tree.list[p]))
  OBVIOUS
<1>8. PICK f, n, u : /\ f = Fails(tree, "full") /\ u = AddObj(s, tree, p)
                     /\ n = Count(s, g, Front(p), i, size + 1)
  OBVIOUS
<1>9. u = IF tree.list[p].limit # 0 /\ size >= tree.list[p].limit THEN f
          ELSE IF g.rc # "ok" THEN g ELSE n
  BY <1>4, <1>7, <1>8, AddObjIs, Zenon
<1>10. u = f \/ u = n
  BY <1>5, <1>9
<1>11. f.rc = "full"
  BY <1>2, <1>8, FailsKeeps
<1>12. n = IF s[i].number = Null THEN g ELSE SetInt(s, g, Front(p), s[i].number, size + 1)
  BY <1>8, Zenon DEF Count
<1>13. \/ n.rc = "ok"
       \/ /\ s[i].number # Null
          /\ SetInt(s, tree, Front(p), s[i].number, size + 1).rc # "ok"
  <2>1. CASE s[i].number = Null
    BY <1>5, <1>12, <2>1
  <2>2. CASE s[i].number # Null
    <3>1. n = SetInt(s, g, Front(p), s[i].number, size + 1)
      BY <1>12, <2>2
    <3>2. ASSUME SetInt(s, tree, Front(p), s[i].number, size + 1).rc = "ok"
          PROVE  SetInt(s, g, Front(p), s[i].number, size + 1).rc = "ok"
      BY <1>2, <1>5, <1>6, <3>2, CountsOn
    <3> QED
      BY <2>2, <3>1, <3>2
  <2> QED
    BY <2>1, <2>2
<1>14. \/ u.rc \in {"ok", "full"}
       \/ /\ s[i].number # Null
          /\ SetInt(s, tree, Front(p), s[i].number, size + 1).rc # "ok"
  BY <1>10, <1>11, <1>13
<1> QED
  BY <1>1, <1>7, <1>8, <1>14, Zenon

\* After boot an object can be added to every list, unless it is full or its
\* number is refused by the constraint on it.
THEOREM AlwaysObjectsCanBeMade == DataModelSpec => []ObjectsCanBeMade
BY DataModelInvariance, CanBeMade, PTL

-----------------------------------------------------------------------------
(***************************************************************************)
(* A sound model makes a tree.                                             *)
(***************************************************************************)

\* Schema i refers to an attribute before it, of the same class, that can count.
RefersTo(s, i, name) ==
  \E j \in 1..(i - 1) : s[j].owner = s[i].owner /\ s[j].name = name /\ s[j].type = "unsignedInt"

\* Nothing but the name is given to a schema before its type, and what a list
\* refers to is there.
SchemaSound(s, i) ==
  /\ s[i].type = "unknown" =>
       s[i].constraint = NoConstraint /\ s[i].default = Null /\ s[i].number = Null
  /\ s[i].constraint.kind = "attr" => RefersTo(s, i, s[i].constraint.attr)
  /\ s[i].number # Null => RefersTo(s, i, s[i].number)

\* The default of a schema is valid under its constraint.
DefaultSound(s, i) ==
  s[i].default # Null /\ s[i].type # "dateTime" =>
    Validates(s[i].type, s[i].default, s[i].constraint)

Finished(s, i) == s[i].name # Null /\ s[i].type # "unknown"

\* What Careful adds for the attributes of one class.
Distinct(s) ==
  \A i, j \in DOMAIN s : s[i].owner = s[j].owner =>
    /\ i # j => s[i].name # s[j].name
    /\ s[i].name = s[j].number => s[i].constraint = NoConstraint

\* A model of which each class can be made.
Sound(s) ==
  /\ \A i \in DOMAIN s : SchemaSound(s, i) /\ DefaultSound(s, i) /\ Finished(s, i)
  /\ \A i \in DOMAIN s : s[i].type = "dateTime" => s[i].default = Null
  /\ Distinct(s)

\* What is known of an attribute of the root that is there.
LEMMA RootAttrIs ==
  ASSUME NEW s, Model(s), NEW c \in 0..Len(s), NEW R, NEW t, Fits(s, t, c, R, {}),
         NEW n \in Word, Attr(<<>>, n) \in DOMAIN t.attr
  PROVE  LET i == t.attr[Attr(<<>>, n)]
         IN  i \in DOMAIN s /\ s[i].owner = c /\ i \in R /\ s[i].name = n
<1>0. <<>> \in Path
  BY EmptySeq DEF Path
<1>1. PICK q : q = Attr(<<>>, n)
  OBVIOUS
<1>2. PICK i : i = t.attr[q]
  OBVIOUS
<1>3. q \in DOMAIN t.attr
  BY <1>1
<1>4. i \in DOMAIN s /\ \E o \in Path : /\ IsObj(s, t, c, o, s[i].owner)
                                        /\ Has(R, {}, o, i)
                                        /\ q = Attr(o, s[i].name)
  BY <1>2, <1>3 DEF Fits, InObject
<1>5. PICK o \in Path : IsObj(s, t, c, o, s[i].owner) /\ Has(R, {}, o, i) /\ q = Attr(o, s[i].name)
  BY <1>4
<1>6. s[i].name \in Word
  BY <1>4, ModelIs
<1>7. Attr(<<>>, n) = Attr(o, s[i].name)
  BY <1>1, <1>5
<1>8. o = <<>> /\ s[i].name = n
  <2>1. \A m, k \in Word : Attr(<<>>, m) = Attr(o, k) => <<>> = o /\ m = k
    BY <1>0, Apart
  <2> QED
    BY <1>6, <1>7, <2>1, Zenon
<1>9. <<>> \notin DOMAIN t.attr
  <2>1. ASSUME NEW x \in DOMAIN t.attr PROVE x # <<>>
    <3>1. t.attr[x] \in DOMAIN s /\ \E y \in Path : x = Attr(y, s[t.attr[x]].name)
      BY DEF Fits, InObject
    <3> QED
      BY <3>1, AttrIs, ModelIs
  <2> QED
    BY <2>1
<1>10. ASSUME NEW p \in DOMAIN t.list, NEW k \in Taken(t.list[p]) PROVE Object(p, k) # <<>>
  <2>1. p \in Path /\ IsList(t.list[p])
    BY DEF Fits, IsTree, InObject
  <2>2. k \in Nat
    BY <2>1, TakenIs
  <2> QED
    BY <2>1, <2>2, ObjectIs
<1>11. s[i].owner = c
  BY <1>5, <1>8, <1>9, <1>10 DEF IsObj
<1>12. i \in R
  BY <1>5, <1>8 DEF Has
<1>13. PICK a : a = t.attr[Attr(<<>>, n)]
  OBVIOUS
<1>14. a = i
  BY <1>1, <1>2, <1>13
<1>15. a \in DOMAIN s /\ s[a].owner = c /\ a \in R /\ s[a].name = n
  BY <1>4, <1>8, <1>11, <1>12, <1>14
<1> QED
  BY <1>13, <1>15

\* The root has a parameter with the name n, which can count.
Counter(s, t, c, n) ==
  LET p == Attr(<<>>, n)
  IN  /\ p \in DOMAIN t.param /\ p \in DOMAIN t.attr
      /\ t.attr[p] \in DOMAIN s
      /\ s[t.attr[p]].type = "unsignedInt"
      /\ s[t.attr[p]].owner = c /\ s[t.attr[p]].name = n

\* The attribute that a schema refers to is there and can count.
LEMMA ReferredIs ==
  ASSUME NEW s, Model(s), Sound(s), NEW c \in 0..Len(s), NEW t,
         NEW i \in DOMAIN s, s[i].owner = c,
         NEW R, Fits(s, t, c, R, {}), {j \in All(s, c) : j < i} \subseteq R,
         NEW n, RefersTo(s, i, n)
  PROVE  Counter(s, t, c, n)
<1>0. /\ Len(s) \in Nat /\ DOMAIN s = 1..Len(s) /\ \A k \in DOMAIN s : s[k].name \in Word
      /\ <<>> \in Path
  BY ModelIs, EmptySeq DEF Path
<1>1. PICK j \in 1..(i - 1) : s[j].owner = s[i].owner /\ s[j].name = n /\ s[j].type = "unsignedInt"
  BY DEF RefersTo
<1>2. j \in DOMAIN s /\ j < i /\ j \in R /\ n \in Word
  BY <1>0, <1>1 DEF All
<1>3. PICK p : p = Attr(<<>>, n)
  OBVIOUS
<1>4. p \in DOMAIN t.attr
  <2>1. IsObj(s, t, c, <<>>, c) /\ Has(R, {}, <<>>, j)
    BY <1>2 DEF IsObj, Has
  <2>2. Attr(<<>>, s[j].name) \in DOMAIN t.attr
    BY <1>0, <1>1, <1>2, <2>1 DEF Fits
  <2> QED
    BY <1>1, <1>3, <2>2
<1>5. PICK k : k = t.attr[p]
  OBVIOUS
<1>6. k \in DOMAIN s /\ s[k].owner = c /\ s[k].name = n
  <2>1. Attr(<<>>, n) \in DOMAIN t.attr
    BY <1>3, <1>4
  <2>2. /\ t.attr[Attr(<<>>, n)] \in DOMAIN s /\ s[t.attr[Attr(<<>>, n)]].owner = c
        /\ s[t.attr[Attr(<<>>, n)]].name = n
    BY <1>2, <2>1, RootAttrIs
  <2> QED
    BY <1>3, <1>5, <2>2
<1>7. k = j
  BY <1>1, <1>2, <1>6 DEF Sound, Distinct
<1>8. p \in DOMAIN t.param
  BY <1>1, <1>4, <1>5, <1>7 DEF Fits
<1> QED
  BY <1>1, <1>3, <1>4, <1>5, <1>6, <1>7, <1>8 DEF Counter

\* Zero can be counted with.
LEMMA ZeroCounts == Validates("unsignedInt", TextOf(0), NoConstraint)
<1>1. PICK z \in DOMAIN Number : Number[z] = 0
  BY ValuesAssumption
<1>2. TextOf(0) \in DOMAIN Number /\ Number[TextOf(0)] = 0
  BY <1>1 DEF TextOf
<1>3. /\ NoConstraint.kind = "none" /\ NoConstraint.least = NoBound
      /\ NoConstraint.greatest = NoBound
  BY DEF NoConstraint
<1>4. InRange(NoConstraint, Number[TextOf(0)])
  BY <1>3 DEF InRange
<1> QED
  BY <1>2, <1>3, <1>4 DEF Validates

\* A new list is counted.
LEMMA CountMade ==
  ASSUME NEW s, Model(s), Sound(s), NEW c \in 0..Len(s), NEW t,
         NEW i \in DOMAIN s, s[i].owner = c,
         NEW R, Fits(s, t, c, R, {}), {j \in All(s, c) : j < i} \subseteq R
  PROVE  Count(s, t, <<>>, i, 0).rc = t.rc
<1>1. CASE s[i].number = Null
  BY <1>1 DEF Count
<1>2. CASE s[i].number # Null
  <2>1. PICK n : n = s[i].number
    OBVIOUS
  <2>2. RefersTo(s, i, n)
    BY <1>2, <2>1 DEF Sound, SchemaSound
  <2>3. PICK p : p = Attr(<<>>, n)
    OBVIOUS
  <2>4. /\ p \in DOMAIN t.param /\ p \in DOMAIN t.attr /\ t.attr[p] \in DOMAIN s
        /\ s[t.attr[p]].type = "unsignedInt"
        /\ s[t.attr[p]].owner = c /\ s[t.attr[p]].name = n
    <3>1. Counter(s, t, c, n)
      BY <2>2, ReferredIs, Zenon
    <3> QED
      BY <2>3, <3>1 DEF Counter
  <2>5. s[t.attr[p]].constraint = NoConstraint
    BY <2>1, <2>4 DEF Sound, Distinct
  <2>6. Validates(s[t.attr[p]].type, TextOf(0), s[t.attr[p]].constraint)
    BY <2>4, <2>5, ZeroCounts
  <2>7. IsTree(t)
    BY DEF Fits
  <2>8. AttrSet(s, t, p, TextOf(0)).rc = t.rc
    BY <2>4, <2>6, <2>7, AttrSetKeeps
  <2>9. Count(s, t, <<>>, i, 0) = AttrSet(s, t, p, TextOf(0))
    BY <1>2, <2>1, <2>3, <2>4 DEF Count, SetInt
  <2> QED
    BY <2>8, <2>9
<1> QED
  BY <1>1, <1>2

\* A list is made if an object of its class can be.
LEMMA ListMade ==
  ASSUME NEW s, Model(s), Sound(s), NEW c \in 0..Len(s), NEW t, t.rc = "ok",
         NEW i \in DOMAIN s, s[i].owner = c,
         NEW R, Fits(s, t, c, R, {}), {j \in All(s, c) : j < i} \subseteq R,
         NEW inside, inside.rc = "ok"
  PROVE  ListInit(s, t, i, inside).rc = "ok"
<1> DEFINE p == Attr(<<>>, s[i].name)
           x == [limit |-> Limit(s, t, i), slots |-> <<>>]
           v == Count(s, t, <<>>, i, 0)
           w == [v EXCEPT !.attr = Put(@, p, i), !.list = Put(@, p, x)]
           u == Fails(w, inside.rc)
<1>1. v.rc = "ok" /\ IsTree(v)
  <2>1. IsTree(t)
    BY DEF Fits
  <2> QED
    BY <2>1, CountMade, CountKeeps DEF Keeps
<1>2. s[i].constraint.kind = "attr" => Attr(<<>>, s[i].constraint.attr) \in DOMAIN t.param
  <2> SUFFICES ASSUME s[i].constraint.kind = "attr"
               PROVE  Attr(<<>>, s[i].constraint.attr) \in DOMAIN t.param
    OBVIOUS
  <2>1. PICK n : n = s[i].constraint.attr
    OBVIOUS
  <2>2. RefersTo(s, i, n)
    BY <2>1 DEF Sound, SchemaSound
  <2>3. Counter(s, t, c, n)
    BY <2>2, ReferredIs, Zenon
  <2> QED
    BY <2>1, <2>3 DEF Counter
<1>3. w.rc = "ok" /\ u.rc = "ok"
  <2>1. v = [rc |-> v.rc, attr |-> v.attr, param |-> v.param, list |-> v.list]
    BY <1>1 DEF IsTree
  <2> HIDE DEF v, x, p
  <2>2. PICK y : y = w
    OBVIOUS
  <2>3. PICK f, g : f = Put(v.attr, p, i) /\ g = Put(v.list, p, x)
    OBVIOUS
  <2>4. y = [v EXCEPT !.attr = f, !.list = g]
    BY <2>2, <2>3, Zenon
  <2>5. y = [rc |-> v.rc, attr |-> f, param |-> v.param, list |-> g]
    BY <2>1, <2>4, TreeWith, Zenon
  <2>6. y.rc = "ok" /\ Fails(y, inside.rc).rc = "ok"
    BY <1>1, <2>5 DEF Fails
  <2> QED
    BY <2>2, <2>6, Zenon
<1>4. ListInit(s, t, i, inside) =
        IF /\ s[i].constraint.kind = "attr"
           /\ Attr(<<>>, s[i].constraint.attr) \notin DOMAIN t.param
          THEN Fails(t, "fault") ELSE IF w.rc # "ok" THEN w ELSE u
  BY Zenon DEF ListInit
<1> HIDE DEF w, u
<1> QED
  BY <1>2, <1>3, <1>4

\* A parameter is made, with its default.
LEMMA ParamMade ==
  ASSUME NEW s, Model(s), Sound(s), NEW t, t.rc = "ok", IsTree(t), NEW i \in DOMAIN s
  PROVE  ParamInit(s, t, i).rc = "ok"
<1> DEFINE p == Attr(<<>>, s[i].name)
           u == [t EXCEPT !.attr = Put(@, p, i), !.param = Put(@, p, NewParam)]
<1>1. ParamInit(s, t, i) = IF s[i].default = Null THEN u ELSE AttrSet(s, u, p, s[i].default)
  BY DEF ParamInit
<1>2. /\ Adds(Put(t.attr, p, i), t.attr, p, i)
      /\ Adds(Put(t.param, p, NewParam), t.param, p, NewParam)
  BY PutAdds
<1> HIDE DEF p
<1>3. u = [rc |-> t.rc, attr |-> Put(t.attr, p, i), param |-> Put(t.param, p, NewParam),
           list |-> t.list]
  <2>1. t = [rc |-> t.rc, attr |-> t.attr, param |-> t.param, list |-> t.list]
    BY DEF IsTree
  <2>2. PICK y : y = u
    OBVIOUS
  <2>3. PICK f, g : f = Put(t.attr, p, i) /\ g = Put(t.param, p, NewParam)
    OBVIOUS
  <2>4. y = [t EXCEPT !.attr = f, !.param = g]
    BY <2>2, <2>3, Zenon
  <2>5. y = [rc |-> t.rc, attr |-> f, param |-> g, list |-> t.list]
    BY <2>1, <2>4, TreeWith, Zenon
  <2> QED
    BY <2>2, <2>3, <2>5, Zenon
<1> HIDE DEF u
<1>4. u.rc = "ok" /\ u.attr[p] = i /\ p \in DOMAIN u.param
  BY <1>2, <1>3 DEF Adds
<1>5. IsTree(u)
  <2>1. /\ u = [rc |-> u.rc, attr |-> u.attr, param |-> u.param, list |-> u.list]
        /\ Adds(u.attr, t.attr, p, i) /\ Adds(u.param, t.param, p, NewParam)
        /\ u.list = t.list
    BY <1>2, <1>3
  <2>2. \A q \in DOMAIN u.param : IsParam(u.param[q])
    <3>1. \A q \in DOMAIN t.param : IsParam(t.param[q])
      BY DEF IsTree
    <3> QED
      BY <2>1, <3>1, NewParamIs DEF Adds
  <2>3. \A q \in DOMAIN u.list : IsList(u.list[q])
    BY <2>1 DEF IsTree
  <2>4. IsFun(u.attr) /\ IsFun(u.list) /\ IsFun(u.param)
    BY <2>1 DEF IsTree, Adds
  <2> QED
    BY <2>1, <2>2, <2>3, <2>4 DEF IsTree
<1>6. CASE s[i].default # Null
  <2>1. Validates(s[i].type, s[i].default, s[i].constraint)
    BY <1>6 DEF Sound, DefaultSound
  <2>2. AttrSet(s, u, p, s[i].default).rc = u.rc
    BY <1>4, <1>5, <2>1, AttrSetKeeps
  <2> QED
    BY <1>1, <1>4, <1>6, <2>2
<1> QED
  BY <1>1, <1>4, <1>6

\* So is each attribute of a class, after those before it.
LEMMA AttrIsMade ==
  ASSUME NEW s, Model(s), Sound(s), NEW c \in 0..Len(s), NEW t, t.rc = "ok",
         NEW i \in DOMAIN s, s[i].owner = c,
         NEW R, Fits(s, t, c, R, {}), {j \in All(s, c) : j < i} \subseteq R,
         R \subseteq {j \in All(s, c) : j < i},
         NEW inside, inside.rc = "ok"
  PROVE  AttrInit(s, t, i, inside).rc = "ok"
<1> DEFINE p == Attr(<<>>, s[i].name)
<1>1. s[i].name # Null /\ s[i].name \in Word
  BY ModelIs DEF Sound, Finished
<1>2. p \notin DOMAIN t.attr
  <2> SUFFICES ASSUME p \in DOMAIN t.attr PROVE FALSE
    OBVIOUS
  <2>1. PICK k : k = t.attr[p]
    OBVIOUS
  <2>2. k \in DOMAIN s /\ s[k].owner = c /\ k \in R /\ s[k].name = s[i].name
    BY <1>1, <2>1, RootAttrIs
  <2>3. k # i
    BY <2>2, ModelIs
  <2> QED
    BY <2>2, <2>3 DEF Sound, Distinct
<1>3. PICK a, g, l, m : /\ a = AttrInit(s, t, i, inside)
                        /\ g = Graft([t EXCEPT !.attr = Put(@, p, i)], p, inside)
                        /\ l = ListInit(s, t, i, inside) /\ m = ParamInit(s, t, i)
  OBVIOUS
<1>4. a = IF t.rc # "ok" THEN t
          ELSE IF s[i].name = Null THEN Fails(t, "undefined")
          ELSE IF p \in DOMAIN t.attr THEN Fails(t, "fault")
          ELSE CASE s[i].type = "multiple" -> l
                 [] s[i].type = "object" -> g
                 [] OTHER -> m
  BY <1>3, Zenon DEF AttrInit
<1>5. l.rc = "ok" /\ m.rc = "ok"
  <2>1. ListInit(s, t, i, inside).rc = "ok"
    BY ListMade
  <2>2. ParamInit(s, t, i).rc = "ok"
    BY ParamMade DEF Fits
  <2> QED
    BY <1>3, <2>1, <2>2
<1>6. g.rc = "ok"
  BY <1>3 DEF Graft
<1> HIDE DEF p
<1>7. a \in {l, g, m}
  BY <1>1, <1>2, <1>4
<1> QED
  BY <1>3, <1>5, <1>6, <1>7

\* So is each class.
LEMMA ClassIsMade ==
  ASSUME NEW s, Model(s), Sound(s), NEW c \in 0..Len(s),
         \A i \in All(s, c) : NewObject(s)[i].rc = "ok",
         NEW u, InitChain(s, c, NewObject(s), Len(s), u)
  PROVE  u[Len(s)].rc = "ok"
<1>0. /\ Len(s) \in Nat /\ DOMAIN s = 1..Len(s) /\ All(s, c) \subseteq DOMAIN s
      /\ \A m \in Nat : m \in DOMAIN s <=> m \in 1..Len(s)
  BY ModelIs DEF All
<1> DEFINE Good(m) == u[m].rc = "ok" /\ Fits(s, u[m], c, Upto(s, c, m), {})
           S == {m \in Nat : m \in 0..Len(s) => Good(m)}
<1>1. ASSUME NEW m \in Nat, \A k \in Nat : k < m => k \in S, m \in 0..Len(s) PROVE Good(m)
  <2>1. CASE m = 0
    <3>1. u[0] = EmptyTree
      BY DEF InitChain
    <3>2. Upto(s, c, 0) = {}
      BY <1>0 DEF Upto
    <3>3. Fits(s, EmptyTree, c, {}, {}) /\ EmptyTree.rc = "ok"
      BY EmptyTreeFits DEF EmptyTree
    <3> QED
      BY <2>1, <3>1, <3>2, <3>3
  <2>2. CASE m # 0
    <3>1. m - 1 \in Nat /\ m - 1 < m /\ m - 1 \in 0..Len(s) /\ m \in 1..Len(s)
      BY <1>1, <2>2
    <3>2. PICK k \in Nat : k = m - 1
      BY <3>1
    <3>3. Good(k)
      BY <1>1, <3>1, <3>2
    <3>4. u[m] = InitTurn(s, c, NewObject(s), u[k], m)
      BY <3>1, <3>2 DEF InitChain
    <3>5. m \in DOMAIN s
      BY <1>0, <3>1
    <3>6. PICK t, v : t = u[k] /\ v = u[m]
      OBVIOUS
    <3>7. t.rc = "ok" /\ Fits(s, t, c, Upto(s, c, k), {})
      BY <3>3, <3>6, Zenon
    <3>8. \A i \in All(s, c) : (i <= m <=> i <= k \/ i = m) /\ (i < m <=> i <= k)
      BY <1>0, <3>2
    <3>9. v.rc = "ok" /\ Fits(s, v, c, Upto(s, c, m), {})
      <4>1. CASE s[m].owner = c
        <5>1. /\ m \in All(s, c) /\ Upto(s, c, m) = Upto(s, c, k) \cup {m}
              /\ Upto(s, c, k) = {j \in All(s, c) : j < m}
          BY <3>5, <3>8, <4>1, <1>1 DEF All, Upto
        <5>2. PICK inside : inside = NewObject(s)[m]
          OBVIOUS
        <5>3. v = AttrInit(s, t, m, inside)
          BY <3>4, <3>6, <4>1, <5>2 DEF InitTurn
        <5>4. Fine(s, m, inside) /\ inside.rc = "ok"
          BY <1>0, <5>1, <5>2, NewObjectFits DEF Fine, NewFits
        <5>5. AttrInit(s, t, m, inside).rc = "ok"
          BY <3>5, <3>7, <4>1, <5>1, <5>4, AttrIsMade
        <5>6. Fits(s, AttrInit(s, t, m, inside), c, Upto(s, c, k) \cup {m}, {})
          BY <3>5, <3>7, <4>1, <5>4, <5>5, AttrInitFits
        <5> QED
          BY <5>1, <5>3, <5>5, <5>6, Zenon
      <4>2. CASE s[m].owner # c
        <5>1. v = t
          BY <3>4, <3>6, <4>2 DEF InitTurn
        <5>2. Upto(s, c, m) = Upto(s, c, k)
          BY <3>8, <4>2 DEF Upto, All
        <5> QED
          BY <3>7, <5>1, <5>2
      <4> QED
        BY <4>1, <4>2
    <3> QED
      BY <3>6, <3>9, Zenon
  <2> QED
    BY <2>1, <2>2
<1>2. \A m \in Nat : m \in S
  <2>1. \A m \in Nat : (\A k \in Nat : k < m => k \in S) => m \in S
    BY <1>1
  <2> HIDE DEF S
  <2> QED
    BY <2>1, Induct
<1>3. Good(Len(s))
  BY <1>0, <1>2
<1> QED
  BY <1>3

\* A new object of any class can be made of a sound model.
LEMMA SoundIsMade ==
  ASSUME NEW s, Model(s), Sound(s)
  PROVE  \A c \in 0..Len(s) : NewObject(s)[c].rc = "ok"
<1>0. Len(s) \in Nat /\ DOMAIN s = 1..Len(s)
  BY ModelIs
<1> DEFINE S == {k \in Nat : \A c \in 0..Len(s) : Len(s) - c <= k => NewObject(s)[c].rc = "ok"}
<1>1. ASSUME NEW m \in Nat, \A k \in Nat : k < m => k \in S,
             NEW c \in 0..Len(s), Len(s) - c <= m
      PROVE  NewObject(s)[c].rc = "ok"
  <2>1. ASSUME NEW i \in All(s, c) PROVE NewObject(s)[i].rc = "ok"
    <3>1. i \in Nat /\ i \in 0..Len(s) /\ c < i
      BY <1>0, <2>1, ModelIs DEF All
    <3>2. PICK k \in Nat : Len(s) - i <= k /\ k < m
      <4>1. c \in Nat /\ Len(s) - c <= m /\ i <= Len(s)
        BY <1>0, <1>1, <3>1
      <4>2. Len(s) - i \in Nat /\ Len(s) - i <= Len(s) - i /\ Len(s) - i < m
        BY <1>0, <3>1, <4>1
      <4> QED
        BY <4>2
    <3>3. k \in S
      BY <1>1, <3>2, Zenon
    <3> QED
      BY <3>1, <3>2, <3>3
  <2>2. PICK u : InitChain(s, c, NewObject(s), Len(s), u)
    BY <1>0, InitChainExists
  <2>3. ObjInit(s, c, NewObject(s)) = u[Len(s)]
    BY <1>0, <2>2, ObjInitIs
  <2>4. NewObject(s)[c] = u[Len(s)]
    BY <2>3, NewObjectIs
  <2>5. u[Len(s)].rc = "ok"
    BY <2>1, <2>2, ClassIsMade
  <2> QED
    BY <2>4, <2>5
<1>2. \A m \in Nat : m \in S
  <2>1. \A m \in Nat : (\A k \in Nat : k < m => k \in S) => m \in S
    BY <1>1
  <2> HIDE DEF S
  <2> QED
    BY <2>1, Induct
<1>3. ASSUME NEW c \in 0..Len(s) PROVE NewObject(s)[c].rc = "ok"
  <2>1. Len(s) - c \in Nat /\ Len(s) - c <= Len(s) - c
    BY <1>0
  <2>2. PICK k \in Nat : Len(s) - c <= k
    BY <2>1
  <2> QED
    BY <1>2, <2>2
<1> QED
  BY <1>3

-----------------------------------------------------------------------------
(***************************************************************************)
(* What the parser has made, element by element and attribute by attribute. *)
(***************************************************************************)

\* The elements of schemas are schema or extension, and that of the root is model.
NamedStack(r) ==
  \A k \in DOMAIN r.stack :
    IF r.stack[k].schema = 0 THEN r.stack[k].name = "model"
    ELSE r.stack[k].name \in {"schema", "extension"}

\* In a tag the last schema is the open one, or the root is; the type and the
\* default that were not given yet it does not have.
InTag(r, fields) ==
  /\ r.stack # <<>>
  /\ Top(r).schema # 0 =>
       LET n == Len(r.schemas)
       IN  /\ Top(r).schema = n
           /\ "type" \notin fields => r.schemas[n].type = "unknown"
           /\ "default" \notin fields => r.schemas[n].default = Null

\* Schema i has its element open.
IsOpen(r, i) == \E k \in DOMAIN r.stack : r.stack[k].schema = i

\* What the parser has made of an orderly document, or of any.
Built(r, fields, orderlyYet) ==
  /\ NamedStack(r)
  /\ \A i \in DOMAIN r.schemas : SchemaSound(r.schemas, i)
  /\ r.status = "reading" /\ fields # Fields => InTag(r, fields)
  /\ orderlyYet => \A i \in DOMAIN r.schemas :
       DefaultSound(r.schemas, i) /\ (Finished(r.schemas, i) \/ IsOpen(r, i))

\* Nothing was made.
LEMMA NothingBuilt ==
  ASSUME NEW fields, NEW o
  PROVE  Built(Refused, fields, o) /\ Built(Undefined, fields, o) /\ Built(Reading, Fields, o)
<1>1. DOMAIN <<>> = {}
  BY EmptySeq
<1>2. ASSUME NEW st, NEW g, st = "reading" => g = Fields
      PROVE  Built([status |-> st, stack |-> <<>>, schemas |-> <<>>], g, o)
  BY <1>1, <1>2 DEF Built, NamedStack
<1>3. /\ Refused = [status |-> "refused", stack |-> <<>>, schemas |-> <<>>]
      /\ Undefined = [status |-> "undefined", stack |-> <<>>, schemas |-> <<>>]
      /\ Reading = [status |-> "reading", stack |-> <<>>, schemas |-> <<>>]
  BY DEF Refused, Undefined, Reading
<1>4. /\ Built([status |-> "refused", stack |-> <<>>, schemas |-> <<>>], fields, o)
      /\ Built([status |-> "undefined", stack |-> <<>>, schemas |-> <<>>], fields, o)
      /\ Built([status |-> "reading", stack |-> <<>>, schemas |-> <<>>], Fields, o)
  BY <1>2
<1> QED
  BY <1>3, <1>4

\* Schemas before the last stay what they are.
LEMMA SchemasStay ==
  ASSUME NEW s, Model(s), NEW t, Model(t), Len(s) <= Len(t),
         NEW m \in 1..Len(s), \A i \in 1..m : t[i] = s[i]
  PROVE  /\ SchemaSound(s, m) => SchemaSound(t, m)
         /\ DefaultSound(s, m) => DefaultSound(t, m)
         /\ Finished(s, m) => Finished(t, m)
<1>1. t[m] = s[m] /\ m \in Nat
  BY ModelIs
<1>2. \A n : RefersTo(s, m, n) => RefersTo(t, m, n)
  <2>1. \A j \in 1..(m - 1) : t[j] = s[j]
    BY <1>1
  <2> QED
    BY <1>1, <2>1 DEF RefersTo
<1> QED
  BY <1>1, <1>2 DEF SchemaSound, DefaultSound, Finished

\* What Set does to the parser.
LEMMA SetIs ==
  ASSUME NEW r, Reads(r), NEW field \in Fields, NEW v
  PROVE  Set(r, field, v) = [status |-> r.status, stack |-> r.stack,
                             schemas |-> SetIn(r.schemas, Top(r).schema, field, v)]
<1>1. PICK t : t = SetIn(r.schemas, Top(r).schema, field, v)
  OBVIOUS
<1>2. PICK u : u = Set(r, field, v)
  OBVIOUS
<1>3. u = [r EXCEPT !.schemas = t]
  BY <1>1, <1>2 DEF Set, SetIn
<1>4. u = [status |-> r.status, stack |-> r.stack, schemas |-> t]
  BY <1>3 DEF Reads
<1> QED
  BY <1>1, <1>2, <1>4

\* What SetIn does to the last schema.
LEMMA SetInIs ==
  ASSUME NEW s, Model(s), Len(s) # 0, NEW field \in Fields, NEW v,
         field = "name" => v \in Word
  PROVE  LET n == Len(s)
             t == SetIn(s, n, field, v)
         IN  /\ Model(t) /\ Len(t) = n /\ n \in DOMAIN s
             /\ \A i \in 1..(n - 1) : t[i] = s[i]
             /\ t[n].owner = s[n].owner
             /\ t[n].name = IF field = "name" THEN v ELSE s[n].name
             /\ t[n].type = IF field = "type" THEN v ELSE s[n].type
             /\ t[n].constraint = IF field = "constraint" THEN v ELSE s[n].constraint
             /\ t[n].default = IF field = "default" THEN v ELSE s[n].default
             /\ t[n].number = IF field = "number" THEN v ELSE s[n].number
<1>1. PICK S : s \in Seq(SchemaIn(S))
  BY DEF Model
<1>2. PICK n : n = Len(s)
  OBVIOUS
<1>3. n \in Nat /\ n \in DOMAIN s /\ DOMAIN s = 1..n /\ s[n] \in SchemaIn(S)
  BY <1>1, <1>2
<1>4. PICK x : x = [s[n] EXCEPT ![field] = v]
  OBVIOUS
<1>5. PICK t : t = [s EXCEPT ![n] = x]
  OBVIOUS
<1>6. SetIn(s, n, field, v) = t
  BY <1>4, <1>5 DEF SetIn
<1>7. Model(t) /\ Len(t) = n
  <2>1. /\ Model(SetIn(s, n, field, v)) /\ Len(SetIn(s, n, field, v)) = Len(s)
    BY SchemaSet
  <2> QED
    BY <1>2, <1>6, <2>1, Zenon
<1>8. \A i \in DOMAIN s : t[i] = IF i = n THEN x ELSE s[i]
  BY <1>1, <1>3, <1>5
<1>9. /\ x.owner = s[n].owner
      /\ x.name = IF field = "name" THEN v ELSE s[n].name
      /\ x.type = IF field = "type" THEN v ELSE s[n].type
      /\ x.constraint = IF field = "constraint" THEN v ELSE s[n].constraint
      /\ x.default = IF field = "default" THEN v ELSE s[n].default
      /\ x.number = IF field = "number" THEN v ELSE s[n].number
  BY <1>3, <1>4 DEF SchemaIn, Fields
<1>10. \A i \in 1..(n - 1) : t[i] = s[i]
  BY <1>3, <1>8
<1>11. t[n] = x
  BY <1>3, <1>8
<1> QED
  BY <1>2, <1>3, <1>6, <1>7, <1>9, <1>10, <1>11

\* The last schema is the open one.
LEMMA TopIsLast ==
  ASSUME NEW r, Reads(r), NEW fields, InTag(r, fields), Top(r).schema # 0
  PROVE  /\ Len(r.schemas) \in Nat /\ Len(r.schemas) # 0
         /\ Top(r).schema = Len(r.schemas) /\ Len(r.schemas) \in DOMAIN r.schemas
         /\ IsOpen(r, Len(r.schemas))
<1>1. Top(r).schema = Len(r.schemas) /\ r.stack # <<>>
  BY DEF InTag
<1>2. Len(r.schemas) \in Nat /\ DOMAIN r.schemas = 1..Len(r.schemas)
  BY ModelIs DEF Reads
<1>3. PICK S : r.stack \in Seq(S)
  BY DEF Reads, IsSeq
<1>4. Len(r.stack) \in DOMAIN r.stack
  BY <1>1, <1>3
<1>5. IsOpen(r, Top(r).schema)
  BY <1>4 DEF IsOpen, Top, Last
<1>6. PICK n : n = Len(r.schemas)
  OBVIOUS
<1>7. n \in Nat /\ n # 0
  BY <1>1, <1>2, <1>6
<1>8. n \in DOMAIN r.schemas
  BY <1>2, <1>6, <1>7
<1>9. IsOpen(r, n) /\ Top(r).schema = n
  BY <1>1, <1>5, <1>6
<1> QED
  BY <1>6, <1>7, <1>8, <1>9

\* A field is given to the open schema.
LEMMA SetBuilt ==
  ASSUME NEW r, Reads(r), NEW fields, NEW o, Built(r, fields, o),
         InTag(r, fields), Top(r).schema # 0,
         NEW field \in Fields, NEW v, field = "name" => v \in Word,
         SchemaSound(SetIn(r.schemas, Len(r.schemas), field, v), Len(r.schemas)),
         NEW o2, o2 => o /\ DefaultSound(SetIn(r.schemas, Len(r.schemas), field, v), Len(r.schemas))
  PROVE  Built(Set(r, field, v), fields \cup {field}, o2)
<1>1. PICK s, n : s = r.schemas /\ n = Len(r.schemas)
  OBVIOUS
<1>2. Model(s) /\ n = Len(s)
  BY <1>1 DEF Reads
<1>3. /\ n \in Nat /\ n # 0 /\ Top(r).schema = n /\ n \in DOMAIN s /\ IsOpen(r, n)
      /\ DOMAIN s = 1..n
  BY <1>1, <1>2, TopIsLast, ModelIs
<1>4. PICK t : t = SetIn(s, n, field, v)
  OBVIOUS
<1>5. /\ Model(t) /\ Len(t) = n
      /\ \A i \in 1..(n - 1) : t[i] = s[i]
      /\ t[n].type = IF field = "type" THEN v ELSE s[n].type
      /\ t[n].default = IF field = "default" THEN v ELSE s[n].default
  <2>1. LET m == Len(s)
            x == SetIn(s, m, field, v)
        IN  /\ Model(x) /\ Len(x) = m /\ m \in DOMAIN s
            /\ \A i \in 1..(m - 1) : x[i] = s[i]
            /\ x[m].type = IF field = "type" THEN v ELSE s[m].type
            /\ x[m].default = IF field = "default" THEN v ELSE s[m].default
    BY <1>2, <1>3, SetInIs
  <2> QED
    BY <1>2, <1>4, <2>1
<1>6. SchemaSound(t, n) /\ (o2 => o /\ DefaultSound(t, n))
  BY <1>1, <1>4
<1>7. PICK u : u = Set(r, field, v)
  OBVIOUS
<1>8. u = [status |-> r.status, stack |-> r.stack, schemas |-> t]
  BY <1>1, <1>3, <1>4, <1>7, SetIs
<1>9. ASSUME NEW i \in DOMAIN t, i # n
      PROVE  /\ i \in DOMAIN s
             /\ SchemaSound(s, i) => SchemaSound(t, i)
             /\ DefaultSound(s, i) => DefaultSound(t, i)
             /\ Finished(s, i) => Finished(t, i)
  <2>1. DOMAIN t = 1..n
    BY <1>5, ModelIs
  <2>2. i \in 1..Len(s) /\ \A j \in 1..i : t[j] = s[j]
    BY <1>2, <1>3, <1>5, <1>9, <2>1
  <2>3. Len(s) <= Len(t)
    BY <1>2, <1>3, <1>5
  <2> QED
    BY <1>2, <1>3, <1>5, <2>2, <2>3, SchemasStay
<1>10. \A i \in DOMAIN t : SchemaSound(t, i)
  <2>1. \A i \in DOMAIN s : SchemaSound(s, i)
    BY <1>1 DEF Built
  <2> QED
    BY <1>6, <1>9, <2>1
<1>11. NamedStack(u)
  <2>1. NamedStack(r)
    BY DEF Built
  <2> QED
    BY <1>8, <2>1 DEF NamedStack
<1>12. InTag(u, fields \cup {field})
  <2>1. /\ r.stack # <<>>
        /\ "type" \notin fields => s[n].type = "unknown"
        /\ "default" \notin fields => s[n].default = Null
    BY <1>1 DEF InTag
  <2>2. Top(u).schema = n /\ u.stack # <<>>
    BY <1>3, <1>8, <2>1 DEF Top
  <2>3. /\ "type" \notin fields \cup {field} => t[n].type = "unknown"
        /\ "default" \notin fields \cup {field} => t[n].default = Null
    BY <1>5, <2>1
  <2> QED
    BY <1>5, <1>8, <2>2, <2>3 DEF InTag
<1>13. o2 => \A i \in DOMAIN t : DefaultSound(t, i) /\ (Finished(t, i) \/ IsOpen(u, i))
  <2>1. o => \A i \in DOMAIN s : DefaultSound(s, i) /\ (Finished(s, i) \/ IsOpen(r, i))
    BY <1>1 DEF Built
  <2>2. \A i : IsOpen(u, i) <=> IsOpen(r, i)
    BY <1>8 DEF IsOpen
  <2> QED
    BY <1>3, <1>6, <1>9, <2>1, <2>2
<1>14. Built(u, fields \cup {field}, o2)
  BY <1>8, <1>10, <1>11, <1>12, <1>13 DEF Built
<1> QED
  BY <1>7, <1>14

\* The fields of the open schema after one of them was set.
LastSet(s, n, t, field, v) ==
  /\ Model(s) /\ n \in Nat /\ n # 0 /\ n = Len(s)
  /\ \A i \in 1..(n - 1) : t[i] = s[i]
  /\ t[n].owner = s[n].owner
  /\ t[n].name = IF field = "name" THEN v ELSE s[n].name
  /\ t[n].type = IF field = "type" THEN v ELSE s[n].type
  /\ t[n].constraint = IF field = "constraint" THEN v ELSE s[n].constraint
  /\ t[n].default = IF field = "default" THEN v ELSE s[n].default
  /\ t[n].number = IF field = "number" THEN v ELSE s[n].number

\* In a tag, setting a field is setting it in the open schema.
LEMMA LastSetIs ==
  ASSUME NEW r, Reads(r), NEW fields, InTag(r, fields), Top(r).schema # 0,
         NEW field \in Fields, NEW v, field = "name" => v \in Word
  PROVE  LastSet(r.schemas, Len(r.schemas), SetIn(r.schemas, Len(r.schemas), field, v), field, v)
<1>1. Model(r.schemas) /\ Len(r.schemas) \in Nat /\ Len(r.schemas) # 0
  BY TopIsLast DEF Reads
<1>2. PICK s, n : s = r.schemas /\ n = Len(r.schemas)
  OBVIOUS
<1>3. Model(s) /\ n \in Nat /\ n # 0 /\ n = Len(s)
  BY <1>1, <1>2
<1>4. LET m == Len(s)
          x == SetIn(s, m, field, v)
      IN  /\ Model(x) /\ Len(x) = m /\ m \in DOMAIN s
          /\ \A i \in 1..(m - 1) : x[i] = s[i]
          /\ x[m].owner = s[m].owner
          /\ x[m].name = IF field = "name" THEN v ELSE s[m].name
          /\ x[m].type = IF field = "type" THEN v ELSE s[m].type
          /\ x[m].constraint = IF field = "constraint" THEN v ELSE s[m].constraint
          /\ x[m].default = IF field = "default" THEN v ELSE s[m].default
          /\ x[m].number = IF field = "number" THEN v ELSE s[m].number
  BY <1>3, SetInIs
<1>5. LastSet(s, n, SetIn(s, n, field, v), field, v)
  BY <1>3, <1>4 DEF LastSet
<1> QED
  BY <1>2, <1>5

\* What an attribute of the class refers to is before the last schema.
LEMMA LastRefers ==
  ASSUME NEW s, NEW n, NEW t, NEW field, NEW v, LastSet(s, n, t, field, v), NEW name
  PROVE  RefersTo(s, n, name) <=> RefersTo(t, n, name)
<1>1. t[n].owner = s[n].owner /\ \A j \in 1..(n - 1) : t[j] = s[j]
  BY DEF LastSet
<1> QED
  BY <1>1 DEF RefersTo

\* A tag of a schema is open, and what was made so far is sound.
Tagged(r, fields, o) ==
  /\ Reads(r) /\ Built(r, fields, o) /\ InTag(r, fields) /\ Top(r).schema # 0

\* What is known of the open schema.
LEMMA OpenIs ==
  ASSUME NEW r, NEW fields, NEW o, Tagged(r, fields, o)
  PROVE  LET s == r.schemas
             n == Len(s)
         IN  /\ n \in Nat /\ n # 0 /\ n \in DOMAIN s /\ DOMAIN s = 1..n
             /\ Top(r).schema = n /\ TypeOf(r, Top(r).schema) = s[n].type
             /\ SchemaSound(s, n) /\ (o => DefaultSound(s, n))
             /\ "type" \notin fields => s[n].type = "unknown"
             /\ "default" \notin fields => s[n].default = Null
<1>1. PICK s, n : s = r.schemas /\ n = Len(s)
  OBVIOUS
<1>2. n \in Nat /\ n # 0 /\ n \in DOMAIN s /\ Top(r).schema = n
  BY <1>1, TopIsLast DEF Tagged
<1>3. DOMAIN s = 1..n
  BY <1>1, ModelIs DEF Tagged, Reads
<1>4. TypeOf(r, Top(r).schema) = s[n].type
  BY <1>1, <1>2 DEF TypeOf
<1>5. SchemaSound(s, n) /\ (o => DefaultSound(s, n))
  BY <1>1, <1>2 DEF Tagged, Built
<1>6. /\ "type" \notin fields => s[n].type = "unknown"
      /\ "default" \notin fields => s[n].default = Null
  BY <1>1 DEF Tagged, InTag
<1> QED
  BY <1>1, <1>2, <1>3, <1>4, <1>5, <1>6

\* The name.
LEMMA NameBuilt ==
  ASSUME NEW r, NEW fields, NEW o, Tagged(r, fields, o), NEW text \in STRING
  PROVE  Built(Set(r, "name", text), fields \cup {"name"}, o)
<1>0. "name" \in Fields /\ text \in Word
  BY DEF Fields, Word
<1>1. PICK s, n : s = r.schemas /\ n = Len(r.schemas)
  OBVIOUS
<1>2. PICK t : t = SetIn(s, n, "name", text)
  OBVIOUS
<1>3. LastSet(s, n, t, "name", text)
  BY <1>0, <1>1, <1>2, LastSetIs DEF Tagged
<1>4. SchemaSound(s, n) /\ (o => DefaultSound(s, n))
  BY <1>1, OpenIs
<1>5. /\ t[n].type = s[n].type /\ t[n].constraint = s[n].constraint
      /\ t[n].default = s[n].default /\ t[n].number = s[n].number
  BY <1>3 DEF LastSet
<1>6. \A x : RefersTo(s, n, x) <=> RefersTo(t, n, x)
  BY <1>3, LastRefers
<1>7. SchemaSound(t, n) /\ (o => DefaultSound(t, n))
  BY <1>4, <1>5, <1>6 DEF SchemaSound, DefaultSound
<1> QED
  BY <1>0, <1>1, <1>2, <1>7, SetBuilt DEF Tagged

\* The type, which comes before all that depends on it.
LEMMA TypeBuilt ==
  ASSUME NEW r, NEW fields, NEW o, Tagged(r, fields, o), "type" \notin fields, NEW text
  PROVE  Built(Set(r, "type", text), fields \cup {"type"}, o)
<1>0. "type" \in Fields /\ "type" # "name"
  BY DEF Fields
<1>1. PICK s, n : s = r.schemas /\ n = Len(r.schemas)
  OBVIOUS
<1>2. PICK t : t = SetIn(s, n, "type", text)
  OBVIOUS
<1>3. LastSet(s, n, t, "type", text)
  BY <1>0, <1>1, <1>2, LastSetIs DEF Tagged
<1>4. SchemaSound(s, n) /\ s[n].type = "unknown"
  BY <1>1, OpenIs
<1>5. s[n].constraint = NoConstraint /\ s[n].default = Null /\ s[n].number = Null
  BY <1>4 DEF SchemaSound
<1>6. t[n].constraint = NoConstraint /\ t[n].default = Null /\ t[n].number = Null
  BY <1>3, <1>5 DEF LastSet
<1>7. SchemaSound(t, n) /\ DefaultSound(t, n)
  BY <1>6 DEF SchemaSound, DefaultSound, NoConstraint
<1> QED
  BY <1>0, <1>1, <1>2, <1>7, SetBuilt DEF Tagged

\* A constraint, if it comes before the default or the document is no longer
\* orderly.
LEMMA ConstraintBuilt ==
  ASSUME NEW r, NEW fields, NEW o, Tagged(r, fields, o), r.schemas[Len(r.schemas)].type # "unknown",
         NEW v, v.kind = "attr" => RefersTo(r.schemas, Len(r.schemas), v.attr),
         NEW o2, o2 => o /\ "default" \notin fields
  PROVE  Built(Set(r, "constraint", v), fields \cup {"constraint"}, o2)
<1>0. "constraint" \in Fields /\ "constraint" # "name"
  BY DEF Fields
<1>1. PICK s, n : s = r.schemas /\ n = Len(r.schemas)
  OBVIOUS
<1>2. PICK t : t = SetIn(s, n, "constraint", v)
  OBVIOUS
<1>3. LastSet(s, n, t, "constraint", v)
  BY <1>0, <1>1, <1>2, LastSetIs DEF Tagged
<1>4. SchemaSound(s, n) /\ ("default" \notin fields => s[n].default = Null)
  BY <1>1, OpenIs
<1>5. /\ t[n].type = s[n].type /\ t[n].constraint = v
      /\ t[n].default = s[n].default /\ t[n].number = s[n].number
  BY <1>3 DEF LastSet
<1>6. \A x : RefersTo(s, n, x) <=> RefersTo(t, n, x)
  BY <1>3, LastRefers
<1>7. s[n].type # "unknown" /\ (v.kind = "attr" => RefersTo(s, n, v.attr))
  BY <1>1
<1>8. SchemaSound(t, n)
  BY <1>4, <1>5, <1>6, <1>7 DEF SchemaSound
<1>9. o2 => o /\ DefaultSound(t, n)
  BY <1>4, <1>5 DEF DefaultSound
<1> QED
  BY <1>0, <1>1, <1>2, <1>8, <1>9, SetBuilt DEF Tagged

\* The number of a list.
LEMMA NumberBuilt ==
  ASSUME NEW r, NEW fields, NEW o, Tagged(r, fields, o), r.schemas[Len(r.schemas)].type # "unknown",
         NEW v, RefersTo(r.schemas, Len(r.schemas), v)
  PROVE  Built(Set(r, "number", v), fields \cup {"number"}, o)
<1>0. "number" \in Fields /\ "number" # "name"
  BY DEF Fields
<1>1. PICK s, n : s = r.schemas /\ n = Len(r.schemas)
  OBVIOUS
<1>2. PICK t : t = SetIn(s, n, "number", v)
  OBVIOUS
<1>3. LastSet(s, n, t, "number", v)
  BY <1>0, <1>1, <1>2, LastSetIs DEF Tagged
<1>4. SchemaSound(s, n) /\ (o => DefaultSound(s, n))
  BY <1>1, OpenIs
<1>5. /\ t[n].type = s[n].type /\ t[n].constraint = s[n].constraint
      /\ t[n].default = s[n].default /\ t[n].number = v
  BY <1>3 DEF LastSet
<1>6. \A x : RefersTo(s, n, x) <=> RefersTo(t, n, x)
  BY <1>3, LastRefers
<1>7. s[n].type # "unknown" /\ RefersTo(s, n, v)
  BY <1>1
<1>8. SchemaSound(t, n) /\ (o => DefaultSound(t, n))
  BY <1>4, <1>5, <1>6, <1>7 DEF SchemaSound, DefaultSound
<1> QED
  BY <1>0, <1>1, <1>2, <1>8, SetBuilt DEF Tagged

\* The default, which is valid.
LEMMA ValidBuilt ==
  ASSUME NEW r, NEW fields, NEW o, Tagged(r, fields, o), NEW text,
         LET x == r.schemas[Len(r.schemas)]
         IN  x.type = "dateTime" \/ Validates(x.type, text, x.constraint)
  PROVE  Built(Set(r, "default", text), fields \cup {"default"}, o)
<1>0. "default" \in Fields /\ "default" # "name"
  BY DEF Fields
<1>1. PICK s, n : s = r.schemas /\ n = Len(r.schemas)
  OBVIOUS
<1>2. PICK t : t = SetIn(s, n, "default", text)
  OBVIOUS
<1>3. LastSet(s, n, t, "default", text)
  BY <1>0, <1>1, <1>2, LastSetIs DEF Tagged
<1>4. SchemaSound(s, n)
  BY <1>1, OpenIs
<1>5. /\ t[n].type = s[n].type /\ t[n].constraint = s[n].constraint
      /\ t[n].default = text /\ t[n].number = s[n].number
  BY <1>3 DEF LastSet
<1>6. \A x : RefersTo(s, n, x) <=> RefersTo(t, n, x)
  BY <1>3, LastRefers
<1>7. s[n].type = "dateTime" \/ Validates(s[n].type, text, s[n].constraint)
  BY <1>1
<1>8. s[n].type # "unknown"
  BY <1>7 DEF Validates
<1>9. SchemaSound(t, n) /\ DefaultSound(t, n)
  BY <1>4, <1>5, <1>6, <1>7, <1>8 DEF SchemaSound, DefaultSound
<1> QED
  BY <1>0, <1>1, <1>2, <1>9, SetBuilt DEF Tagged

\* evcpe_class_find: what a list refers to comes before it.
LEMMA FoundIs ==
  ASSUME NEW r, NEW fields, NEW o, Tagged(r, fields, o),
         r.schemas[Len(r.schemas)].type = "multiple",
         NEW name, Found(r, name) # 0, r.schemas[Found(r, name)].name # Null,
         r.schemas[Found(r, name)].type = "unsignedInt"
  PROVE  RefersTo(r.schemas, Len(r.schemas), name)
<1>1. PICK s, n : s = r.schemas /\ n = Len(r.schemas)
  OBVIOUS
<1>2. n \in Nat /\ n # 0 /\ DOMAIN s = 1..n /\ Top(r).schema = n /\ s[n].type = "multiple"
  BY <1>1, OpenIs
<1> DEFINE stops == {i \in Attributes(s, s[n].owner) : s[i].name \in {name, Null}}
<1>3. Found(r, name) = IF stops = {} THEN 0 ELSE Min(stops)
  BY <1>1, <1>2 DEF Found
<1>4. stops \subseteq DOMAIN s /\ stops \in SUBSET Nat
  BY <1>2 DEF Attributes
<1> HIDE DEF stops
<1>5. stops # {} /\ Found(r, name) = Min(stops)
  BY <1>3
<1>6. Min(stops) \in stops
  <2>1. \E i \in stops : \A j \in stops : i <= j
    BY <1>4, <1>5, HasLeast
  <2> QED
    BY <2>1 DEF Min
<1>7. PICK j : j = Found(r, name)
  OBVIOUS
<1>8. j \in stops /\ s[j].name # Null /\ s[j].type = "unsignedInt"
  BY <1>1, <1>5, <1>6, <1>7
<1>9. j \in DOMAIN s /\ s[j].owner = s[n].owner /\ s[j].name = name
  BY <1>8 DEF stops, Attributes
<1>10. j \in 1..(n - 1)
  BY <1>2, <1>8, <1>9
<1>11. RefersTo(s, n, name)
  BY <1>8, <1>9, <1>10 DEF RefersTo
<1> QED
  BY <1>1, <1>11

\* A list refers to an attribute, or is refused.
LEMMA ReferIs ==
  ASSUME NEW r, NEW fields, NEW o, Tagged(r, fields, o),
         r.schemas[Len(r.schemas)].type = "multiple",
         NEW field, NEW name, NEW v
  PROVE  \/ Refer(r, field, name, v) \in {Refused, Undefined}
         \/ /\ Refer(r, field, name, v) = Set(r, field, v)
            /\ RefersTo(r.schemas, Len(r.schemas), name)
<1>1. PICK x, w, u, f : /\ x = Refer(r, field, name, v)
                        /\ w = Refused /\ u = Undefined /\ f = Set(r, field, v)
  OBVIOUS
<1>2. PICK i : i = Found(r, name)
  OBVIOUS
<1>3. x = CASE i = 0 -> w
            [] r.schemas[i].name = Null -> u
            [] r.schemas[i].type # "unsignedInt" -> w
            [] OTHER -> f
  BY <1>1, <1>2, Zenon DEF Refer
<1>4. \/ x \in {w, u}
      \/ x = f /\ i # 0 /\ r.schemas[i].name # Null /\ r.schemas[i].type = "unsignedInt"
  BY <1>3
<1>5. ASSUME i # 0, r.schemas[i].name # Null, r.schemas[i].type = "unsignedInt"
      PROVE  RefersTo(r.schemas, Len(r.schemas), name)
  <2>1. Found(r, name) # 0 /\ r.schemas[Found(r, name)].name # Null
        /\ r.schemas[Found(r, name)].type = "unsignedInt"
    BY <1>2, <1>5
  <2> QED
    BY <2>1, FoundIs
<1> QED
  BY <1>1, <1>4, <1>5

\* The constraint attribute.
LEMMA ConstrainBuilt ==
  ASSUME NEW r, NEW fields, NEW o, Tagged(r, fields, o), NEW text,
         NEW o2, o2 => o /\ "default" \notin fields
  PROVE  Built(Constrain(r, text), fields \cup {"constraint"}, o2)
<1>1. PICK x, w, a, b, c, d :
        /\ x = Constrain(r, text) /\ w = Refused
        /\ a = Set(r, "constraint", SizeConstraint)
        /\ b = Set(r, "constraint", EnumConstraint)
        /\ c = Set(r, "constraint", RangeConstraint(text))
        /\ d = Refer(r, "constraint", text, AttrConstraint(text))
  OBVIOUS
<1>2. PICK type : type = r.schemas[Len(r.schemas)].type
  OBVIOUS
<1>3. type = TypeOf(r, Top(r).schema)
  BY <1>2, OpenIs
<1>4. x = CASE type \in {"string", "base64"} /\ text \in DOMAIN Number ->
                 IF Number[text] < 0 THEN w ELSE a
            [] type = "string" -> b
            [] type \in {"int", "unsignedInt"} /\ text \in DOMAIN Bounds -> c
            [] type = "multiple" -> d
            [] OTHER -> w
  BY <1>1, <1>3, Zenon DEF Constrain
<1>5. \/ x = w
      \/ x \in {a, b, c} /\ type # "unknown"
      \/ x = d /\ type = "multiple"
  BY <1>4
<1> DEFINE fits(y) == Built(y, fields \cup {"constraint"}, o2)
<1>6. fits(w)
  BY <1>1, NothingBuilt
<1>7. ASSUME NEW v, v.kind # "attr", type # "unknown"
      PROVE  fits(Set(r, "constraint", v))
  BY <1>2, <1>7, ConstraintBuilt
<1>8. /\ SizeConstraint.kind = "size" /\ EnumConstraint.kind = "enum"
      /\ RangeConstraint(text).kind = "range"
  BY DEF SizeConstraint, EnumConstraint, RangeConstraint, NoConstraint
<1>9. type # "unknown" => fits(a) /\ fits(b) /\ fits(c)
  <2> HIDE DEF fits
  <2>1. type # "unknown" =>
          /\ fits(Set(r, "constraint", SizeConstraint))
          /\ fits(Set(r, "constraint", EnumConstraint))
          /\ fits(Set(r, "constraint", RangeConstraint(text)))
    BY <1>7, <1>8
  <2> QED
    BY <1>1, <2>1
<1>10. ASSUME type = "multiple" PROVE fits(d)
  <2>1. r.schemas[Len(r.schemas)].type = "multiple"
    BY <1>2, <1>10
  <2>2. PICK v : v = AttrConstraint(text)
    OBVIOUS
  <2>3. v.attr = text
    BY <2>2 DEF AttrConstraint, NoConstraint
  <2>4. \/ Refer(r, "constraint", text, v) \in {Refused, Undefined}
        \/ /\ Refer(r, "constraint", text, v) = Set(r, "constraint", v)
           /\ RefersTo(r.schemas, Len(r.schemas), text)
    BY <2>1, ReferIs
  <2>5. RefersTo(r.schemas, Len(r.schemas), text) => fits(Set(r, "constraint", v))
    <3>1. RefersTo(r.schemas, Len(r.schemas), text) =>
            (v.kind = "attr" => RefersTo(r.schemas, Len(r.schemas), v.attr))
      BY <2>3
    <3>2. r.schemas[Len(r.schemas)].type # "unknown"
      BY <2>1
    <3> QED
      BY <3>1, <3>2, ConstraintBuilt
  <2>6. fits(Refused) /\ fits(Undefined)
    BY NothingBuilt
  <2> HIDE DEF fits
  <2>7. fits(Refer(r, "constraint", text, v))
    BY <2>4, <2>5, <2>6
  <2> QED
    BY <1>1, <2>2, <2>7
<1>11. fits(x)
  <2> HIDE DEF fits
  <2> QED
    BY <1>5, <1>6, <1>9, <1>10
<1> QED
  BY <1>1, <1>11

\* The default attribute.
LEMMA DefaultBuilt ==
  ASSUME NEW r, NEW fields, NEW o, Tagged(r, fields, o), NEW text, NEW x \in Default(r, text),
         Built(r, fields \cup {"default"}, o)
  PROVE  Built(x, fields \cup {"default"}, o)
<1>1. PICK w, a : w = Refused /\ a = Set(r, "default", text)
  OBVIOUS
<1>2. PICK c, d : c = Top(r).schema /\ d = Default(r, text)
  OBVIOUS
<1>3. d = CASE TypeOf(r, c) = "dateTime" -> IF text = "auto" THEN {a} ELSE {w, r}
            [] c # 0 /\ Validates(r.schemas[c].type, text, r.schemas[c].constraint) -> {a}
            [] OTHER -> {w}
  BY <1>1, <1>2, Zenon DEF Default
<1>4. c = Len(r.schemas) /\ TypeOf(r, c) = r.schemas[c].type
  <2>1. Top(r).schema = Len(r.schemas)
        /\ TypeOf(r, Top(r).schema) = r.schemas[Len(r.schemas)].type
    BY OpenIs
  <2> QED
    BY <1>2, <2>1
<1>5. x \in d
  BY <1>2, Zenon
<1>6. \/ x \in {w, r}
      \/ /\ x = a
         /\ \/ TypeOf(r, c) = "dateTime"
            \/ Validates(r.schemas[c].type, text, r.schemas[c].constraint)
  BY <1>3, <1>5
<1>7. Built(w, fields \cup {"default"}, o)
  BY <1>1, NothingBuilt
<1>8. ASSUME \/ r.schemas[c].type = "dateTime"
             \/ Validates(r.schemas[c].type, text, r.schemas[c].constraint)
      PROVE  Built(a, fields \cup {"default"}, o)
  <2>1. LET y == r.schemas[Len(r.schemas)]
        IN  y.type = "dateTime" \/ Validates(y.type, text, y.constraint)
    BY <1>4, <1>8
  <2>2. Built(Set(r, "default", text), fields \cup {"default"}, o)
    BY <2>1, ValidBuilt
  <2> QED
    BY <1>1, <2>2
<1> QED
  BY <1>4, <1>6, <1>7, <1>8

\* Less is known once more fields were given.
LEMMA BuiltStays ==
  ASSUME NEW r, NEW fields, NEW o, Built(r, fields, o), fields # Fields,
         NEW more, fields \subseteq more, NEW o2, o2 => o
  PROVE  Built(r, more, o2)
<1>1. InTag(r, fields) => InTag(r, more)
  BY DEF InTag
<1> QED
  BY <1>1 DEF Built

\* evcpe_class_xml_attr_cb at the root, which has no schema.
LEMMA RootAttribute ==
  ASSUME NEW r, Reads(r), NamedStack(r), r.stack # <<>>, Top(r).schema = 0,
         NEW attr, NEW text, NEW x \in Attribute(r, attr, text)
  PROVE  x = Refused \/ (x = r /\ attr \in Flags)
<1>1. PICK w, n, t, m, c : /\ w = Refused
                           /\ n = Set(r, "name", text) /\ t = Set(r, "type", text)
                           /\ m = Refer(r, "number", text, text)
                           /\ c = Constrain(r, text)
  OBVIOUS
<1>2. PICK d, e : d = Attribute(r, attr, text) /\ e = Default(r, text)
  OBVIOUS
<1>3. d = CASE attr = "name" -> {IF Top(r).name = "model" THEN w ELSE n}
            [] attr = "type" ->
                 {IF Top(r).name = "model" \/ text \notin Types THEN w ELSE t}
            [] attr = "constraint" -> {c}
            [] attr = "default" -> e
            [] attr = "number" ->
                 {IF TypeOf(r, Top(r).schema) = "multiple" THEN m ELSE w}
            [] attr \in Flags -> {IF FlagFits(r, attr) THEN r ELSE w}
            [] OTHER -> {w}
  BY <1>1, <1>2, Zenon DEF Attribute
<1>4. x \in d
  BY <1>2, Zenon
<1>5. Top(r).name = "model"
  <2>1. PICK S : r.stack \in Seq(S)
    BY DEF Reads, IsSeq
  <2>2. Len(r.stack) \in DOMAIN r.stack
    BY <2>1
  <2> QED
    BY <2>2 DEF NamedStack, Top, Last
<1>6. PICK type : type = TypeOf(r, Top(r).schema)
  OBVIOUS
<1>7. type = "object"
  BY <1>6 DEF TypeOf
<1>8. c = w
  <2>1. PICK a, b, f, g :
          /\ a = Set(r, "constraint", SizeConstraint)
          /\ b = Set(r, "constraint", EnumConstraint)
          /\ f = Set(r, "constraint", RangeConstraint(text))
          /\ g = Refer(r, "constraint", text, AttrConstraint(text))
    OBVIOUS
  <2>2. c = CASE type \in {"string", "base64"} /\ text \in DOMAIN Number ->
                   IF Number[text] < 0 THEN w ELSE a
              [] type = "string" -> b
              [] type \in {"int", "unsignedInt"} /\ text \in DOMAIN Bounds -> f
              [] type = "multiple" -> g
              [] OTHER -> w
    BY <1>1, <1>6, <2>1, Zenon DEF Constrain
  <2> QED
    BY <1>7, <2>2
<1>9. e = {w}
  <2>1. PICK a, k : a = Set(r, "default", text) /\ k = Top(r).schema
    OBVIOUS
  <2>2. e = CASE TypeOf(r, k) = "dateTime" -> IF text = "auto" THEN {a} ELSE {w, r}
              [] k # 0 /\ Validates(r.schemas[k].type, text, r.schemas[k].constraint) -> {a}
              [] OTHER -> {w}
    BY <1>1, <1>2, <2>1, Zenon DEF Default
  <2>3. k = 0 /\ TypeOf(r, k) = "object"
    BY <1>6, <1>7, <2>1
  <2> QED
    BY <2>2, <2>3
<1>10. d = IF attr \in Flags THEN {IF FlagFits(r, attr) THEN r ELSE w} ELSE {w}
  BY <1>3, <1>5, <1>6, <1>7, <1>8, <1>9 DEF Flags
<1> QED
  BY <1>1, <1>4, <1>10

\* evcpe_class_xml_attr_cb.
LEMMA AttributeBuilt ==
  ASSUME NEW r, Reads(r), r.status = "reading", NEW fields, fields # Fields,
         NEW o, Built(r, fields, o),
         NEW attr, attr \notin fields, NEW text \in STRING, NEW x \in Attribute(r, attr, text),
         NEW o2, o2 => o /\ ~(attr = "constraint" /\ "default" \in fields)
  PROVE  Built(x, fields \cup ({attr} \cap Fields), o2)
<1>0. InTag(r, fields) /\ NamedStack(r) /\ r.stack # <<>>
  BY DEF Built, InTag
<1>1. PICK more : more = fields \cup ({attr} \cap Fields)
  OBVIOUS
<1>2. Built(r, more, o2)
  BY <1>1, BuiltStays
<1>3. Built(Refused, more, o2)
  BY NothingBuilt
<1>4. CASE Top(r).schema = 0
  BY <1>0, <1>1, <1>2, <1>3, <1>4, RootAttribute
<1>5. CASE Top(r).schema # 0
  <2>0. Tagged(r, fields, o) /\ Tagged(r, fields, o2)
    <3>1. Built(r, fields, o2)
      BY BuiltStays
    <3> QED
      BY <1>0, <1>5, <3>1 DEF Tagged
  <2>1. PICK w, n, t, m, c : /\ w = Refused
                             /\ n = Set(r, "name", text) /\ t = Set(r, "type", text)
                             /\ m = Refer(r, "number", text, text)
                             /\ c = Constrain(r, text)
    OBVIOUS
  <2>2. PICK d, e : d = Attribute(r, attr, text) /\ e = Default(r, text)
    OBVIOUS
  <2>3. d = CASE attr = "name" -> {IF Top(r).name = "model" THEN w ELSE n}
              [] attr = "type" ->
                   {IF Top(r).name = "model" \/ text \notin Types THEN w ELSE t}
              [] attr = "constraint" -> {c}
              [] attr = "default" -> e
              [] attr = "number" ->
                   {IF TypeOf(r, Top(r).schema) = "multiple" THEN m ELSE w}
              [] attr \in Flags -> {IF FlagFits(r, attr) THEN r ELSE w}
              [] OTHER -> {w}
    BY <2>1, <2>2, Zenon DEF Attribute
  <2>4. x \in d
    BY <2>2, Zenon
  <2>5. \/ x \in {w, r}
        \/ x = n /\ attr = "name"
        \/ x = t /\ attr = "type"
        \/ x = c /\ attr = "constraint"
        \/ x \in e /\ attr = "default"
        \/ x = m /\ attr = "number" /\ TypeOf(r, Top(r).schema) = "multiple"
    BY <2>3, <2>4
  <2>6. more = fields \cup {attr} \/ attr \notin Fields
    BY <1>1
  <2>7. CASE x = n /\ attr = "name"
    <3>1. Built(Set(r, "name", text), fields \cup {"name"}, o2)
      BY <2>0, NameBuilt
    <3> QED
      BY <1>1, <2>1, <2>6, <2>7, <3>1 DEF Fields
  <2>8. CASE x = t /\ attr = "type"
    <3>1. Built(Set(r, "type", text), fields \cup {"type"}, o2)
      BY <2>0, <2>8, TypeBuilt
    <3> QED
      BY <1>1, <2>1, <2>6, <2>8, <3>1 DEF Fields
  <2>9. CASE x = c /\ attr = "constraint"
    <3>1. Built(Constrain(r, text), fields \cup {"constraint"}, o2)
      BY <2>0, <2>9, ConstrainBuilt
    <3> QED
      BY <1>1, <2>1, <2>6, <2>9, <3>1 DEF Fields
  <2>10. CASE x \in e /\ attr = "default"
    <3>1. more = fields \cup {"default"}
      BY <2>6, <2>10 DEF Fields
    <3>2. Built(r, fields \cup {"default"}, o2) /\ x \in Default(r, text)
      BY <1>2, <2>2, <2>10, <3>1
    <3>3. Built(x, fields \cup {"default"}, o2)
      BY <2>0, <3>2, DefaultBuilt
    <3> QED
      BY <1>1, <3>1, <3>3
  <2>11. CASE x = m /\ attr = "number" /\ TypeOf(r, Top(r).schema) = "multiple"
    <3>1. r.schemas[Len(r.schemas)].type = "multiple"
      BY <2>0, <2>11, OpenIs
    <3>2. \/ Refer(r, "number", text, text) \in {Refused, Undefined}
          \/ /\ Refer(r, "number", text, text) = Set(r, "number", text)
             /\ RefersTo(r.schemas, Len(r.schemas), text)
      BY <2>0, <3>1, ReferIs
    <3>3. RefersTo(r.schemas, Len(r.schemas), text) =>
            Built(Set(r, "number", text), fields \cup {"number"}, o2)
      <4>1. r.schemas[Len(r.schemas)].type # "unknown"
        BY <3>1
      <4> QED
        BY <2>0, <4>1, NumberBuilt
    <3>4. /\ Built(Refused, fields \cup {"number"}, o2)
          /\ Built(Undefined, fields \cup {"number"}, o2)
      BY NothingBuilt
    <3>5. Built(Refer(r, "number", text, text), fields \cup {"number"}, o2)
      BY <3>2, <3>3, <3>4
    <3> QED
      BY <1>1, <2>1, <2>6, <2>11, <3>5 DEF Fields
  <2>12. CASE x \in {w, r}
    BY <1>1, <1>2, <1>3, <2>1, <2>12
  <2> QED
    BY <2>5, <2>7, <2>8, <2>9, <2>10, <2>11, <2>12
<1> QED
  BY <1>4, <1>5

\* An element of schema c opened: it is on top, the others stay.
Pushed(u, r, e, c) ==
  /\ u.status = r.status
  /\ u.schemas = r.schemas
  /\ u.stack # <<>> /\ Top(u).schema = c
  /\ \A i : IsOpen(u, i) <=> IsOpen(r, i) \/ i = c
  /\ NamedStack(r) /\ (IF c = 0 THEN e = "model" ELSE e \in {"schema", "extension"})
       => NamedStack(u)

\* The element of schema c is on top of the stack.
LEMMA PushIs ==
  ASSUME NEW r, Reads(r), NEW e, NEW c \in Nat
  PROVE  Pushed(Push(r, e, c), r, e, c)
<1>1. PICK x : x = [name |-> e, schema |-> c]
  OBVIOUS
<1>2. PICK S : r.stack \in Seq(S)
  BY DEF Reads, IsSeq
<1>3. r.stack \in Seq(S \cup {x})
  BY <1>2
<1>4. PICK st : st = Append(r.stack, x)
  OBVIOUS
<1>5. PICK n : n = Len(r.stack)
  OBVIOUS
<1>6. /\ st # <<>> /\ Len(st) = n + 1 /\ n \in Nat
      /\ DOMAIN st = 1..(n + 1) /\ DOMAIN r.stack = 1..n
      /\ \A k \in 1..n : st[k] = r.stack[k]
      /\ st[n + 1] = x
  BY <1>3, <1>4, <1>5
<1>7. PICK u : u = Push(r, e, c)
  OBVIOUS
<1>8. u = [status |-> r.status, stack |-> st, schemas |-> r.schemas]
  BY <1>1, <1>4, <1>7 DEF Push, Reads
<1>9. Top(u) = x
  BY <1>6, <1>8 DEF Top, Last
<1>10. ASSUME NEW i PROVE IsOpen(u, i) <=> IsOpen(r, i) \/ i = c
  <2>1. x.schema = c
    BY <1>1
  <2>2. \A k \in 1..(n + 1) : k \in 1..n \/ k = n + 1
    BY <1>6
  <2>3. n + 1 \in 1..(n + 1) /\ \A k \in 1..n : k \in 1..(n + 1)
    BY <1>6
  <2> QED
    BY <1>6, <1>8, <2>1, <2>2, <2>3 DEF IsOpen
<1>11. ASSUME NamedStack(r), IF c = 0 THEN e = "model" ELSE e \in {"schema", "extension"}
       PROVE  NamedStack(u)
  <2>1. ASSUME NEW k \in DOMAIN st
        PROVE  IF st[k].schema = 0 THEN st[k].name = "model"
               ELSE st[k].name \in {"schema", "extension"}
    <3>1. CASE k \in 1..n
      BY <1>6, <1>11, <3>1 DEF NamedStack
    <3>2. CASE k = n + 1
      BY <1>1, <1>6, <1>11, <3>2
    <3> QED
      BY <1>6, <2>1, <3>1, <3>2
  <2> QED
    BY <1>8, <2>1 DEF NamedStack
<1>12. Pushed(u, r, e, c)
  BY <1>1, <1>6, <1>8, <1>9, <1>10, <1>11 DEF Pushed
<1> QED
  BY <1>7, <1>12

\* evcpe_class_xml_elm_begin_cb: nothing was given to the new schema yet.
LEMMA BeginBuilt ==
  ASSUME NEW r, Reads(r), NEW fields, NEW o, Built(r, fields, o), NEW e
  PROVE  Built(Begin(r, e), {}, o)
<1> DEFINE added == [r EXCEPT !.schemas = Append(@, NewSchema(Top(r).schema))]
<1>1. PICK x, m, n, w : /\ x = Begin(r, e) /\ m = Push(r, e, 0)
                        /\ n = Push(added, e, Len(r.schemas) + 1) /\ w = Refused
  OBVIOUS
<1>2. x = CASE e = "model" /\ r.stack = <<>> -> m
            [] /\ e \in {"schema", "extension"}
               /\ r.stack # <<>>
               /\ TypeOf(r, Top(r).schema) \in {"object", "multiple"} -> n
            [] OTHER -> w
  BY <1>1, Zenon DEF Begin
<1>3. \/ x = w
      \/ x = m /\ e = "model"
      \/ x = n /\ r.stack # <<>> /\ e \in {"schema", "extension"}
  BY <1>2
<1>4. Built(w, {}, o)
  BY <1>1, NothingBuilt
<1>5. ASSUME e = "model" PROVE Built(m, {}, o)
  <2>1. Pushed(m, r, e, 0)
    BY <1>1, PushIs
  <2>2. /\ m.status = r.status /\ m.schemas = r.schemas
        /\ m.stack # <<>> /\ Top(m).schema = 0
        /\ \A i : IsOpen(r, i) => IsOpen(m, i)
        /\ NamedStack(r) => NamedStack(m)
    BY <1>5, <2>1 DEF Pushed
  <2>3. InTag(m, {})
    BY <2>2 DEF InTag
  <2> QED
    BY <2>2, <2>3 DEF Built
<1>6. ASSUME r.stack # <<>>, e \in {"schema", "extension"} PROVE Built(n, {}, o)
  <2>1. PICK c, s, l : c = Top(r).schema /\ s = r.schemas /\ l = Len(r.schemas)
    OBVIOUS
  <2>2. Model(s) /\ c \in 0..Len(s) /\ l = Len(s) /\ l \in Nat /\ DOMAIN s = 1..l
    BY <1>6, <2>1, TopIs, ModelIs DEF Reads
  <2>3. PICK y : y = NewSchema(c)
    OBVIOUS
  <2>4. PICK t : t = Append(s, y)
    OBVIOUS
  <2>5. Model(t) /\ Len(t) = l + 1
    BY <2>2, <2>3, <2>4, SchemaAdded
  <2>6. /\ DOMAIN t = 1..(l + 1)
        /\ \A i \in 1..l : t[i] = s[i]
        /\ t[l + 1] = y
    <3>1. PICK S : s \in Seq(SchemaIn(S))
      BY <2>2 DEF Model
    <3>2. s \in Seq(SchemaIn(S) \cup {y}) /\ y \in SchemaIn(S) \cup {y}
      BY <3>1
    <3> QED
      BY <2>2, <2>4, <3>2
  <2>7. PICK v : v = added
    OBVIOUS
  <2>8. v = [status |-> r.status, stack |-> r.stack, schemas |-> t]
    BY <2>1, <2>3, <2>4, <2>7 DEF Reads
  <2>9. Reads(v)
    <3>1. \A k \in 0..l : k \in 0..Len(t)
      BY <2>2, <2>5
    <3> QED
      BY <2>1, <2>5, <2>8, <3>1 DEF Reads
  <2>10. /\ n.status = r.status /\ n.schemas = t
         /\ n.stack # <<>> /\ Top(n).schema = l + 1
         /\ \A i : IsOpen(n, i) <=> IsOpen(v, i) \/ i = l + 1
         /\ NamedStack(v) => NamedStack(n)
    <3>1. l + 1 \in Nat /\ l + 1 # 0
      BY <2>2
    <3>2. n = Push(v, e, l + 1)
      BY <1>1, <2>1, <2>7
    <3>3. Pushed(n, v, e, l + 1)
      BY <2>9, <3>1, <3>2, PushIs
    <3> QED
      BY <1>6, <2>8, <3>1, <3>3 DEF Pushed
  <2>11. NamedStack(n)
    BY <2>8, <2>10 DEF Built, NamedStack
  <2>12. y.type = "unknown" /\ y.constraint = NoConstraint /\ y.default = Null /\ y.number = Null
    BY <2>3 DEF NewSchema
  <2>13. InTag(n, {})
    BY <2>5, <2>6, <2>10, <2>12 DEF InTag
  <2>14. ASSUME NEW i \in 1..l
         PROVE  /\ SchemaSound(s, i) => SchemaSound(t, i)
                /\ DefaultSound(s, i) => DefaultSound(t, i)
                /\ Finished(s, i) => Finished(t, i)
    <3>1. \A j \in 1..i : t[j] = s[j]
      BY <2>2, <2>6
    <3>2. i \in 1..Len(s) /\ Len(s) <= Len(t)
      BY <2>2, <2>5
    <3> QED
      BY <2>2, <2>5, <3>1, <3>2, SchemasStay
  <2>15. SchemaSound(t, l + 1) /\ DefaultSound(t, l + 1)
    BY <2>6, <2>12 DEF SchemaSound, DefaultSound, NoConstraint
  <2>16. \A i \in DOMAIN t : i \in 1..l \/ i = l + 1
    BY <2>2, <2>6
  <2>17. \A i \in DOMAIN t : SchemaSound(t, i)
    BY <2>1, <2>2, <2>14, <2>15, <2>16 DEF Built
  <2>18. o => \A i \in DOMAIN t : DefaultSound(t, i) /\ (Finished(t, i) \/ IsOpen(n, i))
    <3>1. o => \A i \in 1..l : DefaultSound(s, i) /\ (Finished(s, i) \/ IsOpen(r, i))
      BY <2>1, <2>2 DEF Built
    <3>2. \A i : IsOpen(r, i) <=> IsOpen(v, i)
      BY <2>8 DEF IsOpen
    <3> QED
      BY <2>10, <2>14, <2>15, <2>16, <3>1, <3>2
  <2> QED
    BY <2>10, <2>11, <2>13, <2>17, <2>18 DEF Built
<1> QED
  BY <1>1, <1>3, <1>4, <1>5, <1>6

\* evcpe_class_xml_elm_end_cb: a schema has a name and a type, and so has an
\* extension in an orderly document.
LEMMA EndBuilt ==
  ASSUME NEW r, Reads(r), NEW fields, NEW o, Built(r, fields, o), NEW e,
         NEW o2, o2 => o /\ ~(e = "extension" /\ Unfinished(r))
  PROVE  Built(End(r, e), Fields, o2)
<1> DEFINE c == Top(r).schema
           A == \/ e = "model" /\ Attributes(r.schemas, 0) = {}
                \/ /\ e = "schema"
                   /\ \/ r.schemas[c].name = Null
                      \/ r.schemas[c].type = "unknown"
                      \/ /\ r.schemas[c].type \in {"object", "multiple"}
                         /\ Attributes(r.schemas, c) = {}
           B == r.stack = <<>> \/ Top(r).name # e
           popped == [r EXCEPT !.stack = Front(@)]
<1>1. End(r, e) = CASE B -> Refused [] A -> Refused [] OTHER -> popped
  BY Zenon DEF End
<1>2. ASSUME ~A, ~B PROVE Built(popped, Fields, o2)
  <2>1. PICK S : r.stack \in Seq(S)
    BY DEF Reads, IsSeq
  <2>2. PICK n \in Nat : Len(r.stack) = n + 1
    <3>1. Len(r.stack) \in Nat /\ Len(r.stack) # 0
      BY <1>2, <2>1
    <3>2. Len(r.stack) - 1 \in Nat /\ Len(r.stack) = (Len(r.stack) - 1) + 1
      BY <3>1
    <3> QED
      BY <3>2
  <2>3. PICK f : f = Front(r.stack)
    OBVIOUS
  <2>4. f = SubSeq(r.stack, 1, n)
    BY <2>2, <2>3 DEF Front
  <2>5. 1..n \subseteq DOMAIN r.stack /\ DOMAIN r.stack = 1..(n + 1) /\ n + 1 \in DOMAIN r.stack
    BY <2>1, <2>2
  <2>6. \A k \in 1..n : r.stack[k] \in S
    BY <2>1, <2>5
  <2>7. /\ f \in Seq(S) /\ Len(f) = n /\ DOMAIN f = 1..n
        /\ \A k \in 1..n : f[k] = r.stack[k]
    <3>1. /\ SubSeq(r.stack, 1, n) \in Seq(S)
          /\ Len(SubSeq(r.stack, 1, n)) = IF 1 <= n THEN n - 1 + 1 ELSE 0
          /\ \A k \in 1..(n - 1 + 1) : SubSeq(r.stack, 1, n)[k] = r.stack[1 + k - 1]
      BY <2>6, SubSeqProperties
    <3> QED
      BY <2>4, <3>1
  <2>8. PICK u : u = popped
    OBVIOUS
  <2>9. u = [status |-> r.status, stack |-> f, schemas |-> r.schemas]
    BY <2>3, <2>8 DEF Reads
  <2>10. NamedStack(r) /\ NamedStack(u)
    BY <2>5, <2>7, <2>9 DEF Built, NamedStack
  <2>11. r.stack[n + 1] = Top(r) /\ Top(r).name = e /\ r.stack # <<>>
    BY <1>2, <2>2 DEF Top, Last
  <2>12. ASSUME NEW i \in DOMAIN r.schemas, IsOpen(r, i), o2
         PROVE  Finished(r.schemas, i) \/ IsOpen(u, i)
    <3>1. PICK k \in 1..(n + 1) : r.stack[k].schema = i
      BY <2>5, <2>12 DEF IsOpen
    <3>2. CASE k \in 1..n
      BY <2>7, <2>9, <3>1, <3>2 DEF IsOpen
    <3>3. CASE k = n + 1
      <4>1. Top(r).schema = i /\ i # 0
        <5>1. i # 0
          BY <2>12, ModelIs DEF Reads
        <5> QED
          BY <2>11, <3>1, <3>3, <5>1
      <4>2. e \in {"schema", "extension"}
        BY <2>5, <2>10, <2>11, <4>1 DEF NamedStack
      <4>3. CASE e = "schema"
        BY <1>2, <4>1, <4>3 DEF Finished
      <4>4. CASE e = "extension"
        <5>1. ~Unfinished(r)
          BY <2>12, <4>4
        <5> QED
          BY <2>11, <4>1, <5>1 DEF Unfinished, Finished
      <4> QED
        BY <4>2, <4>3, <4>4
    <3> QED
      BY <2>2, <3>1, <3>2, <3>3
  <2>13. Built(u, Fields, o2)
    BY <2>9, <2>10, <2>12 DEF Built
  <2> QED
    BY <2>8, <2>13
<1> HIDE DEF A, B, popped
<1>3. PICK x, w : x = End(r, e) /\ w = Refused
  OBVIOUS
<1>4. x = CASE B -> w [] A -> w [] OTHER -> popped
  BY <1>1, <1>3, Zenon
<1>5. x = w \/ (x = popped /\ ~A /\ ~B)
  BY <1>4
<1>6. Built(w, Fields, o2)
  BY <1>3, NothingBuilt
<1> QED
  BY <1>2, <1>3, <1>5, <1>6

\* The parser of models, with its histories.
ReaderBuilt == Built(reader, given, orderly)

\* Every step of the two files keeps what is known of the parser.
LEMMA ReaderBuiltInductive ==
  ASSUME DataInv, ReaderBuilt, [DataModelNext]_dataModelVars
  PROVE  ReaderBuilt'
<1>1. Reads(reader)
  BY DEF DataInv
<1>2. CASE UNCHANGED <<reader, given, orderly>>
  BY <1>2 DEF ReaderBuilt
<1>3. ASSUME NEW e \in Elements, BeginElement(e) PROVE ReaderBuilt'
  <2>1. reader' = Begin(reader, e) /\ given' = {} /\ orderly' = orderly
    BY <1>3 DEF BeginElement
  <2>2. Built(Begin(reader, e), {}, orderly)
    BY <1>1, BeginBuilt DEF ReaderBuilt
  <2> QED
    BY <2>1, <2>2 DEF ReaderBuilt
<1>4. ASSUME NEW e \in Elements, EndElement(e) PROVE ReaderBuilt'
  <2>1. /\ reader' = End(reader, e) /\ given' = Fields
        /\ orderly' = (orderly /\ ~(e = "extension" /\ Unfinished(reader)))
    BY <1>4 DEF EndElement
  <2>2. PICK o2 : o2 = (orderly /\ ~(e = "extension" /\ Unfinished(reader)))
    OBVIOUS
  <2>3. Built(End(reader, e), Fields, o2)
    BY <1>1, <2>2, EndBuilt DEF ReaderBuilt
  <2> QED
    BY <2>1, <2>2, <2>3 DEF ReaderBuilt
<1>5. ASSUME NEW i \in Inputs, GiveAttribute(i[1], i[2]) PROVE ReaderBuilt'
  <2>1. PICK attr, text : attr = i[1] /\ text = i[2]
    OBVIOUS
  <2>2. text \in STRING
    BY <2>1, DataModelAssumption
  <2>3. /\ reader.status = "reading" /\ given # Fields /\ attr \notin given
        /\ reader' \in Attribute(reader, attr, text)
        /\ given' = given \cup ({attr} \cap Fields)
        /\ orderly' = (orderly /\ ~(attr = "constraint" /\ "default" \in given))
    BY <1>5, <2>1, Zenon DEF GiveAttribute
  <2>4. PICK o2 : o2 = (orderly /\ ~(attr = "constraint" /\ "default" \in given))
    OBVIOUS
  <2>5. Built(reader', given \cup ({attr} \cap Fields), o2)
    BY <1>1, <2>2, <2>3, <2>4, AttributeBuilt DEF ReaderBuilt
  <2> QED
    BY <2>3, <2>4, <2>5 DEF ReaderBuilt
<1>6. CASE FinishModel
  <2>1. /\ reader' \in {[reader EXCEPT !.status = "accepted"], Refused}
        /\ given' = given /\ orderly' = orderly
    BY <1>6, Zenon DEF FinishModel
  <2>2. PICK r : r = [reader EXCEPT !.status = "accepted"]
    OBVIOUS
  <2>3. r = [status |-> "accepted", stack |-> reader.stack, schemas |-> reader.schemas]
    BY <1>1, <2>2 DEF Reads
  <2>4. Built(r, given, orderly)
    BY <2>3 DEF ReaderBuilt, Built, NamedStack, IsOpen
  <2>5. Built(reader', given, orderly)
    BY <2>1, <2>2, <2>4, NothingBuilt
  <2> QED
    BY <2>1, <2>5 DEF ReaderBuilt
<1>7. CASE UNCHANGED dataModelVars
  BY <1>2, <1>7 DEF dataModelVars
<1>8. CASE FirstStart \/ Restart \/ RestartCut
  BY <1>2, <1>8 DEF FirstStart, Restart, RestartCut
<1>9. ASSUME NEW t, ChangeTo(t) PROVE ReaderBuilt'
  BY <1>2, <1>9 DEF ChangeTo
<1>10. CASE DataModelNext
  BY <1>3, <1>4, <1>5, <1>6, <1>8, <1>9, <1>10
     DEF DataModelNext, SetValue, AddObject, DeleteObject
<1> QED
  BY <1>7, <1>10

\* What the parser lets pass is sound, if the document is careful.
LEMMA CarefulIsSound ==
  ASSUME DataInv, ReaderBuilt, Careful
  PROVE  Model(Schemas) /\ Sound(Schemas) /\ 0 \in 0..Len(Schemas)
<1>1. PICK s : s = Schemas
  OBVIOUS
<1>2. Model(s) /\ s = reader.schemas /\ reader.stack = <<>> /\ orderly
  BY <1>1 DEF DataInv, Reads, Schemas, Careful
<1>3. Len(s) \in Nat
  BY <1>2, ModelIs
<1>4. \A i : ~IsOpen(reader, i)
  BY <1>2, EmptySeq DEF IsOpen
<1>5. \A i \in DOMAIN s : SchemaSound(s, i) /\ DefaultSound(s, i) /\ Finished(s, i)
  BY <1>2, <1>4 DEF ReaderBuilt, Built
<1>6. \A i \in DOMAIN s :
        /\ \A j \in Attributes(s, s[i].owner) \ {i} : s[j].name # s[i].name
        /\ s[i].type = "dateTime" => s[i].default = Null
        /\ \A j \in Attributes(s, s[i].owner) :
             s[i].name = s[j].number => s[i].constraint = NoConstraint
  BY <1>1 DEF Careful
<1>7. Distinct(s)
  BY <1>6 DEF Distinct, Attributes
<1>8. Sound(s)
  BY <1>5, <1>6, <1>7 DEF Sound
<1> QED
  BY <1>1, <1>2, <1>3, <1>8

\* Whatever the model file is, if it was accepted and is careful, its tree can
\* be made (evcpe_class_from_xml, evcpe_obj_init, evcpe_attr_init).
THEOREM AlwaysCarefulIsMade == DataModelSpec => []CarefulIsMade
<1>1. DataModelInit => ReaderBuilt
  BY NothingBuilt DEF DataModelInit, ReaderBuilt
<1>2. DataInv /\ ReaderBuilt /\ [DataModelNext]_dataModelVars => ReaderBuilt'
  BY ReaderBuiltInductive
<1>3. DataInv /\ ReaderBuilt => CarefulIsMade
  <2> SUFFICES ASSUME DataInv, ReaderBuilt, Careful PROVE NewObject(Schemas)[0].rc = "ok"
    BY DEF CarefulIsMade
  <2> QED
    BY CarefulIsSound, SoundIsMade
<1> QED
  BY <1>1, <1>2, <1>3, DataModelInvariance, PTL DEF DataModelSpec

=============================================================================
