------------------------- MODULE PriorityQueueProofs -------------------------
(****************************************************************************)
(* The heap of any size, with any keys, ids and number of copies of an id:  *)
(* it is ordered whenever an operation returns, and it implements the queue *)
(* that TaskQueue promises.                                                 *)
(****************************************************************************)
EXTENDS PriorityQueue, WellFoundedInduction, TLAPS

------------------------------------------------------------------------------
(* The order of the keys and the shape of the tree.                         *)

\* Less is asymmetric, and "does not run before" is transitive: what a sift
\* needs of sort.Interface.
LEMMA KeyOrder ==
    /\ \A a, b \in Keys : ~(Abstract!Before(a, b) /\ Abstract!Before(b, a))
    /\ \A a, b, c \in Keys :
           ~Abstract!Before(a, b) /\ ~Abstract!Before(b, c) => ~Abstract!Before(a, c)
<1>1. \A a \in Keys : a.priority \in Int /\ a.created \in Int
  BY KeysAssumption
<1>2. QED
  BY <1>1 DEF Abstract!Before

\* The parent of a position, and which positions have which parent.
LEMMA Tree ==
    /\ \A j \in Nat \ {0} : /\ Parent(j) \in Nat
                            /\ Parent(j) < j
                            /\ j = Left(Parent(j)) \/ j = Right(Parent(j))
    /\ \A i \in Nat : /\ Left(i) \in Nat \ {0} /\ Right(i) \in Nat \ {0}
                      /\ Parent(Left(i)) = i /\ Parent(Right(i)) = i
BY DEF Parent, Left, Right

\* The parent of one of the first n positions is another of them.
LEMMA ParentInside ==
    ASSUME NEW n \in Nat, NEW j \in 1..(n - 1)
    PROVE  j \in 0..(n - 1) /\ Parent(j) \in 0..(n - 1) /\ Parent(j) < j
BY Tree

\* The least member of a set of numbers: induction over positions, without
\* an induction rule.
LEMMA Least ==
    ASSUME NEW T, T \subseteq Nat, T # {}
    PROVE  \E x \in T : \A y \in T : x <= y
<1>1. \E x \in T : \A y \in T : ~(<<y, x>> \in OpToRel(<, Nat))
  BY NatLessThanWellFounded, WFMin, Zenon
<1>2. PICK x \in T : \A y \in T : ~(<<y, x>> \in OpToRel(<, Nat))
  BY <1>1, Zenon
<1>3. \A y \in T : ~(y < x)
  BY <1>2 DEF OpToRel
<1>4. QED
  BY <1>3

------------------------------------------------------------------------------
(* Sifting, on the keys alone: f[i] is the key at position i, of which the  *)
(* first n are to be a heap.                                                *)

HeapOf(f, n) ==
    \A j \in 1..(n - 1) : ~Abstract!Before(f[j], f[Parent(j)])

\* The children of a are fit to be children of a's parent.
Bypass(f, n, a) ==
    a > 0 => \A j \in 1..(n - 1) :
                 Parent(j) = a => ~Abstract!Before(f[j], f[Parent(a)])

\* Only a may run before its parent.
UpHeap(f, n, a) ==
    /\ \A j \in 1..(n - 1) : j # a => ~Abstract!Before(f[j], f[Parent(j)])
    /\ Bypass(f, n, a)

\* Only the children of a may run before their parent, and a itself as long
\* as the loop has not moved from s.
DownHeap(f, n, a, s) ==
    /\ \A j \in 1..(n - 1) :
           j # a /\ Parent(j) # a => ~Abstract!Before(f[j], f[Parent(j)])
    /\ Bypass(f, n, a)
    /\ a # s => ~Abstract!Before(f[a], f[Parent(a)])

Exchanged(f, i, j) == [f EXCEPT ![i] = f[j], ![j] = f[i]]

\* In a heap nothing runs before the root.
LEMMA RootIsForemost ==
    ASSUME NEW n \in Nat, NEW f \in [0..(n - 1) -> Keys], HeapOf(f, n)
    PROVE  \A j \in 0..(n - 1) : ~Abstract!Before(f[j], f[0])
<1> DEFINE T == {j \in 0..(n - 1) : Abstract!Before(f[j], f[0])}
<1> SUFFICES ASSUME T # {} PROVE FALSE
  OBVIOUS
<1>1. PICK x \in T : \A y \in T : x <= y
  <2>1. T \subseteq Nat
    OBVIOUS
  <2> HIDE DEF T
  <2>2. QED
    BY <2>1, Least
<1>2. x \in 0..(n - 1) /\ f[0] \in Keys /\ f[x] \in Keys
  OBVIOUS
<1>3. x # 0
  BY <1>1, <1>2, KeyOrder
<1>4. Parent(x) \in 0..(n - 1) /\ Parent(x) < x /\ x \in 1..(n - 1)
  BY <1>2, <1>3, Tree
<1>5. ~Abstract!Before(f[x], f[Parent(x)]) /\ ~Abstract!Before(f[Parent(x)], f[0])
  BY <1>1, <1>4 DEF HeapOf
<1>6. f[Parent(x)] \in Keys
  BY <1>4
<1>7. ~Abstract!Before(f[x], f[0])
  BY <1>2, <1>5, <1>6, KeyOrder
<1>8. QED
  BY <1>1, <1>7

\* One iteration of heap.down: the foremost child c of a goes up.
LEMMA DownStep ==
    ASSUME NEW m \in Nat, NEW n \in 0..m, NEW f \in [0..(m - 1) -> Keys],
           NEW a \in Nat, NEW s \in Nat, s <= a,
           NEW c \in 1..(n - 1), Parent(c) = a,
           \A j \in 1..(n - 1) : Parent(j) = a => ~Abstract!Before(f[j], f[c]),
           Abstract!Before(f[c], f[a]),
           DownHeap(f, n, a, s)
    PROVE  DownHeap(Exchanged(f, a, c), n, c, s)
<1> DEFINE g == Exchanged(f, a, c)
<1>1. /\ a \in 0..(n - 1) /\ c \in 0..(n - 1) /\ a < c
      /\ \A j \in 1..(n - 1) : j \in 0..(n - 1) /\ Parent(j) \in 0..(n - 1) /\ Parent(j) < j
      /\ \A j \in 0..(n - 1) : f[j] \in Keys
  BY n \in Nat, ParentInside
<1>2. /\ g[a] = f[c] /\ g[c] = f[a]
      /\ \A j \in 0..(n - 1) : j # a /\ j # c => g[j] = f[j]
  BY <1>1 DEF Exchanged
<1> HIDE DEF g
<1>3. \A j \in 1..(n - 1) :
           j # c /\ Parent(j) # c => ~Abstract!Before(g[j], g[Parent(j)])
  <2> SUFFICES ASSUME NEW j \in 1..(n - 1), j # c, Parent(j) # c
               PROVE  ~Abstract!Before(g[j], g[Parent(j)])
    OBVIOUS
  <2>1. CASE j = a
    BY <1>1, <1>2, <2>1 DEF DownHeap, Bypass
  <2>2. CASE Parent(j) = a
    BY <1>1, <1>2, <2>2
  <2>3. CASE j # a /\ Parent(j) # a
    BY <1>1, <1>2, <2>3 DEF DownHeap
  <2>4. QED
    BY <2>1, <2>2, <2>3
<1>4. Bypass(g, n, c)
  BY <1>1, <1>2 DEF DownHeap, Bypass
<1>5. ~Abstract!Before(g[c], g[Parent(c)])
  BY <1>1, <1>2, KeyOrder
<1>6. QED
  BY <1>3, <1>4, <1>5 DEF DownHeap, g

\* One iteration of heap.up: a changes places with its parent.
LEMMA UpStep ==
    ASSUME NEW m \in Nat, NEW n \in 0..m, NEW f \in [0..(m - 1) -> Keys],
           NEW a \in 1..(n - 1), Abstract!Before(f[a], f[Parent(a)]), UpHeap(f, n, a)
    PROVE  UpHeap(Exchanged(f, Parent(a), a), n, Parent(a))
<1> DEFINE p == Parent(a)
           g == Exchanged(f, p, a)
<1>1. /\ a \in 0..(n - 1) /\ p \in 0..(n - 1) /\ p < a
      /\ \A j \in 1..(n - 1) : j \in 0..(n - 1) /\ Parent(j) \in 0..(n - 1) /\ Parent(j) < j
      /\ \A j \in 0..(n - 1) : f[j] \in Keys
  BY n \in Nat, ParentInside
<1>2. /\ g[a] = f[p] /\ g[p] = f[a]
      /\ \A j \in 0..(n - 1) : j # a /\ j # p => g[j] = f[j]
  BY <1>1 DEF Exchanged
<1>3. Abstract!Before(f[a], f[p]) /\ Parent(a) = p
  OBVIOUS
<1> HIDE DEF g, p
<1>4. \A j \in 1..(n - 1) : j # p => ~Abstract!Before(g[j], g[Parent(j)])
  <2> SUFFICES ASSUME NEW j \in 1..(n - 1), j # p
               PROVE  ~Abstract!Before(g[j], g[Parent(j)])
    OBVIOUS
  <2>1. CASE j = a
    BY <1>1, <1>2, <1>3, <2>1, KeyOrder
  <2>2. CASE Parent(j) = a
    BY <1>1, <1>2, <1>3, <2>2 DEF UpHeap, Bypass
  <2>3. CASE j # a /\ Parent(j) = p
    <3>1. ~Abstract!Before(f[j], f[p]) /\ ~Abstract!Before(f[p], f[a])
      BY <1>1, <1>3, <2>3, KeyOrder DEF UpHeap
    <3>2. QED
      BY <1>1, <1>2, <2>3, <3>1, KeyOrder
  <2>4. CASE j # a /\ Parent(j) # a /\ Parent(j) # p
    BY <1>1, <1>2, <2>4 DEF UpHeap
  <2>5. QED
    BY <2>1, <2>2, <2>3, <2>4
<1>5. Bypass(g, n, p)
  <2> SUFFICES ASSUME p > 0, NEW j \in 1..(n - 1), Parent(j) = p
               PROVE  ~Abstract!Before(g[j], g[Parent(p)])
    BY DEF Bypass
  <2>1. /\ ~Abstract!Before(f[p], f[Parent(p)]) /\ g[Parent(p)] = f[Parent(p)]
        /\ f[Parent(p)] \in Keys
    BY <1>1, <1>2 DEF UpHeap
  <2>2. CASE j = a
    BY <1>2, <2>1, <2>2
  <2>3. CASE j # a
    BY <1>1, <1>2, <2>1, <2>3, KeyOrder DEF UpHeap
  <2>4. QED
    BY <2>2, <2>3
<1>6. QED
  BY <1>4, <1>5 DEF UpHeap, g, p

------------------------------------------------------------------------------
(* The inductive invariant.                                                 *)

\* How many positions are to be a heap: Remove and RemoveByID have put the
\* item they take behind the others.
Bound == IF op \in {"Remove", "RemoveByID"} THEN size - 1 ELSE size

KeyAt == [i \in Positions |-> key[items[i]]]

\* Which operation may be in which phase, and where its loop is.
ControlInv ==
    /\ op = "none" <=> phase = "idle"
    /\ op # "RemoveByID" => target = None
    /\ phase = "pop" => op \in {"Remove", "RemoveByID"}
    /\ op \in {"Remove", "RemoveByID"} => size > 0
    /\ phase = "down" => /\ limit = Bound /\ start <= at /\ op # "Add"
                         /\ IF op = "Remove" THEN start = 0 ELSE at < Bound
    /\ phase = "up" => op # "Remove" /\ at < Bound

\* taskMap at any moment, not only between operations.
MapInv ==
    \A id \in Ids : taskMap[id] # None => taskMap[id] \in InHeap /\ taskMap[id][1] = id

\* How far the heap is ordered while an operation repairs it.
OrderInv ==
    /\ phase \in {"idle", "pop"} => HeapOf(KeyAt, Bound)
    /\ phase = "up" => UpHeap(KeyAt, Bound, at)
    /\ phase = "down" => DownHeap(KeyAt, Bound, at, start)

\* The item behind the heap is the one to be taken.
TakenInv ==
    /\ op = "RemoveByID" => items[size - 1] = target
    /\ op = "Remove" => items[size - 1] \in Abstract!Foremost(InHeap, key)

PlaceInv == TypeOK /\ IndexAgrees /\ ControlInv

HeapInv == PlaceInv /\ MapInv /\ OrderInv /\ TakenInv

------------------------------------------------------------------------------
(* What the callbacks do to the places of the items.                        *)

\* The keys at the positions.
LEMMA KeysAtPositions ==
    ASSUME TypeOK
    PROVE  /\ KeyAt \in [0..(size - 1) -> Keys]
           /\ \A i \in Positions : items[i] \in InHeap /\ KeyAt[i] = key[items[i]]
           /\ \A i, j \in Positions : Less(i, j) = Abstract!Before(KeyAt[i], KeyAt[j])
           /\ InHeap \subseteq Items
<1>1. \A i \in Positions : items[i] \in InHeap
  BY DEF InHeap
<1>2. \A i \in Positions : KeyAt[i] = key[items[i]] /\ key[items[i]] \in Keys
  BY <1>1 DEF KeyAt, TypeOK
<1>3. KeyAt \in [0..(size - 1) -> Keys]
  BY <1>2 DEF KeyAt, Positions
<1>4. \A i, j \in Positions : Less(i, j) = Abstract!Before(KeyAt[i], KeyAt[j])
  BY <1>2 DEF Less, Abstract!Before
<1>5. InHeap \subseteq Items
  BY DEF InHeap, TypeOK
<1>6. QED
  BY <1>1, <1>2, <1>3, <1>4, <1>5

\* Swap moves two items and their keys and keeps every Index right.
LEMMA Swapped ==
    ASSUME TypeOK, IndexAgrees, NEW i \in Positions, NEW j \in Positions,
           Swap(i, j), size' = size, key' = key
    PROVE  /\ Positions' = Positions
           /\ items' \in [Positions -> Items]
           /\ items'[i] = items[j] /\ items'[j] = items[i]
           /\ \A k \in Positions \ {i, j} : items'[k] = items[k]
           /\ InHeap' = InHeap
           /\ index' \in [Items -> Positions \cup {-1}]
           /\ IndexAgrees'
           /\ KeyAt' = Exchanged(KeyAt, i, j)
<1>1. Positions' = Positions
  BY DEF Positions
<1>2. /\ items \in [Positions -> Items] /\ items' \in [Positions -> Items]
      /\ items'[i] = items[j] /\ items'[j] = items[i]
      /\ \A k \in Positions \ {i, j} : items'[k] = items[k]
  BY DEF TypeOK, Swap
<1>3. InHeap' = InHeap
  BY <1>1, <1>2 DEF InHeap
<1>4. /\ index' \in [Items -> Positions \cup {-1}]
      /\ items[i] = items[j] => i = j
      /\ index'[items[i]] = j
      /\ items[i] # items[j] => index'[items[j]] = i
      /\ \A x \in Items \ {items[i], items[j]} : index'[x] = index[x]
  BY <1>2 DEF TypeOK, Swap, IndexAgrees
<1>5. \A k \in Positions : index'[items'[k]] = k
  <2> SUFFICES ASSUME NEW k \in Positions PROVE index'[items'[k]] = k
    OBVIOUS
  <2>1. CASE k = i \/ k = j
    BY <1>2, <1>4, <2>1
  <2>2. CASE k # i /\ k # j
    <3>1. items[k] # items[i] /\ items[k] # items[j] /\ index[items[k]] = k
      BY <2>2 DEF IndexAgrees
    <3>2. QED
      BY <1>2, <1>4, <2>2, <3>1
  <2>3. QED
    BY <2>1, <2>2
<1>6. \A x \in Items \ InHeap : index'[x] = -1
  <2>1. items[i] \in InHeap /\ items[j] \in InHeap
    BY DEF InHeap
  <2>2. QED
    BY <1>4, <2>1 DEF IndexAgrees
<1>7. IndexAgrees'
  BY <1>1, <1>3, <1>5, <1>6 DEF IndexAgrees
<1>8. KeyAt' = Exchanged(KeyAt, i, j)
  <2>1. KeyAt' = [k \in Positions |-> key[items'[k]]]
    BY <1>1 DEF KeyAt
  <2>2. Exchanged(KeyAt, i, j) =
            [k \in Positions |-> IF k = j THEN KeyAt[i] ELSE IF k = i THEN KeyAt[j] ELSE KeyAt[k]]
    BY DEF Exchanged, KeyAt
  <2>3. \A k \in Positions : key[items'[k]] =
            IF k = j THEN KeyAt[i] ELSE IF k = i THEN KeyAt[j] ELSE KeyAt[k]
    BY <1>2 DEF KeyAt
  <2>4. QED
    BY <2>1, <2>2, <2>3
<1>9. QED
  BY <1>1, <1>2, <1>3, <1>4, <1>7, <1>8

\* Push adds one item behind the others.
LEMMA Pushed ==
    ASSUME TypeOK, IndexAgrees, NEW x \in Items, NEW k \in Keys, x \notin InHeap,
           Push(x, k)
    PROVE  /\ Positions' = Positions \cup {size} /\ size \notin Positions
           /\ items' \in [Positions' -> Items]
           /\ items'[size] = x
           /\ \A i \in Positions : items'[i] = items[i]
           /\ InHeap' = InHeap \cup {x}
           /\ key' \in [InHeap' -> Keys]
           /\ index' \in [Items -> Positions' \cup {-1}]
           /\ IndexAgrees'
           /\ \A i \in Positions : KeyAt'[i] = KeyAt[i]
<1> USE DEF Push
<1>1. Positions' = Positions \cup {size} /\ size \notin Positions /\ Positions' = 0..size
  BY DEF Positions, TypeOK
<1>2. /\ items' \in [Positions' -> Items] /\ items'[size] = x
      /\ \A i \in Positions : items'[i] = items[i]
  BY <1>1 DEF TypeOK
<1>3. InHeap' = InHeap \cup {x}
  BY <1>1, <1>2 DEF InHeap
<1>4. key' \in [InHeap' -> Keys]
  BY <1>3 DEF TypeOK
<1>5. /\ index' \in [Items -> Positions' \cup {-1}] /\ index'[x] = size
      /\ \A y \in Items \ {x} : index'[y] = index[y]
  BY <1>1 DEF TypeOK
<1>6. \A i \in Positions : items[i] \in Items /\ items[i] # x
  BY DEF InHeap, TypeOK
<1>7. IndexAgrees'
  BY <1>1, <1>2, <1>3, <1>5, <1>6 DEF IndexAgrees
<1>8. \A i \in Positions : KeyAt'[i] = KeyAt[i]
  <2> SUFFICES ASSUME NEW i \in Positions PROVE KeyAt'[i] = KeyAt[i]
    OBVIOUS
  <2>1. items[i] \in InHeap /\ key'[items[i]] = key[items[i]]
    BY <1>6 DEF InHeap
  <2>2. QED
    BY <1>1, <1>2, <2>1 DEF KeyAt
<1>9. QED
  BY <1>1, <1>2, <1>3, <1>4, <1>5, <1>7, <1>8

\* Pop takes the last item away and nothing else.
LEMMA Popped ==
    ASSUME TypeOK, IndexAgrees, size > 0, Pop
    PROVE  /\ size' \in Nat /\ Positions' = Positions \ {size - 1} /\ size - 1 \in Positions
           /\ items' \in [Positions' -> Items]
           /\ \A i \in Positions' : items'[i] = items[i]
           /\ items[size - 1] \in InHeap
           /\ InHeap' = InHeap \ {items[size - 1]}
           /\ key' \in [InHeap' -> Keys]
           /\ key' = [y \in InHeap' |-> key[y]]
           /\ index' \in [Items -> Positions' \cup {-1}]
           /\ IndexAgrees'
           /\ \A i \in Positions' : KeyAt'[i] = KeyAt[i]
<1> USE DEF Pop
<1>1. /\ size \in Nat /\ size' = size - 1 /\ size' \in Nat
      /\ Positions' = Positions \ {size - 1} /\ size - 1 \in Positions
      /\ Positions' = 0..(size - 2)
  BY DEF Positions, TypeOK
<1>2. /\ items' \in [Positions' -> Items]
      /\ \A i \in Positions' : items'[i] = items[i]
  BY <1>1 DEF TypeOK
<1>3. items[size - 1] \in InHeap /\ items[size - 1] \in Items
  BY <1>1 DEF InHeap, TypeOK
<1>4. \A i \in Positions' : items[i] # items[size - 1]
  BY <1>1 DEF IndexAgrees
<1>5. InHeap' = InHeap \ {items[size - 1]}
  BY <1>1, <1>2, <1>4 DEF InHeap
<1>6. key' \in [InHeap' -> Keys] /\ key' = [y \in InHeap' |-> key[y]]
  BY <1>5 DEF TypeOK
<1>7. /\ index[items[size - 1]] = size - 1 /\ index'[items[size - 1]] = -1
      /\ \A y \in Items \ {items[size - 1]} : index'[y] = index[y]
      /\ \A y \in Items : index[y] = size - 1 => y = items[size - 1]
  <2>1. size - 1 # -1
    BY <1>1
  <2>2. \A y \in Items : y \in InHeap => \E i \in Positions : y = items[i]
    BY DEF InHeap
  <2>3. QED
    BY <1>1, <1>3, <2>1, <2>2 DEF IndexAgrees, TypeOK
<1>8. index' \in [Items -> Positions' \cup {-1}]
  BY <1>1, <1>7 DEF TypeOK
<1>9. IndexAgrees'
  BY <1>1, <1>2, <1>3, <1>4, <1>5, <1>7 DEF IndexAgrees, TypeOK
<1>10. \A i \in Positions' : KeyAt'[i] = KeyAt[i]
  <2> SUFFICES ASSUME NEW i \in Positions' PROVE KeyAt'[i] = KeyAt[i]
    OBVIOUS
  <2>1. items[i] \in InHeap'
    BY <1>1, <1>4, <1>5 DEF InHeap
  <2>2. key'[items[i]] = key[items[i]]
    BY <1>6, <2>1
  <2>3. KeyAt'[i] = key'[items'[i]] /\ KeyAt[i] = key[items[i]]
    BY <1>1 DEF KeyAt
  <2>4. QED
    BY <1>2, <2>2, <2>3
<1>11. QED
  BY <1>1, <1>2, <1>3, <1>5, <1>6, <1>8, <1>9, <1>10

------------------------------------------------------------------------------
(* The steps of the loops.                                                  *)

\* The child that down compares with is a child, and no child runs before it.
LEMMA ForemostChildIs ==
    ASSUME TypeOK, ControlInv, phase = "down", Left(at) < limit
    PROVE  /\ Bound \in 0..size /\ at \in Positions /\ at < Bound
           /\ ForemostChild(at) \in 1..(Bound - 1) /\ ForemostChild(at) \in Positions
           /\ Parent(ForemostChild(at)) = at
           /\ \A j \in 1..(Bound - 1) :
                  Parent(j) = at => ~Abstract!Before(KeyAt[j], KeyAt[ForemostChild(at)])
<1> DEFINE c == ForemostChild(at)
<1>1. /\ size \in Nat /\ at \in Nat /\ at \in Positions /\ limit = Bound
      /\ Bound \in 0..size
  BY DEF TypeOK, ControlInv, Bound, Positions
<1>2. /\ Left(at) \in Nat \ {0} /\ Right(at) \in Nat \ {0} /\ at < Left(at)
      /\ Right(at) = Left(at) + 1
  BY <1>1 DEF Left, Right
<1>3. c \in {Left(at), Right(at)} /\ c < Bound
  BY <1>1 DEF ForemostChild
<1>4. c \in 1..(Bound - 1) /\ c \in Positions /\ at < Bound
  BY <1>1, <1>2, <1>3 DEF Positions
<1>5. Parent(c) = at
  BY <1>1, <1>3, Tree
<1>6. ASSUME NEW j \in 1..(Bound - 1), Parent(j) = at
      PROVE  ~Abstract!Before(KeyAt[j], KeyAt[c])
  <2>1. j \in {Left(at), Right(at)}
    BY <1>1, <1>6, Tree
  <2>2. j \in Positions /\ j < limit /\ Left(at) \in Positions
    BY <1>1, <1>2 DEF Positions
  <2>3. KeyAt[j] \in Keys /\ KeyAt[c] \in Keys /\ KeyAt[Left(at)] \in Keys
    BY <1>4, <2>2, KeysAtPositions DEF Positions
  <2>4. CASE j = c
    BY <2>3, <2>4, KeyOrder
  <2>5. CASE j = Left(at) /\ c = Right(at) /\ j # c
    <3>1. Less(Right(at), Left(at))
      BY <2>5 DEF ForemostChild
    <3>2. Abstract!Before(KeyAt[c], KeyAt[j])
      BY <1>4, <2>2, <2>5, <3>1, KeysAtPositions
    <3>3. QED
      BY <2>3, <3>2, KeyOrder
  <2>6. CASE j = Right(at) /\ c = Left(at) /\ j # c
    <3>1. ~Less(Right(at), Left(at))
      BY <1>2, <2>2, <2>6 DEF ForemostChild
    <3>2. QED
      BY <1>4, <2>2, <2>6, <3>1, KeysAtPositions
  <2>7. QED
    BY <1>3, <2>1, <2>4, <2>5, <2>6
<1>7. QED
  BY <1>1, <1>4, <1>5, <1>6

\* A swap among the first Bound positions keeps the places, taskMap and the
\* item behind them.
LEMMA SwapInside ==
    ASSUME HeapInv, NEW i \in 0..(Bound - 1), NEW j \in 0..(Bound - 1), Swap(i, j),
           UNCHANGED <<size, key, taskMap, op, target, phase, start, limit>>,
           at' \in Positions
    PROVE  /\ TypeOK' /\ IndexAgrees' /\ MapInv' /\ TakenInv'
           /\ Bound' = Bound /\ KeyAt' = Exchanged(KeyAt, i, j)
<1> USE DEF HeapInv, PlaceInv
<1>1. i \in Positions /\ j \in Positions /\ size \in Nat /\ Bound \in 0..size
  BY DEF Bound, Positions, TypeOK, ControlInv
<1>2. /\ Positions' = Positions /\ items' \in [Positions -> Items]
      /\ \A k \in Positions \ {i, j} : items'[k] = items[k]
      /\ InHeap' = InHeap /\ index' \in [Items -> Positions \cup {-1}]
      /\ IndexAgrees' /\ KeyAt' = Exchanged(KeyAt, i, j)
  BY <1>1, Swapped
<1>3. TypeOK'
  BY <1>2 DEF TypeOK
<1>4. MapInv'
  BY <1>2 DEF MapInv
<1>5. TakenInv'
  <2>1. op \in {"Remove", "RemoveByID"} => items'[size - 1] = items[size - 1]
    <3>1. op \in {"Remove", "RemoveByID"} => size - 1 \in Positions \ {i, j}
      BY <1>1 DEF Bound, Positions, ControlInv
    <3>2. QED
      BY <1>2, <3>1
  <2>2. QED
    BY <1>2, <2>1 DEF TakenInv
<1>6. Bound' = Bound
  BY DEF Bound
<1>7. QED
  BY <1>2, <1>3, <1>4, <1>5, <1>6

\* heap.down goes one level down.
LEMMA DownSwapInv == HeapInv /\ DownSwap => HeapInv'
<1> SUFFICES ASSUME HeapInv, DownSwap PROVE HeapInv'
  OBVIOUS
<1> DEFINE c == ForemostChild(at)
<1>1. /\ phase = "down" /\ Left(at) < limit /\ Less(c, at) /\ Swap(at, c) /\ at' = c
      /\ UNCHANGED <<size, key, taskMap, op, target, phase, start, limit>>
  BY DEF DownSwap, DownGoesOn
<1>2. /\ Bound \in 0..size /\ at \in Positions /\ at < Bound
      /\ c \in 1..(Bound - 1) /\ c \in Positions /\ Parent(c) = at
      /\ \A j \in 1..(Bound - 1) :
             Parent(j) = at => ~Abstract!Before(KeyAt[j], KeyAt[c])
  BY <1>1, ForemostChildIs DEF HeapInv, PlaceInv
<1> HIDE DEF c
<1>3. at \in 0..(Bound - 1) /\ c \in 0..(Bound - 1) /\ at < c /\ size \in Nat
  <2>1. size \in Nat /\ Bound \in Nat
    BY <1>2 DEF HeapInv, PlaceInv, TypeOK
  <2>2. QED
    BY <1>2, <2>1, ParentInside
<1>4. /\ TypeOK' /\ IndexAgrees' /\ MapInv' /\ TakenInv'
      /\ Bound' = Bound /\ KeyAt' = Exchanged(KeyAt, at, c)
  BY <1>1, <1>2, <1>3, SwapInside
<1>5. start \in Nat /\ start <= at /\ start' = start /\ DownHeap(KeyAt, Bound, at, start)
  BY <1>1, <1>2 DEF HeapInv, PlaceInv, TypeOK, ControlInv, OrderInv, Positions
<1>6. Abstract!Before(KeyAt[c], KeyAt[at]) /\ KeyAt \in [0..(size - 1) -> Keys]
  BY <1>1, <1>2, KeysAtPositions DEF HeapInv, PlaceInv
<1>7. DownHeap(KeyAt', Bound, c, start)
  <2>1. at \in Nat
    BY <1>3
  <2>2. DownHeap(Exchanged(KeyAt, at, c), Bound, c, start)
    BY <1>2, <1>3, <1>5, <1>6, <2>1, DownStep
  <2>3. QED
    BY <1>4, <2>2
<1>8. OrderInv'
  BY <1>1, <1>4, <1>7 DEF OrderInv
<1>9. ControlInv'
  BY <1>1, <1>2, <1>3, <1>4, <1>5 DEF ControlInv, HeapInv, PlaceInv
<1>10. QED
  BY <1>4, <1>8, <1>9 DEF HeapInv, PlaceInv

\* heap.up goes one level up.
LEMMA UpSwapInv == HeapInv /\ UpSwap => HeapInv'
<1> SUFFICES ASSUME HeapInv, UpSwap PROVE HeapInv'
  OBVIOUS
<1> DEFINE p == Parent(at)
<1>1. /\ phase = "up" /\ at > 0 /\ Less(at, p) /\ Swap(p, at) /\ at' = p
      /\ UNCHANGED <<size, key, taskMap, op, target, phase, start, limit>>
  BY DEF UpSwap, UpGoesOn
<1>2. size \in Nat /\ Bound \in 0..size /\ at \in 1..(Bound - 1) /\ at \in Positions
  BY <1>1 DEF HeapInv, PlaceInv, TypeOK, ControlInv, Bound, Positions
<1>3. p \in 0..(Bound - 1) /\ p \in Positions /\ p < at
  BY <1>2, ParentInside DEF Positions
<1>4. /\ TypeOK' /\ IndexAgrees' /\ MapInv' /\ TakenInv'
      /\ Bound' = Bound /\ KeyAt' = Exchanged(KeyAt, p, at)
  <2> HIDE DEF p
  <2>1. at \in 0..(Bound - 1)
    BY <1>2
  <2>2. QED
    BY <1>1, <1>3, <2>1, SwapInside
<1>5. Abstract!Before(KeyAt[at], KeyAt[p]) /\ KeyAt \in [0..(size - 1) -> Keys]
  BY <1>1, <1>2, <1>3, KeysAtPositions DEF HeapInv, PlaceInv
<1>6. UpHeap(KeyAt', Bound, p)
  BY <1>1, <1>2, <1>4, <1>5, UpStep DEF HeapInv, OrderInv
<1> HIDE DEF p
<1>7. OrderInv'
  BY <1>1, <1>4, <1>6 DEF OrderInv
<1>8. ControlInv'
  BY <1>1, <1>2, <1>3, <1>4 DEF ControlInv, HeapInv, PlaceInv
<1>9. QED
  BY <1>4, <1>7, <1>8 DEF HeapInv, PlaceInv

\* Steps that leave the contents alone.
LEMMA SameContent ==
    ASSUME HeapInv, UNCHANGED content
    PROVE  /\ Positions' = Positions /\ InHeap' = InHeap /\ KeyAt' = KeyAt
           /\ IndexAgrees' /\ MapInv'
           /\ op' = op => Bound' = Bound
<1>1. Positions' = Positions /\ InHeap' = InHeap /\ KeyAt' = KeyAt
  BY DEF content, Positions, InHeap, KeyAt
<1>2. IndexAgrees' /\ MapInv'
  BY <1>1 DEF content, HeapInv, PlaceInv, IndexAgrees, MapInv
<1>3. op' = op => Bound' = Bound
  BY DEF content, Bound
<1>4. QED
  BY <1>1, <1>2, <1>3

\* When the loops are over the heap is in order.
LEMMA AfterSiftInv ==
    ASSUME HeapInv, AfterSift, UNCHANGED content, HeapOf(KeyAt, Bound)
    PROVE  HeapInv'
<1>1. /\ Positions' = Positions /\ InHeap' = InHeap /\ KeyAt' = KeyAt
      /\ IndexAgrees' /\ MapInv' /\ (op' = op => Bound' = Bound)
  BY SameContent
<1>2. CASE /\ op \in {"Remove", "RemoveByID"}
           /\ phase' = "pop" /\ at' = 0 /\ start' = 0 /\ limit' = 0
           /\ UNCHANGED <<op, target>>
  <2>1. TypeOK' /\ ControlInv'
    BY <1>1, <1>2 DEF content, HeapInv, PlaceInv, TypeOK, ControlInv, Phases
  <2>2. OrderInv'
    BY <1>1, <1>2 DEF OrderInv
  <2>3. TakenInv'
    BY <1>1, <1>2 DEF content, HeapInv, TakenInv
  <2>4. QED
    BY <1>1, <2>1, <2>2, <2>3 DEF HeapInv, PlaceInv
<1>3. CASE op \in {"Add", "Update"} /\ Return
  <2>1. TypeOK' /\ ControlInv'
    BY <1>1, <1>3 DEF content, HeapInv, PlaceInv, TypeOK, ControlInv, Return, Phases, OpNames
  <2>2. OrderInv'
    <3>1. Bound' = Bound
      BY <1>3 DEF content, Bound, Return
    <3>2. QED
      BY <1>1, <1>3, <3>1 DEF OrderInv, Return
  <2>3. TakenInv'
    BY <1>3 DEF Return, TakenInv
  <2>4. QED
    BY <1>1, <2>1, <2>2, <2>3 DEF HeapInv, PlaceInv
<1>4. QED
  BY <1>2, <1>3 DEF AfterSift

\* heap.down ends.
LEMMA DownStopInv == HeapInv /\ DownStop => HeapInv'
<1> SUFFICES ASSUME HeapInv, DownStop PROVE HeapInv'
  OBVIOUS
<1>1. phase = "down" /\ ~DownGoesOn /\ UNCHANGED content
  BY DEF DownStop
<1>2. /\ size \in Nat /\ at \in Positions /\ at \in Nat /\ limit = Bound /\ Bound \in 0..size
      /\ DownHeap(KeyAt, Bound, at, start)
  BY <1>1 DEF HeapInv, PlaceInv, TypeOK, ControlInv, OrderInv, Positions, Bound
<1>3. ASSUME NEW j \in 1..(Bound - 1), Parent(j) = at
      PROVE  ~Abstract!Before(KeyAt[j], KeyAt[at])
  <2>1. Left(at) <= j
    <3>1. j \in Nat \ {0}
      BY <1>2
    <3>2. j = Left(at) \/ j = Right(at)
      BY <1>3, <3>1, Tree
    <3>3. QED
      BY <1>2, <3>2 DEF Left, Right
  <2>2. Left(at) < limit
    BY <1>2, <2>1 DEF Left
  <2>3. /\ ForemostChild(at) \in Positions
        /\ ~Abstract!Before(KeyAt[j], KeyAt[ForemostChild(at)])
    BY <1>1, <1>3, <2>2, ForemostChildIs DEF HeapInv, PlaceInv
  <2>4. ~Less(ForemostChild(at), at)
    BY <1>1, <2>2 DEF DownGoesOn
  <2>5. ~Abstract!Before(KeyAt[ForemostChild(at)], KeyAt[at])
    BY <1>2, <2>3, <2>4, KeysAtPositions DEF HeapInv, PlaceInv
  <2>6. KeyAt[j] \in Keys /\ KeyAt[ForemostChild(at)] \in Keys /\ KeyAt[at] \in Keys
    <3>1. j \in Positions
      BY <1>2 DEF Positions
    <3>2. QED
      BY <1>2, <2>3, <3>1, KeysAtPositions DEF HeapInv, PlaceInv, Positions
  <2>7. QED
    BY <2>3, <2>5, <2>6, KeyOrder
<1>4. CASE /\ at = start /\ op # "Remove"
           /\ phase' = "up" /\ start' = 0 /\ limit' = 0
           /\ UNCHANGED <<op, target, at>>
  <2>1. /\ Positions' = Positions /\ InHeap' = InHeap /\ KeyAt' = KeyAt
        /\ IndexAgrees' /\ MapInv' /\ Bound' = Bound
    BY <1>1, <1>4, SameContent
  <2>2. UpHeap(KeyAt, Bound, at)
    BY <1>2, <1>3 DEF UpHeap, DownHeap
  <2>3. OrderInv'
    BY <1>4, <2>1, <2>2 DEF OrderInv
  <2>4. TypeOK' /\ ControlInv'
    BY <1>1, <1>2, <1>4, <2>1 DEF content, HeapInv, PlaceInv, TypeOK, ControlInv, Phases
  <2>5. TakenInv'
    BY <1>1, <1>4, <2>1 DEF content, HeapInv, TakenInv
  <2>6. QED
    BY <2>1, <2>3, <2>4, <2>5 DEF HeapInv, PlaceInv
<1>5. CASE (at > start \/ op = "Remove") /\ AfterSift
  <2>1. ASSUME at \in 1..(Bound - 1) PROVE ~Abstract!Before(KeyAt[at], KeyAt[Parent(at)])
    <3>1. at # start
      BY <1>1, <1>2, <1>5, <2>1 DEF HeapInv, PlaceInv, TypeOK, ControlInv, Positions
    <3>2. QED
      BY <1>2, <3>1 DEF DownHeap
  <2>2. HeapOf(KeyAt, Bound)
    BY <1>2, <1>3, <2>1 DEF DownHeap, HeapOf
  <2>3. QED
    BY <1>1, <1>5, <2>2, AfterSiftInv
<1>6. QED
  BY <1>4, <1>5 DEF DownStop

\* heap.up ends.
LEMMA UpStopInv == HeapInv /\ UpStop => HeapInv'
<1> SUFFICES ASSUME HeapInv, UpStop PROVE HeapInv'
  OBVIOUS
<1>1. phase = "up" /\ ~UpGoesOn /\ AfterSift /\ UNCHANGED content
  BY DEF UpStop
<1>2. /\ size \in Nat /\ at \in Positions /\ at \in Nat /\ Bound \in 0..size
      /\ at < Bound /\ UpHeap(KeyAt, Bound, at)
  BY <1>1 DEF HeapInv, PlaceInv, TypeOK, ControlInv, OrderInv, Positions, Bound
<1>3. ASSUME at \in 1..(Bound - 1) PROVE ~Abstract!Before(KeyAt[at], KeyAt[Parent(at)])
  <2>1. ~Less(at, Parent(at))
    BY <1>1, <1>3 DEF UpGoesOn
  <2>2. Parent(at) \in Positions
    BY <1>2, <1>3, ParentInside DEF Positions
  <2>3. QED
    BY <1>2, <2>1, <2>2, KeysAtPositions DEF HeapInv, PlaceInv
<1>4. HeapOf(KeyAt, Bound)
  BY <1>2, <1>3 DEF UpHeap, HeapOf
<1>5. QED
  BY <1>1, <1>4, AfterSiftInv

\* pq.Pop, after heap.Pop or heap.Remove has put the heap in order.
LEMMA PopLastInv == HeapInv /\ PopLast => HeapInv'
<1> SUFFICES ASSUME HeapInv, PopLast PROVE HeapInv'
  OBVIOUS
<1>1. phase = "pop" /\ Pop /\ Return
  BY DEF PopLast
<1>2. /\ size > 0 /\ Bound = size - 1 /\ HeapOf(KeyAt, size - 1) /\ size' = size - 1
  BY <1>1 DEF HeapInv, PlaceInv, ControlInv, OrderInv, Bound, Pop
<1>3. /\ size' \in Nat /\ Positions' = Positions \ {size - 1} /\ size - 1 \in Positions
      /\ items' \in [Positions' -> Items]
      /\ InHeap' = InHeap \ {items[size - 1]} /\ items[size - 1] \in InHeap
      /\ key' \in [InHeap' -> Keys]
      /\ index' \in [Items -> Positions' \cup {-1}] /\ IndexAgrees'
      /\ \A i \in Positions' : KeyAt'[i] = KeyAt[i]
  BY <1>1, <1>2, Popped DEF HeapInv, PlaceInv
<1>4. /\ taskMap \in [Ids -> Items \cup {None}] /\ items[size - 1] \in Items
      /\ taskMap' = [taskMap EXCEPT ![items[size - 1][1]] = None]
  BY <1>1, <1>3 DEF HeapInv, PlaceInv, TypeOK, Pop
<1>5. taskMap' \in [Ids -> Items \cup {None}]
  BY <1>4
<1>6. TypeOK'
  BY <1>1, <1>3, <1>5 DEF TypeOK, Return, OpNames, Phases
<1>7. ControlInv'
  BY <1>1 DEF ControlInv, Return
<1>8. MapInv'
  <2> SUFFICES ASSUME NEW id \in Ids, taskMap'[id] # None
               PROVE  taskMap'[id] \in InHeap' /\ taskMap'[id][1] = id
    BY DEF MapInv
  <2>1. items[size - 1][1] \in Ids
    BY <1>4 DEF Items
  <2>2. id # items[size - 1][1] /\ taskMap'[id] = taskMap[id]
    BY <1>4, <2>1
  <2>3. taskMap[id] \in InHeap /\ taskMap[id][1] = id
    BY <2>2 DEF HeapInv, MapInv
  <2>4. QED
    BY <1>3, <2>2, <2>3
<1>9. OrderInv'
  <2>1. phase' = "idle" /\ Bound' = size'
    BY <1>1 DEF Return, Bound
  <2>2. HeapOf(KeyAt', size')
    <3> SUFFICES ASSUME NEW j \in 1..(size' - 1)
                 PROVE  ~Abstract!Before(KeyAt'[j], KeyAt'[Parent(j)])
      BY DEF HeapOf
    <3>1. j \in Positions' /\ Parent(j) \in Positions'
      BY <1>3, ParentInside DEF Positions
    <3>2. QED
      BY <1>2, <1>3, <3>1 DEF HeapOf
  <2>3. QED
    BY <2>1, <2>2 DEF OrderInv
<1>10. TakenInv'
  BY <1>1 DEF TakenInv, Return
<1>11. QED
  BY <1>3, <1>6, <1>7, <1>8, <1>9, <1>10 DEF HeapInv, PlaceInv

------------------------------------------------------------------------------
(* The exported operations.                                                 *)

\* Add: the new item is the one that may run before its parent.
LEMMA AddInv ==
    ASSUME HeapInv, NEW x \in Items, NEW k \in Keys, Add(x, k)
    PROVE  HeapInv'
<1>1. /\ phase = "idle" /\ x \notin InHeap /\ Push(x, k) /\ op' = "Add" /\ phase' = "up"
      /\ at' = size /\ UNCHANGED <<target, start, limit>>
  BY DEF Add
<1>2. size \in Nat /\ size' = size + 1 /\ Bound = size /\ Bound' = size + 1
  BY <1>1 DEF HeapInv, PlaceInv, TypeOK, ControlInv, Bound, Push
<1>3. /\ Positions' = Positions \cup {size} /\ items' \in [Positions' -> Items]
      /\ InHeap' = InHeap \cup {x} /\ key' \in [InHeap' -> Keys]
      /\ index' \in [Items -> Positions' \cup {-1}] /\ IndexAgrees'
      /\ \A i \in Positions : KeyAt'[i] = KeyAt[i]
  BY <1>1, Pushed DEF HeapInv, PlaceInv
<1>4. taskMap \in [Ids -> Items \cup {None}] /\ taskMap' = [taskMap EXCEPT ![x[1]] = x]
  BY <1>1 DEF HeapInv, PlaceInv, TypeOK, Push
<1>5. x[1] \in Ids /\ taskMap' \in [Ids -> Items \cup {None}]
  BY <1>4 DEF Items
<1>6. TypeOK'
  BY <1>1, <1>2, <1>3, <1>5 DEF HeapInv, PlaceInv, TypeOK, OpNames, Phases
<1>7. ControlInv'
  BY <1>1, <1>2 DEF HeapInv, PlaceInv, ControlInv
<1>8. MapInv'
  BY <1>3, <1>4, <1>5 DEF HeapInv, MapInv
<1>9. OrderInv'
  <2>1. ASSUME NEW j \in 1..size, j # size
        PROVE  ~Abstract!Before(KeyAt'[j], KeyAt'[Parent(j)])
    <3>1. j \in 1..(size - 1)
      BY <1>2, <2>1
    <3>2. j \in Positions /\ Parent(j) \in Positions
      BY <1>2, <3>1, ParentInside DEF Positions
    <3>3. QED
      BY <1>1, <1>2, <1>3, <3>1, <3>2 DEF HeapInv, OrderInv, HeapOf
  <2>2. ASSUME NEW j \in 1..size PROVE Parent(j) # size
    BY <1>2, Tree
  <2>3. UpHeap(KeyAt', size + 1, size)
    BY <1>2, <2>1, <2>2 DEF UpHeap, Bypass
  <2>4. QED
    BY <1>1, <1>2, <2>3 DEF OrderInv
<1>10. TakenInv'
  BY <1>1 DEF TakenInv
<1>11. QED
  BY <1>3, <1>6, <1>7, <1>8, <1>9, <1>10 DEF HeapInv, PlaceInv

\* The swap with which heap.Pop and heap.Remove begin leaves a heap in which
\* only the item that came from the end may be out of place.
LEMMA SwapOut ==
    ASSUME NEW m \in Nat \ {0}, NEW f \in [0..(m - 1) -> Keys], HeapOf(f, m),
           NEW i \in 0..(m - 1)
    PROVE  DownHeap(Exchanged(f, i, m - 1), m - 1, i, i)
<1> DEFINE g == Exchanged(f, i, m - 1)
<1>1. \A j \in 0..(m - 2) : j # i => g[j] = f[j] /\ f[j] \in Keys
  BY DEF Exchanged
<1>2. \A j \in 1..(m - 2) : j \in 0..(m - 2) /\ Parent(j) \in 0..(m - 2) /\ Parent(j) < j
  <2>1. m - 1 \in Nat
    OBVIOUS
  <2>2. \A j \in 1..((m - 1) - 1) :
            j \in 0..((m - 1) - 1) /\ Parent(j) \in 0..((m - 1) - 1) /\ Parent(j) < j
    BY <2>1, ParentInside
  <2>3. QED
    BY <2>2
<1>3. \A j \in 1..(m - 2) : ~Abstract!Before(f[j], f[Parent(j)])
  BY DEF HeapOf
<1> HIDE DEF g
<1>4. \A j \in 1..(m - 2) : j # i /\ Parent(j) # i => ~Abstract!Before(g[j], g[Parent(j)])
  BY <1>1, <1>2, <1>3
<1>5. ASSUME i > 0, NEW j \in 1..(m - 2), Parent(j) = i
      PROVE  ~Abstract!Before(g[j], g[Parent(i)])
  <2>1. i \in 1..(m - 2) /\ Parent(i) \in 0..(m - 2) /\ Parent(i) # i /\ j # i
    BY <1>2, <1>5
  <2>2. g[j] = f[j] /\ g[Parent(i)] = f[Parent(i)] /\ f[j] \in Keys /\ f[Parent(i)] \in Keys
    BY <1>1, <1>2, <2>1
  <2>3. ~Abstract!Before(f[j], f[i]) /\ ~Abstract!Before(f[i], f[Parent(i)]) /\ f[i] \in Keys
    BY <1>3, <1>5, <2>1
  <2>4. QED
    BY <2>2, <2>3, KeyOrder
<1>6. DownHeap(g, m - 1, i, i)
  <2>1. (m - 1) - 1 = m - 2
    OBVIOUS
  <2>2. QED
    BY <1>4, <1>5, <2>1 DEF DownHeap, Bypass
<1>7. QED
  BY <1>6 DEF g

\* In a heap at rest the root is foremost.
LEMMA RootInForemost ==
    ASSUME HeapInv, phase = "idle", size > 0
    PROVE  items[0] \in Abstract!Foremost(InHeap, key)
<1>1. size \in Nat /\ Bound = size /\ HeapOf(KeyAt, size) /\ 0 \in Positions
  BY DEF HeapInv, PlaceInv, TypeOK, ControlInv, OrderInv, Bound, Positions
<1>2. \A j \in Positions : ~Abstract!Before(KeyAt[j], KeyAt[0])
  BY <1>1, KeysAtPositions, RootIsForemost DEF HeapInv, PlaceInv, Positions
<1>3. items[0] \in InHeap
  BY <1>1 DEF InHeap
<1>4. ASSUME NEW y \in InHeap PROVE ~Abstract!Before(key[y], key[items[0]])
  <2>1. PICK j \in Positions : y = items[j]
    BY DEF InHeap
  <2>2. KeyAt[j] = key[y] /\ KeyAt[0] = key[items[0]]
    BY <1>1, <2>1 DEF KeyAt
  <2>3. QED
    BY <1>2, <2>2
<1>5. QED
  BY <1>3, <1>4 DEF Abstract!Foremost

\* What Remove and RemoveByID have in common: the item to be taken goes to
\* the end.
LEMMA SwapOutInv ==
    ASSUME HeapInv, phase = "idle", size > 0, NEW i \in Positions, Swap(i, size - 1),
           phase' = "down", at' = i, start' = i, limit' = size - 1,
           UNCHANGED <<size, key, taskMap>>, op' \in {"Remove", "RemoveByID"},
           op' = "Remove" => i = 0, op' = "RemoveByID" => i # size - 1
    PROVE  /\ IndexAgrees' /\ MapInv' /\ OrderInv' /\ InHeap' = InHeap
           /\ items'[size - 1] = items[i]
           /\ (target' \in Items \cup {None} => TypeOK')
           /\ ((op' = "Remove" => target' = None) => ControlInv')
<1>1. /\ size \in Nat \ {0} /\ Bound = size /\ Bound' = size - 1 /\ HeapOf(KeyAt, size)
      /\ size - 1 \in Positions /\ i \in 0..(size - 1)
  BY DEF HeapInv, PlaceInv, TypeOK, ControlInv, OrderInv, Bound, Positions
<1>2. /\ Positions' = Positions /\ items' \in [Positions -> Items]
      /\ items'[size - 1] = items[i]
      /\ InHeap' = InHeap /\ index' \in [Items -> Positions \cup {-1}]
      /\ IndexAgrees' /\ KeyAt' = Exchanged(KeyAt, i, size - 1)
  BY <1>1, Swapped DEF HeapInv, PlaceInv
<1>3. MapInv'
  BY <1>2 DEF HeapInv, MapInv
<1>4. DownHeap(KeyAt', size - 1, i, i)
  <2>1. KeyAt \in [0..(size - 1) -> Keys]
    BY KeysAtPositions DEF HeapInv, PlaceInv
  <2>2. QED
    BY <1>1, <1>2, <2>1, SwapOut
<1>5. OrderInv'
  BY <1>1, <1>4 DEF OrderInv
<1>6. ASSUME target' \in Items \cup {None} PROVE TypeOK'
  BY <1>1, <1>2, <1>6 DEF HeapInv, PlaceInv, TypeOK, OpNames, Phases
<1>7. ASSUME op' = "Remove" => target' = None PROVE ControlInv'
  BY <1>1, <1>7 DEF ControlInv
<1>8. QED
  BY <1>2, <1>3, <1>5, <1>6, <1>7

\* Remove: the item behind the heap is foremost.
LEMMA RemoveInv == HeapInv /\ Remove => HeapInv'
<1> SUFFICES ASSUME HeapInv, Remove PROVE HeapInv'
  OBVIOUS
<1>1. /\ phase = "idle" /\ size > 0 /\ Swap(0, size - 1) /\ op' = "Remove"
      /\ phase' = "down" /\ at' = 0 /\ start' = 0 /\ limit' = size - 1
      /\ UNCHANGED <<size, key, taskMap, target>>
  BY DEF Remove
<1>2. 0 \in Positions /\ target = None
  BY <1>1 DEF HeapInv, PlaceInv, TypeOK, ControlInv, Positions
<1>3. /\ IndexAgrees' /\ MapInv' /\ OrderInv' /\ InHeap' = InHeap
      /\ items'[size - 1] = items[0] /\ TypeOK' /\ ControlInv'
  BY <1>1, <1>2, SwapOutInv
<1>4. items[0] \in Abstract!Foremost(InHeap, key)
  BY <1>1, RootInForemost
<1>5. TakenInv'
  BY <1>1, <1>3, <1>4 DEF TakenInv
<1>6. QED
  BY <1>3, <1>5 DEF HeapInv, PlaceInv

\* An item that taskMap holds is where its Index says.
LEMMA Lookup ==
    ASSUME HeapInv, NEW id \in Ids, taskMap[id] # None
    PROVE  /\ taskMap[id] \in InHeap /\ taskMap[id] \in Items
           /\ index[taskMap[id]] \in Positions /\ items[index[taskMap[id]]] = taskMap[id]
<1>1. taskMap[id] \in InHeap
  BY DEF HeapInv, MapInv
<1>2. PICK i \in Positions : taskMap[id] = items[i]
  BY <1>1 DEF InHeap
<1>3. QED
  BY <1>1, <1>2, KeysAtPositions DEF HeapInv, PlaceInv, IndexAgrees

\* RemoveByID: the item behind the heap is the one that was looked up.
LEMMA RemoveByIDInv ==
    ASSUME HeapInv, NEW id \in Ids, RemoveByID(id)
    PROVE  HeapInv'
<1> DEFINE i == index[taskMap[id]]
<1>1. /\ phase = "idle" /\ taskMap[id] # None /\ op' = "RemoveByID"
      /\ target' = taskMap[id] /\ UNCHANGED <<size, key, taskMap>>
  BY DEF RemoveByID
<1>2. i \in Positions /\ items[i] = taskMap[id] /\ taskMap[id] \in Items
  BY <1>1, Lookup
<1>3. size \in Nat /\ size > 0
  BY <1>2 DEF HeapInv, PlaceInv, TypeOK, Positions
<1>4. CASE /\ i # size - 1 /\ Swap(i, size - 1) /\ phase' = "down"
           /\ at' = i /\ start' = i /\ limit' = size - 1
  <2> HIDE DEF i
  <2>1. /\ IndexAgrees' /\ MapInv' /\ OrderInv' /\ InHeap' = InHeap
        /\ items'[size - 1] = items[i] /\ TypeOK' /\ ControlInv'
    BY <1>1, <1>2, <1>3, <1>4, SwapOutInv
  <2>2. TakenInv'
    BY <1>1, <1>2, <2>1 DEF TakenInv
  <2>3. QED
    BY <2>1, <2>2 DEF HeapInv, PlaceInv
<1>5. CASE i = size - 1 /\ phase' = "pop" /\ UNCHANGED <<items, index, at, start, limit>>
  <2>1. /\ Positions' = Positions /\ InHeap' = InHeap /\ KeyAt' = KeyAt
        /\ IndexAgrees' /\ MapInv'
    BY <1>1, <1>5, SameContent DEF content
  <2>2. Bound = size /\ Bound' = size - 1
    BY <1>1 DEF HeapInv, PlaceInv, ControlInv, Bound
  <2>3. OrderInv'
    <3>1. HeapOf(KeyAt, size - 1)
      BY <1>1, <1>3, <2>2 DEF HeapInv, OrderInv, HeapOf
    <3>2. QED
      BY <1>5, <2>1, <2>2, <3>1 DEF OrderInv
  <2>4. TypeOK' /\ ControlInv'
    BY <1>1, <1>2, <1>3, <1>5, <2>1
       DEF HeapInv, PlaceInv, TypeOK, ControlInv, OpNames, Phases
  <2>5. TakenInv'
    BY <1>1, <1>2, <1>5 DEF TakenInv
  <2>6. QED
    BY <2>1, <2>3, <2>4, <2>5 DEF HeapInv, PlaceInv
<1>6. QED
  BY <1>4, <1>5 DEF RemoveByID

\* Update: only the item with the new key may be out of place.
LEMMA UpdateInv ==
    ASSUME HeapInv, NEW id \in Ids, NEW k \in Keys, Update(id, k)
    PROVE  HeapInv'
<1> DEFINE i == index[taskMap[id]]
<1>1. /\ phase = "idle" /\ taskMap[id] # None /\ op' = "Update" /\ phase' = "down"
      /\ at' = i /\ start' = i /\ limit' = size
      /\ key' = [key EXCEPT ![taskMap[id]] = k]
      /\ UNCHANGED <<size, items, index, taskMap, target>>
  BY DEF Update
<1>2. /\ i \in Positions /\ items[i] = taskMap[id] /\ taskMap[id] \in Items
      /\ taskMap[id] \in InHeap
  BY <1>1, Lookup
<1> HIDE DEF i
<1>3. size \in Nat /\ i \in 0..(size - 1) /\ Bound = size /\ Bound' = size
  BY <1>1, <1>2 DEF HeapInv, PlaceInv, TypeOK, ControlInv, Positions, Bound
<1>4. Positions' = Positions /\ InHeap' = InHeap
  BY <1>1 DEF Positions, InHeap
<1>5. IndexAgrees' /\ MapInv'
  BY <1>1, <1>4 DEF HeapInv, PlaceInv, IndexAgrees, MapInv
<1>6. TypeOK'
  BY <1>1, <1>2, <1>3, <1>4 DEF HeapInv, PlaceInv, TypeOK, OpNames, Phases
<1>7. ControlInv'
  BY <1>1, <1>3 DEF HeapInv, PlaceInv, ControlInv
<1>8. \A j \in Positions : j # i => KeyAt'[j] = KeyAt[j] /\ KeyAt[j] \in Keys
  <2> SUFFICES ASSUME NEW j \in Positions, j # i
               PROVE  KeyAt'[j] = KeyAt[j] /\ KeyAt[j] \in Keys
    OBVIOUS
  <2>1. items[j] # taskMap[id]
    BY <1>2 DEF HeapInv, PlaceInv, IndexAgrees
  <2>2. key'[items[j]] = key[items[j]] /\ key[items[j]] \in Keys
    BY <1>1, <2>1, KeysAtPositions DEF HeapInv, PlaceInv, TypeOK
  <2>3. QED
    BY <1>1, <1>4, <2>2 DEF KeyAt
<1>9. DownHeap(KeyAt', size, i, i)
  <2>1. \A j \in 1..(size - 1) :
            j \in Positions /\ Parent(j) \in Positions /\ Parent(j) < j
    BY <1>3, ParentInside DEF Positions
  <2>2. \A j \in 1..(size - 1) : ~Abstract!Before(KeyAt[j], KeyAt[Parent(j)])
    BY <1>1, <1>3 DEF HeapInv, OrderInv, HeapOf
  <2>3. \A j \in 1..(size - 1) :
            j # i /\ Parent(j) # i => ~Abstract!Before(KeyAt'[j], KeyAt'[Parent(j)])
    BY <1>8, <2>1, <2>2
  <2>4. ASSUME i > 0, NEW j \in 1..(size - 1), Parent(j) = i
        PROVE  ~Abstract!Before(KeyAt'[j], KeyAt'[Parent(i)])
    <3>1. i \in 1..(size - 1) /\ j # i /\ Parent(i) # i /\ Parent(i) \in Positions
      BY <1>3, <2>1, <2>4
    <3>2. ~Abstract!Before(KeyAt[j], KeyAt[i]) /\ ~Abstract!Before(KeyAt[i], KeyAt[Parent(i)])
      BY <2>2, <2>4, <3>1
    <3>3. KeyAt[i] \in Keys
      BY <1>3, KeysAtPositions DEF HeapInv, PlaceInv
    <3>4. /\ KeyAt'[j] = KeyAt[j] /\ KeyAt'[Parent(i)] = KeyAt[Parent(i)]
          /\ KeyAt[j] \in Keys /\ KeyAt[Parent(i)] \in Keys
      BY <1>8, <2>1, <3>1
    <3>5. QED
      BY <3>2, <3>3, <3>4, KeyOrder
  <2>5. QED
    BY <2>3, <2>4 DEF DownHeap, Bypass
<1>10. OrderInv'
  BY <1>1, <1>3, <1>9 DEF OrderInv
<1>11. TakenInv'
  BY <1>1 DEF TakenInv
<1>12. QED
  BY <1>5, <1>6, <1>7, <1>10, <1>11 DEF HeapInv, PlaceInv

\* An empty queue: NewPriorityQueue, and what Clear leaves.
EmptyQueue ==
    /\ size = 0
    /\ items = [i \in 0..-1 |-> None]
    /\ key = [x \in {} |-> None]
    /\ index = [x \in Items |-> -1]
    /\ taskMap = [id \in Ids |-> None]
    /\ op = "none" /\ target = None /\ phase = "idle"

\* An empty queue is in order.
LEMMA EmptyInv == EmptyQueue => HeapInv /\ InHeap = {}
<1> SUFFICES ASSUME EmptyQueue PROVE HeapInv /\ InHeap = {}
  OBVIOUS
<1> USE DEF EmptyQueue
<1>1. Positions = {} /\ Positions = 0..-1 /\ Bound = 0
  BY DEF Positions, Bound
<1>2. InHeap = {}
  BY <1>1 DEF InHeap
<1>3. TypeOK
  <2>1. items \in [Positions -> Items]
    BY <1>1
  <2>2. key \in [InHeap -> Keys]
    BY <1>2
  <2>3. QED
    BY <2>1, <2>2 DEF TypeOK, OpNames, Phases
<1>4. IndexAgrees /\ ControlInv /\ MapInv /\ TakenInv
  BY <1>1, <1>2 DEF IndexAgrees, ControlInv, MapInv, TakenInv
<1>5. OrderInv
  BY <1>1 DEF OrderInv, HeapOf
<1>6. QED
  BY <1>2, <1>3, <1>4, <1>5 DEF HeapInv, PlaceInv

\* A new queue is in order.
LEMMA InitHeapInv == Init => HeapInv
BY EmptyInv DEF Init, EmptyQueue

\* Every step of an operation keeps the invariant.
LEMMA NextHeapInv == HeapInv /\ [Next]_vars => HeapInv'
<1> SUFFICES ASSUME HeapInv, [Next]_vars PROVE HeapInv'
  OBVIOUS
<1>1. CASE \E x \in Items, k \in Keys : Add(x, k)
  BY <1>1, AddInv
<1>2. CASE Remove
  BY <1>2, RemoveInv
<1>3. CASE \E id \in Ids : RemoveByID(id)
  BY <1>3, RemoveByIDInv
<1>4. CASE \E id \in Ids, k \in Keys : Update(id, k)
  BY <1>4, UpdateInv
<1>5. CASE Clear
  <2>1. op = "none" /\ target = None
    BY <1>5 DEF Clear, HeapInv, PlaceInv, ControlInv
  <2>2. EmptyQueue'
    BY <1>5, <2>1 DEF Clear, EmptyQueue, control
  <2>3. QED
    BY <2>2, EmptyInv, PTL
<1>6. CASE Sift
  BY <1>6, DownSwapInv, DownStopInv, UpSwapInv, UpStopInv, PopLastInv DEF Sift
<1>7. CASE UNCHANGED vars
  <2>1. UNCHANGED content /\ UNCHANGED control
    BY <1>7 DEF vars
  <2>2. /\ Positions' = Positions /\ InHeap' = InHeap /\ KeyAt' = KeyAt
        /\ IndexAgrees' /\ MapInv' /\ (op' = op => Bound' = Bound)
    BY <2>1, SameContent
  <2>3. QED
    BY <2>1, <2>2 DEF content, control, HeapInv, PlaceInv, TypeOK, ControlInv, OrderInv,
         TakenInv
<1>8. QED
  BY <1>1, <1>2, <1>3, <1>4, <1>5, <1>6, <1>7 DEF Next

\* The invariant holds in every state of every behaviour.
LEMMA HeapInvariant == Spec => []HeapInv
BY InitHeapInv, NextHeapInv, PTL DEF Spec

------------------------------------------------------------------------------
(* What the queue can be relied on for.                                     *)

\* Type correctness of the heap through every swap (priority_queue.go:10-20).
THEOREM HeapTypeCorrect == Spec => []TypeOK
<1>1. HeapInv => TypeOK
  BY DEF HeapInv, PlaceInv
<1>2. QED
  BY <1>1, HeapInvariant, PTL

\* Whatever the length of the queue, its keys, and the operations before: when
\* an operation has returned, no item runs before its parent.  In particular
\* heap.Fix and heap.Remove need no more than one of down and up.
THEOREM HeapIsOrdered == Spec => []HeapOrder
<1>1. HeapInv => HeapOrder
  <2> SUFFICES ASSUME HeapInv, phase = "idle", NEW j \in Positions \ {0}
               PROVE  ~Less(j, Parent(j))
    BY DEF HeapOrder
  <2>1. size \in Nat /\ Bound = size /\ HeapOf(KeyAt, size) /\ j \in 1..(size - 1)
    BY DEF HeapInv, PlaceInv, TypeOK, ControlInv, OrderInv, Bound, Positions
  <2>2. Parent(j) \in Positions /\ j \in Positions
    BY <2>1, ParentInside DEF Positions
  <2>3. QED
    BY <2>1, <2>2, KeysAtPositions DEF HeapInv, PlaceInv, HeapOf
<1>2. QED
  BY <1>1, HeapInvariant, PTL

\* The Index of every item is its position, at every moment, and an item that
\* is not queued has -1 (priority_queue.go:44-67).
THEOREM IndexIsExact == Spec => []IndexAgrees
<1>1. HeapInv => IndexAgrees
  BY DEF HeapInv, PlaceInv
<1>2. QED
  BY <1>1, HeapInvariant, PTL

\* taskMap holds only queued items, under their own ids, however often an id
\* is queued: RemoveByID and Update never pass an Index of -1 on.
THEOREM MapIsSound == Spec => []MapPointsIntoHeap
<1>1. HeapInv => MapPointsIntoHeap
  BY DEF HeapInv, MapInv, MapPointsIntoHeap, GetByID
<1>2. QED
  BY <1>1, HeapInvariant, PTL

\* Get shows an item that no queued item should run before.
THEOREM GetIsForemost == Spec => []GetShowsForemost
<1>1. HeapInv => GetShowsForemost
  <2> SUFFICES ASSUME HeapInv, phase = "idle", size > 0
               PROVE  Get \in Abstract!Foremost(InHeap, key)
    BY DEF GetShowsForemost
  <2>1. Get = items[0]
    BY DEF Get, HeapInv, PlaceInv, TypeOK
  <2>2. QED
    BY <2>1, RootInForemost
<1>2. QED
  BY <1>1, HeapInvariant, PTL

------------------------------------------------------------------------------
(* The refinement.                                                          *)

\* Every step is the step of TaskQueue that has its name, or invisible.
LEMMA StepSimulation == HeapInv /\ [Next]_vars => [Abstract!Next]_(Abstract!vars)
<1> SUFFICES ASSUME HeapInv, [Next]_vars PROVE [Abstract!Next]_(Abstract!vars)
  OBVIOUS
<1>0. phase = "idle" <=> op = "none"
  BY DEF HeapInv, PlaceInv, ControlInv
<1>1. ASSUME NEW x \in Items, NEW k \in Keys, Add(x, k)
      PROVE  Abstract!Add(x, k)
  <2>1. InHeap' = InHeap \cup {x}
    BY <1>1, Pushed DEF Add, HeapInv, PlaceInv
  <2>2. key' = [y \in InHeap' |-> IF y = x THEN k ELSE key[y]]
    BY <1>1, <2>1 DEF Add, Push
  <2>3. QED
    BY <1>0, <1>1, <2>1, <2>2 DEF Add, Abstract!Add
<1>2. CASE Remove
  <2>1. 0 \in Positions /\ size - 1 \in Positions
    BY <1>2 DEF Remove, HeapInv, PlaceInv, TypeOK, Positions
  <2>2. InHeap' = InHeap /\ items[0] \in InHeap
    BY <1>2, <2>1, Swapped DEF Remove, HeapInv, PlaceInv, InHeap
  <2>3. Abstract!CallRemove
    BY <1>0, <1>2, <2>2 DEF Remove, Abstract!CallRemove
  <2>4. QED
    BY <2>3 DEF Abstract!Next
<1>3. ASSUME NEW id \in Ids, RemoveByID(id)
      PROVE  Abstract!CallRemoveByID(taskMap[id]) /\ taskMap[id] \in Items
  <2>1. /\ taskMap[id] # None /\ taskMap[id] \in InHeap /\ taskMap[id] \in Items
        /\ index[taskMap[id]] \in Positions
    BY <1>3, Lookup DEF RemoveByID
  <2>2. size - 1 \in Positions
    BY <2>1 DEF HeapInv, PlaceInv, TypeOK, Positions
  <2>3. InHeap' = InHeap
    <3>1. CASE UNCHANGED <<items, index, at, start, limit>>
      BY <1>3, <3>1 DEF RemoveByID, InHeap, Positions
    <3>2. CASE Swap(index[taskMap[id]], size - 1)
      BY <1>3, <2>1, <2>2, <3>2, Swapped DEF RemoveByID, HeapInv, PlaceInv
    <3>3. QED
      BY <1>3, <3>1, <3>2 DEF RemoveByID
  <2>4. QED
    BY <1>0, <1>3, <2>1, <2>3 DEF RemoveByID, Abstract!CallRemoveByID
<1>4. ASSUME NEW id \in Ids, NEW k \in Keys, Update(id, k)
      PROVE  Abstract!Update(taskMap[id], k) /\ taskMap[id] \in Items
  <2>1. taskMap[id] \in InHeap /\ taskMap[id] \in Items
    BY <1>4, Lookup DEF Update
  <2>2. InHeap' = InHeap
    BY <1>4 DEF Update, InHeap, Positions
  <2>3. QED
    BY <1>0, <1>4, <2>1, <2>2 DEF Update, Abstract!Update
<1>5. CASE Clear
  <2>1. InHeap' = {}
    BY <1>5 DEF Clear, InHeap, Positions
  <2>2. QED
    BY <1>0, <1>5, <2>1 DEF Clear, control, Abstract!Clear, Abstract!Next
<1>6. CASE DownSwap \/ UpSwap
  <2>1. InHeap' = InHeap
    <3>1. CASE DownSwap
      <4>1. at \in Positions /\ ForemostChild(at) \in Positions
        BY <3>1, ForemostChildIs DEF DownSwap, DownGoesOn, HeapInv, PlaceInv
      <4>2. QED
        BY <3>1, <4>1, Swapped DEF DownSwap, HeapInv, PlaceInv
    <3>2. CASE UpSwap
      <4>1. size \in Nat /\ at \in 1..(size - 1) /\ at \in Positions
        BY <3>2 DEF UpSwap, UpGoesOn, HeapInv, PlaceInv, TypeOK, Positions
      <4>2. Parent(at) \in Positions
        BY <4>1, ParentInside DEF Positions
      <4>3. QED
        BY <3>2, <4>1, <4>2, Swapped DEF UpSwap, HeapInv, PlaceInv
    <3>3. QED
      BY <1>6, <3>1, <3>2
  <2>2. QED
    BY <1>6, <2>1 DEF DownSwap, UpSwap, Abstract!vars
<1>7. CASE DownStop \/ UpStop
  <2>1. InHeap' = InHeap /\ key' = key
    BY <1>7 DEF DownStop, UpStop, content, InHeap, Positions
  <2>2. CASE AfterSift
    <3>1. CASE op \in {"Add", "Update"} /\ Return
      <4>1. target = None
        BY <3>1 DEF HeapInv, PlaceInv, ControlInv
      <4>2. Abstract!Return
        BY <2>1, <3>1, <4>1 DEF Return, Abstract!Return
      <4>3. QED
        BY <4>2 DEF Abstract!Next, Abstract!Finish
    <3>2. CASE UNCHANGED <<op, target>>
      BY <2>1, <3>2 DEF Abstract!vars
    <3>3. QED
      BY <2>2, <3>1, <3>2 DEF AfterSift
  <2>3. CASE UNCHANGED <<op, target>>
    BY <2>1, <2>3 DEF Abstract!vars
  <2>4. QED
    BY <1>7, <2>2, <2>3 DEF DownStop, UpStop
<1>8. CASE PopLast
  <2>1. size > 0 /\ op \in {"Remove", "RemoveByID"}
    BY <1>8 DEF PopLast, HeapInv, PlaceInv, ControlInv
  <2>2. /\ InHeap' = InHeap \ {items[size - 1]} /\ key' = [y \in InHeap' |-> key[y]]
        /\ items[size - 1] \in InHeap
    BY <1>8, <2>1, Popped DEF PopLast, HeapInv, PlaceInv
  <2>3. CASE op = "Remove"
    <3>1. /\ items[size - 1] \in Abstract!Foremost(InHeap, key) /\ target = None
          /\ items[size - 1] \in Items
      BY <2>2, <2>3, KeysAtPositions DEF HeapInv, PlaceInv, ControlInv, TakenInv
    <3>2. Abstract!Take(items[size - 1])
      BY <1>8, <2>2, <2>3, <3>1 DEF PopLast, Return, Abstract!Take
    <3>3. QED
      BY <3>1, <3>2 DEF Abstract!Next, Abstract!Finish, Items, Abstract!Items
  <2>4. CASE op = "RemoveByID"
    <3>1. items[size - 1] = target
      BY <2>4 DEF HeapInv, TakenInv
    <3>2. Abstract!Drop
      BY <1>8, <2>2, <2>4, <3>1 DEF PopLast, Return, Abstract!Drop
    <3>3. QED
      BY <3>2 DEF Abstract!Next, Abstract!Finish
  <2>5. QED
    BY <2>1, <2>3, <2>4
<1>9. CASE UNCHANGED vars
  BY <1>9 DEF vars, content, control, InHeap, Positions, Abstract!vars
<1>10. QED
  BY <1>1, <1>2, <1>3, <1>4, <1>5, <1>6, <1>7, <1>8, <1>9
     DEF Next, Sift, Abstract!Next, Items, Abstract!Items

\* The heap is the queue that its callers think of: Remove takes an item that
\* no queued item should run before, RemoveByID the one it looked up, nothing
\* else ever leaves and no key changes but by Update.
THEOREM HeapImplementsTaskQueue == Spec => ImplementsTaskQueue
<1>1. Init => Abstract!Init
  BY EmptyInv DEF Init, EmptyQueue, Abstract!Init
<1>2. QED
  BY <1>1, HeapInvariant, StepSimulation, PTL DEF Spec, ImplementsTaskQueue, Abstract!Spec

==============================================================================
