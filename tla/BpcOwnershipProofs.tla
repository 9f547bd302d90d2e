------------------------- MODULE BpcOwnershipProofs -------------------------
(***************************************************************************)
(* Theorems about the parser's memory, for every vocabulary and files of   *)
(* any length: one owner for each object, and nothing lost but what        *)
(* YYERROR drops.                                                          *)
(***************************************************************************)
EXTENDS BpcOwnership, BpcParserProofs, FiniteSetTheorems, FunctionTheorems

(* The heap as a forest.  The next facts are about a heap h alone. *)

\* How far a kind may be from the names at the leaves.
Rank ==
  [kind \in HeapKinds |->
     CASE kind \in {"alias", "member", "vartype"} -> 1
       [] kind \in {"enum", "variable"} -> 2
       [] kind \in {"struct", "msg"}    -> 3
       [] kind = "node"                 -> 4
       [] kind = "document"             -> 5
       [] OTHER                         -> 0]

\* Every part is lower than what it is part of.
LEMMA RankFacts ==
  /\ Rank \in [HeapKinds -> 0..5]
  /\ \A kind \in HeapKinds : /\ Frees[kind] \subseteq HeapKinds
                             /\ \A part \in Frees[kind] : Rank[part] < Rank[kind]
BY DEF Rank, Frees, HeapKinds

\* Objects have parts of the kinds their destructor frees, and no part is in
\* two objects.
HeapOK(h) ==
  /\ IsFiniteSet(DOMAIN h) /\ DOMAIN h \subseteq Nat \ {0}
  /\ \A i \in DOMAIN h :
       /\ h[i].kind \in HeapKinds
       /\ h[i].parts \subseteq DOMAIN h
       /\ \A p \in h[i].parts : h[p].kind \in Frees[h[i].kind]
  /\ \A i, j \in DOMAIN h : i # j => h[i].parts \cap h[j].parts = {}

PartsIn(h) == UNION {h[i].parts : i \in DOMAIN h}

\* X is the least set with ids that has the parts of all its objects.
IsTrees(h, ids, X) ==
  /\ ids \subseteq X /\ X \subseteq DOMAIN h
  /\ \A i \in X : h[i].parts \subseteq X
  /\ \A S \in SUBSET DOMAIN h :
       ids \subseteq S /\ (\A i \in S : h[i].parts \subseteq S) => X \subseteq S

\* Height steps are enough to reach everything a destructor frees, and
\* whether kinds are asked for makes no difference.
LEMMA ReachedFacts ==
  ASSUME NEW h, HeapOK(h), NEW ids \in SUBSET DOMAIN h,
         NEW through \in {Frees, AllParts}
  PROVE  IsTrees(h, ids, Reached(h, ids, through))
<1> DEFINE S == SUBSET DOMAIN h
           More(above) ==
             above \cup UNION {{p \in h[i].parts : h[p].kind \in through[h[i].kind]} : i \in above}
           step == [k \in 1..Height |-> [above \in S |-> More(above)]]
           Rec(f) == [n \in 0..Height |-> IF n = 0 THEN ids ELSE More(f[n - 1])]
           tree == CHOOSE f : f = Rec(f)
<1>1. Reached(h, ids, through) = tree[Height]
  BY DEF Reached
<1>2. \A i \in DOMAIN h : {p \in h[i].parts : h[p].kind \in through[h[i].kind]} = h[i].parts
  <2> SUFFICES ASSUME NEW i \in DOMAIN h, NEW p \in h[i].parts
               PROVE  h[p].kind \in through[h[i].kind]
    OBVIOUS
  <2>1. p \in DOMAIN h /\ h[p].kind \in HeapKinds /\ h[p].kind \in Frees[h[i].kind]
        /\ h[i].kind \in HeapKinds
    BY DEF HeapOK
  <2> QED
    BY <2>1 DEF AllParts
<1>3. \A above \in S : More(above) = above \cup UNION {h[i].parts : i \in above}
  BY <1>2
<1>4. \A above \in S : More(above) \in S
  BY <1>3 DEF HeapOK
<1> HIDE DEF More
<1>5. step \in [1..Height -> [S -> S]] /\ ids \in S /\ Height \in Nat /\ Height = 7
  BY <1>4 DEF Height
<1>6. PICK g \in [0..Height -> S] : Follows(g, Height, ids, step)
  <2> HIDE DEF step, S
  <2> QED
    BY <1>5, SegmentRecursion
<1>7. \A k \in 1..Height : g[k - 1] \in S /\ g[k] = More(g[k - 1])
  <2> SUFFICES ASSUME NEW k \in 1..Height PROVE g[k - 1] \in S /\ g[k] = More(g[k - 1])
    OBVIOUS
  <2>1. k - 1 \in 0..Height /\ g[k - 1] \in S
    BY <1>5, <1>6
  <2>2. g[k] = step[k][g[k - 1]]
    BY <1>6 DEF Follows
  <2> QED
    BY <2>1, <2>2
<1>8. g = Rec(g)
  BY <1>5, <1>6, <1>7 DEF Follows
<1> HIDE DEF Rec
<1>9. tree = Rec(tree)
  BY <1>8
<1> HIDE DEF tree
<1>10. tree[0] = ids /\ \A k \in 1..Height : tree[k] = More(tree[k - 1])
  BY <1>5, <1>9 DEF Rec
<1> HIDE DEF step, S
<1>11. 0..Height \subseteq {n \in 0..Height : tree[n] \in S /\ ids \subseteq tree[n]}
  <2> DEFINE Good == {n \in 0..Height : tree[n] \in S /\ ids \subseteq tree[n]}
  <2>1. 0 \in Good
    BY <1>5, <1>10
  <2>2. \A k \in 1..Height : k - 1 \in Good => k \in Good
    BY <1>3, <1>4, <1>5, <1>10
  <2> HIDE DEF Good
  <2>3. 0..Height \subseteq Good
    BY <1>5, <2>1, <2>2, SegmentInduction
  <2> QED
    BY <2>3 DEF Good
<1>12. \A k \in 1..Height : /\ tree[k - 1] \in S
                            /\ tree[k] = tree[k - 1] \cup UNION {h[i].parts : i \in tree[k - 1]}
  BY <1>3, <1>5, <1>10, <1>11
<1> DEFINE r(x) == Rank[h[x].kind]
<1>13. \A x \in DOMAIN h : r(x) \in 0..5 /\ \A p \in h[x].parts : p \in DOMAIN h /\ r(p) < r(x)
  BY RankFacts DEF HeapOK
<1> HIDE DEF r
<1>14. 0..Height \subseteq {n \in 0..Height : \A x \in tree[n] : r(x) <= 5 - n \/ h[x].parts \subseteq tree[n]}
  <2> DEFINE Good == {n \in 0..Height : \A x \in tree[n] : r(x) <= 5 - n \/ h[x].parts \subseteq tree[n]}
  <2>1. 0 \in Good
    BY <1>5, <1>10, <1>13 DEF S
  <2>2. ASSUME NEW k \in 1..Height, k - 1 \in Good PROVE k \in Good
    <3> SUFFICES ASSUME NEW x \in tree[k] PROVE r(x) <= 5 - k \/ h[x].parts \subseteq tree[k]
      OBVIOUS
    <3>1. CASE x \in tree[k - 1]
      BY <1>12, <3>1
    <3>2. CASE x \notin tree[k - 1]
      <4>1. PICK y \in tree[k - 1] : x \in h[y].parts
        BY <1>12, <3>2
      <4>2. r(y) <= 5 - (k - 1)
        BY <2>2, <3>2, <4>1
      <4>3. r(x) < r(y) /\ r(x) \in Int /\ r(y) \in Int
        BY <1>12, <1>13, <4>1 DEF S
      <4> QED
        BY <1>5, <4>2, <4>3
    <3> QED
      BY <3>1, <3>2
  <2> HIDE DEF Good
  <2>3. 0..Height \subseteq Good
    BY <1>5, <2>1, <2>2, SegmentInduction
  <2> QED
    BY <2>3 DEF Good
<1>15. Height \in 0..Height /\ tree[Height] \subseteq DOMAIN h
  BY <1>5, <1>11 DEF S
<1>16. \A x \in tree[Height] : h[x].parts \subseteq tree[Height]
  BY <1>5, <1>13, <1>14, <1>15
<1>17. ASSUME NEW T \in SUBSET DOMAIN h, ids \subseteq T, \A i \in T : h[i].parts \subseteq T
       PROVE  tree[Height] \subseteq T
  <2> DEFINE Good == {n \in 0..Height : tree[n] \subseteq T}
  <2>1. 0 \in Good
    BY <1>5, <1>10, <1>17
  <2>2. \A k \in 1..Height : k - 1 \in Good => k \in Good
    BY <1>5, <1>12, <1>17
  <2> HIDE DEF Good
  <2>3. 0..Height \subseteq Good
    BY <1>5, <2>1, <2>2, SegmentInduction
  <2> QED
    BY <1>15, <2>3 DEF Good
<1>18. ids \subseteq tree[Height]
  BY <1>11, <1>15
<1> QED
  BY <1>1, <1>15, <1>16, <1>17, <1>18 DEF IsTrees

\* What roots R and a set D of trees leave over: every object belongs to one
\* root or to D.
Forest(h, R, D) ==
  /\ HeapOK(h)
  /\ R \subseteq DOMAIN h /\ D \subseteq DOMAIN h
  /\ R \cap PartsIn(h) = {} /\ R \cap D = {}
  /\ \A i \in DOMAIN h : \A p \in h[i].parts : p \in D <=> i \in D
  /\ DOMAIN h \subseteq R \cup D \cup PartsIn(h)

\* The trees below some roots hold no other root and nothing of D.
LEMMA TreesApart ==
  ASSUME NEW h, NEW R, NEW D, Forest(h, R, D), NEW ids \in SUBSET R, NEW X, IsTrees(h, ids, X)
  PROVE  /\ X \cap R = ids /\ X \cap D = {}
         /\ \A i \in DOMAIN h : \A p \in h[i].parts : p \in X => i \in X
<1>1. /\ ids \subseteq X /\ X \subseteq DOMAIN h /\ \A i \in X : h[i].parts \subseteq X
      /\ \A S \in SUBSET DOMAIN h :
           ids \subseteq S /\ (\A i \in S : h[i].parts \subseteq S) => X \subseteq S
  BY DEF IsTrees
<1>2. X \subseteq ids \cup PartsIn(h)
  <2> DEFINE S == X \cap (ids \cup PartsIn(h))
  <2>1. S \in SUBSET DOMAIN h /\ ids \subseteq S /\ \A i \in S : h[i].parts \subseteq S
    BY <1>1 DEF PartsIn
  <2> QED
    BY <1>1, <2>1
<1>3. X \cap R = ids
  BY <1>1, <1>2 DEF Forest
<1>4. X \cap D = {}
  <2> DEFINE S == X \ D
  <2>1. S \in SUBSET DOMAIN h /\ ids \subseteq S
    BY <1>1 DEF Forest
  <2>2. \A i \in S : h[i].parts \subseteq S
    BY <1>1 DEF Forest
  <2> QED
    BY <1>1, <2>1, <2>2
<1>5. ASSUME NEW i \in DOMAIN h, NEW p \in h[i].parts, p \in X PROVE i \in X
  <2> DEFINE S == ids \cup UNION {h[j].parts : j \in X}
  <2>1. S \in SUBSET DOMAIN h /\ ids \subseteq S
    BY <1>1
  <2>2. \A j \in S : h[j].parts \subseteq S
    BY <1>1
  <2>3. p \in S
    BY <1>1, <1>5, <2>1, <2>2
  <2>4. p \notin ids
    BY <1>5 DEF Forest, PartsIn
  <2>5. PICK j \in X : p \in h[j].parts
    BY <2>3, <2>4
  <2>6. i = j
    BY <1>1, <1>5, <2>5 DEF Forest, HeapOK
  <2> QED
    BY <2>5, <2>6
<1> QED
  BY <1>3, <1>4, <1>5

HeapWithout(h, ids) == [i \in DOMAIN h \ ids |-> h[i]]

\* A heap without the trees below some roots, or without D, is a forest again.
LEMMA FreeForest ==
  ASSUME NEW h, NEW R, NEW D, Forest(h, R, D), NEW ids \in SUBSET R, NEW X, IsTrees(h, ids, X)
  PROVE  Forest(HeapWithout(h, X), R \ ids, D)
<1> DEFINE g == HeapWithout(h, X)
<1>1. /\ X \cap R = ids /\ X \cap D = {}
      /\ \A i \in DOMAIN h : \A p \in h[i].parts : p \in X => i \in X
  BY TreesApart
<1>0. X \subseteq DOMAIN h /\ \A i \in X : h[i].parts \subseteq X
  BY DEF IsTrees
<1>2. DOMAIN g = DOMAIN h \ X /\ \A i \in DOMAIN g : g[i] = h[i]
  BY DEF HeapWithout
<1> HIDE DEF g
<1>3. HeapOK(g)
  <2>1. IsFiniteSet(DOMAIN g)
    BY <1>2, FS_Subset DEF Forest, HeapOK
  <2> QED
    BY <1>0, <1>1, <1>2, <2>1 DEF Forest, HeapOK
<1>4. PartsIn(g) = PartsIn(h) \ X
  BY <1>0, <1>1, <1>2 DEF PartsIn
<1>5. \A i \in DOMAIN g : \A p \in g[i].parts : p \in D <=> i \in D
  BY <1>0, <1>1, <1>2 DEF Forest
<1>6. /\ R \ ids \subseteq DOMAIN g /\ D \subseteq DOMAIN g
      /\ (R \ ids) \cap PartsIn(g) = {} /\ (R \ ids) \cap D = {}
      /\ DOMAIN g \subseteq (R \ ids) \cup D \cup PartsIn(g)
  BY <1>0, <1>1, <1>2, <1>4 DEF Forest
<1> QED
  BY <1>3, <1>5, <1>6 DEF Forest, g

\* YYERROR moves trees from the roots to D.
LEMMA DropForest ==
  ASSUME NEW h, NEW R, NEW D, Forest(h, R, D), NEW ids \in SUBSET R, NEW X, IsTrees(h, ids, X)
  PROVE  Forest(h, R \ ids, D \cup X)
<1>1. /\ X \cap R = ids /\ X \cap D = {}
      /\ \A i \in DOMAIN h : \A p \in h[i].parts : p \in X => i \in X
  BY TreesApart
<1>0. X \subseteq DOMAIN h /\ \A i \in X : h[i].parts \subseteq X
  BY DEF IsTrees
<1> QED
  BY <1>0, <1>1 DEF Forest

\* A new object takes roots as its parts and is a root itself.
LEMMA AllocForest ==
  ASSUME NEW h, NEW R, NEW D, Forest(h, R, D), NEW n \in Nat \ {0}, n \notin DOMAIN h,
         NEW kind \in HeapKinds, NEW parts \in SUBSET R,
         \A p \in parts : h[p].kind \in Frees[kind],
         NEW g, DOMAIN g = DOMAIN h \cup {n}, \A i \in DOMAIN h : g[i] = h[i],
         g[n].kind = kind, g[n].parts = parts
  PROVE  Forest(g, (R \ parts) \cup {n}, D)
<1>1. HeapOK(g)
  <2>1. IsFiniteSet(DOMAIN g)
    BY FS_AddElement DEF Forest, HeapOK
  <2>2. \A i \in DOMAIN h : h[i].parts \cap parts = {}
    BY DEF Forest, PartsIn
  <2>3. DOMAIN g \subseteq Nat \ {0}
    BY DEF Forest, HeapOK
  <2>4. ASSUME NEW i \in DOMAIN g
        PROVE  /\ g[i].kind \in HeapKinds
               /\ g[i].parts \subseteq DOMAIN g
               /\ \A p \in g[i].parts : g[p].kind \in Frees[g[i].kind]
    BY DEF Forest, HeapOK
  <2>5. \A i, j \in DOMAIN g : i # j => g[i].parts \cap g[j].parts = {}
    BY <2>2 DEF Forest, HeapOK
  <2> QED
    BY <2>1, <2>3, <2>4, <2>5 DEF HeapOK
<1>2. PartsIn(g) = PartsIn(h) \cup parts
  BY DEF PartsIn
<1>3. PartsIn(h) \subseteq DOMAIN h
  BY DEF PartsIn, Forest, HeapOK
<1>4. \A i \in DOMAIN g : \A p \in g[i].parts : p \in D <=> i \in D
  BY DEF Forest, HeapOK
<1> QED
  BY <1>1, <1>2, <1>3, <1>4 DEF Forest

\* What nothing reaches any more is D, and without it a forest of R is left.
LEMMA SettleForest ==
  ASSUME NEW h, NEW R, NEW D, Forest(h, R, D)
  PROVE  LET tops == DOMAIN h \ (R \cup PartsIn(h))
         IN  /\ tops = {} => D = {}
             /\ Reached(h, tops, AllParts) = D
             /\ Forest(HeapWithout(h, D), R, {})
<1> DEFINE tops == DOMAIN h \ (R \cup PartsIn(h))
           X == Reached(h, tops, AllParts)
<1>1. IsTrees(h, tops, X)
  BY ReachedFacts DEF Forest
<1> HIDE DEF X
<1>2. X \subseteq D
  <2>1. tops \subseteq D /\ \A i \in D : h[i].parts \subseteq D
    BY DEF Forest
  <2> QED
    BY <1>1, <2>1 DEF IsTrees, Forest
<1>3. D \subseteq X
  <2> DEFINE bad == D \ X
             height == {5 - Rank[h[x].kind] : x \in bad}
  <2> SUFFICES ASSUME bad # {} PROVE FALSE
    OBVIOUS
  <2>1. \A x \in DOMAIN h : Rank[h[x].kind] \in 0..5
    BY RankFacts DEF Forest, HeapOK
  <2>2. height \in SUBSET Nat /\ height # {}
    BY <2>1 DEF Forest
  <2> HIDE DEF height
  <2>3. PICK v \in height : \A w \in height : v <= w
    BY <2>2, LeastNat
  <2>4. PICK x \in bad : v = 5 - Rank[h[x].kind]
    BY <2>3 DEF height
  <2>5. x \notin tops /\ x \notin R /\ x \in DOMAIN h
    BY <1>1, <2>4 DEF IsTrees, Forest
  <2>6. PICK y \in DOMAIN h : x \in h[y].parts
    BY <2>5 DEF PartsIn
  <2>7. y \in bad
    BY <1>1, <2>4, <2>6 DEF Forest, IsTrees
  <2>8. Rank[h[x].kind] < Rank[h[y].kind]
    BY <2>6, RankFacts DEF Forest, HeapOK
  <2>9. 5 - Rank[h[y].kind] \in height
    BY <2>7 DEF height
  <2> QED
    BY <2>1, <2>3, <2>4, <2>5, <2>6, <2>8, <2>9
<1>4. X = D
  BY <1>2, <1>3
<1>5. tops = {} => D = {}
  <2>1. IsTrees(h, {}, {}) /\ (tops = {} => X \subseteq {})
    BY <1>1 DEF IsTrees
  <2> QED
    BY <1>4, <2>1
<1>6. Forest(HeapWithout(h, D), R, {})
  <2> DEFINE g == HeapWithout(h, D)
  <2>1. DOMAIN g = DOMAIN h \ D /\ \A i \in DOMAIN g : g[i] = h[i]
    BY DEF HeapWithout
  <2> HIDE DEF g
  <2>2. \A i \in DOMAIN h : \A p \in h[i].parts : p \in D <=> i \in D
    BY DEF Forest
  <2>3. HeapOK(g)
    <3>1. IsFiniteSet(DOMAIN g)
      BY <2>1, FS_Subset DEF Forest, HeapOK
    <3> QED
      BY <2>1, <2>2, <3>1 DEF Forest, HeapOK
  <2>4. PartsIn(g) = PartsIn(h) \ D
    BY <2>1, <2>2 DEF PartsIn
  <2> QED
    BY <2>1, <2>3, <2>4 DEF Forest, g
<1> QED
  BY <1>4, <1>5, <1>6 DEF X
-----------------------------------------------------------------------------
(* The memory: a heap, the stack and the tables that hold its roots.  A     *)
(* step may hold roots in its hand, between a pop and a push or a free.     *)

Symbols == HeapKinds \cup {"chain", "body", "enumBody", "variables", "declarators"}

\* The kinds of objects the value of a symbol owns.
Holds ==
  [sym \in Symbols |->
     CASE sym \in {"chain", "declarators"} -> {"name"}
       [] sym = "body"      -> {"node"}
       [] sym = "enumBody"  -> {"member"}
       [] sym = "variables" -> {"variable"}
       [] OTHER             -> {sym}]

Entry == [sym : Symbols, owns : SUBSET Nat]

IsMem(m) ==
  /\ m = [heap |-> m.heap, stack |-> m.stack, keys |-> m.keys,
          lost |-> m.lost, dropped |-> m.dropped]
  /\ m.stack \in Seq(Entry)
  /\ m.keys \in [idents : SUBSET Nat, variables : SUBSET Nat]

Stacked(m) == UNION {m.stack[k].owns : k \in 1..Len(m.stack)}

Tabled(m) == m.keys.idents \cup m.keys.variables

StackOK(m) ==
  /\ \A k \in 1..Len(m.stack) : \A i \in m.stack[k].owns :
       m.heap[i].kind \in Holds[m.stack[k].sym]
  /\ \A j, k \in 1..Len(m.stack) : j # k => m.stack[j].owns \cap m.stack[k].owns = {}

TablesOK(m) ==
  /\ \A i \in Tabled(m) : m.heap[i].kind = "key"
  /\ m.keys.idents \cap m.keys.variables = {}

\* The roots are on the stack, in the tables or in the hand.
Sound(m, held) ==
  /\ IsMem(m) /\ StackOK(m) /\ TablesOK(m)
  /\ Stacked(m) \cap Tabled(m) = {} /\ held \cap (Stacked(m) \cup Tabled(m)) = {}
  /\ Forest(m.heap, Stacked(m) \cup Tabled(m) \cup held, m.dropped)

\* Objects in the hand of these kinds only.
KindsIn(m, ids, kinds) == \A i \in ids : m.heap[i].kind \in kinds

\* The smallest address that is not in use is one.
LEMMA FreshFacts ==
  ASSUME NEW m, IsFiniteSet(DOMAIN m.heap), DOMAIN m.heap \subseteq Nat \ {0}
  PROVE  Fresh(m) \in Nat \ {0} /\ Fresh(m) \notin DOMAIN m.heap
<1> DEFINE D == DOMAIN m.heap
           c == Cardinality(D)
           free == {n \in 1..c + 1 : n \notin D}
<1>1. c \in Nat
  BY FS_CardinalityType
<1>2. free # {}
  <2> SUFFICES ASSUME free = {} PROVE FALSE
    OBVIOUS
  <2>1. 1..c + 1 \subseteq D
    OBVIOUS
  <2>2. Cardinality(1..c + 1) <= c
    BY <2>1, FS_Subset
  <2>3. Cardinality(1..c + 1) = c + 1
    BY <1>1, FS_Interval
  <2> QED
    BY <1>1, <2>2, <2>3
<1>3. free \in SUBSET Nat
  BY <1>1
<1>4. PICK n \in free : \A k \in free : n <= k
  <2> HIDE DEF free
  <2> QED
    BY <1>2, <1>3, LeastNat
<1>5. Min(free) \in free
  BY <1>4 DEF Min
<1>6. Fresh(m) = Min(free)
  BY DEF Fresh
<1> QED
  BY <1>1, <1>5, <1>6

\* What a pop leaves, and what it takes into the hand.
LEMMA PoppedFields ==
  ASSUME NEW m, IsMem(m), NEW k \in 0..Len(m.stack)
  PROVE  LET p == Popped(m, k)
         IN  /\ IsMem(p)
             /\ p.heap = m.heap /\ p.keys = m.keys /\ p.dropped = m.dropped
             /\ Len(p.stack) = Len(m.stack) - k
             /\ \A i \in 1..Len(p.stack) : p.stack[i] = m.stack[i]
<1> DEFINE rest == SubSeq(m.stack, 1, Len(m.stack) - k)
<1>1. /\ rest \in Seq(Entry) /\ Len(rest) = Len(m.stack) - k
      /\ \A i \in 1..Len(rest) : rest[i] = m.stack[i]
  BY DEF IsMem
<1> HIDE DEF rest
<1>2. Popped(m, k) = [m EXCEPT !.stack = rest]
  BY DEF Popped, rest
<1>3. Popped(m, k) = [heap |-> m.heap, stack |-> rest, keys |-> m.keys,
                      lost |-> m.lost, dropped |-> m.dropped]
  BY <1>2 DEF IsMem
<1> QED
  BY <1>1, <1>3 DEF IsMem

LEMMA PopSound ==
  ASSUME NEW m, NEW held, Sound(m, held), NEW k \in 0..Len(m.stack)
  PROVE  /\ Sound(Popped(m, k), held \cup Owned(m, k))
         /\ Owned(m, k) \cap held = {} /\ Owned(m, k) \subseteq DOMAIN m.heap
<1> DEFINE p == Popped(m, k)
           n == Len(m.stack)
<1>1. /\ IsMem(p)
      /\ p.heap = m.heap /\ p.keys = m.keys /\ p.dropped = m.dropped
      /\ Len(p.stack) = n - k
      /\ \A i \in 1..Len(p.stack) : p.stack[i] = m.stack[i]
  BY PoppedFields DEF Sound
<1> HIDE DEF p
<1>2. n \in Nat
  BY DEF Sound, IsMem
<1>3. Owned(m, k) = UNION {m.stack[i].owns : i \in n - k + 1..n}
  BY DEF Owned
<1>4. Stacked(m) = Stacked(p) \cup Owned(m, k)
  <2>1. Len(p.stack) \in Nat /\ Len(m.stack) = n
    BY <1>1, <1>2
  <2>2. ASSUME NEW x
        PROVE  /\ x \in Stacked(p) <=> \E i \in 1..Len(p.stack) : x \in p.stack[i].owns
               /\ x \in Stacked(m) <=> \E i \in 1..n : x \in m.stack[i].owns
               /\ x \in Owned(m, k) <=> \E i \in n - k + 1..n : x \in m.stack[i].owns
    BY <1>3, <2>1 DEF Stacked
  <2>3. \A i \in 1..Len(p.stack) : p.stack[i].owns = m.stack[i].owns
    BY <1>1
  <2> HIDE DEF n
  <2>4. ASSUME NEW x
        PROVE  x \in Stacked(m) <=> x \in Stacked(p) \/ x \in Owned(m, k)
    <3> DEFINE bottom == 1..Len(p.stack)
               top    == n - k + 1..n
    <3>1. /\ \A i \in 1..n : i \in bottom \/ i \in top
          /\ bottom \subseteq 1..n /\ top \subseteq 1..n
      BY <1>1, <1>2, <2>1
    <3>2. /\ x \in Stacked(p) <=> \E i \in bottom : x \in p.stack[i].owns
          /\ x \in Stacked(m) <=> \E i \in 1..n : x \in m.stack[i].owns
          /\ x \in Owned(m, k) <=> \E i \in top : x \in m.stack[i].owns
          /\ \A i \in bottom : p.stack[i].owns = m.stack[i].owns
      BY <2>2, <2>3
    <3> HIDE DEF bottom, top
    <3> QED
      BY <3>1, <3>2, Zenon
  <2> QED
    BY <2>4
<1>5. Stacked(p) \cap Owned(m, k) = {}
  BY <1>1, <1>2, <1>3, SMTT(60) DEF Stacked, Sound, StackOK
<1>6. StackOK(p) /\ TablesOK(p) /\ Tabled(p) = Tabled(m)
  <2>1. StackOK(p)
    <3>1. \A i \in 1..Len(p.stack) : i \in 1..n
      BY <1>1, <1>2
    <3> QED
      BY <1>1, <3>1 DEF Sound, StackOK
  <2>2. TablesOK(p) /\ Tabled(p) = Tabled(m)
    BY <1>1 DEF Sound, TablesOK, Tabled
  <2> QED
    BY <2>1, <2>2
<1>7. Stacked(p) \cup Tabled(p) \cup (held \cup Owned(m, k)) = Stacked(m) \cup Tabled(m) \cup held
  BY <1>4, <1>6
<1>8. Forest(p.heap, Stacked(p) \cup Tabled(p) \cup (held \cup Owned(m, k)), p.dropped)
  BY <1>1, <1>7 DEF Sound
<1>9. Owned(m, k) \cap held = {} /\ Owned(m, k) \subseteq DOMAIN m.heap
  BY <1>4 DEF Sound, Forest
<1> QED
  BY <1>1, <1>4, <1>5, <1>6, <1>8, <1>9 DEF Sound, p

\* What a push changes.
LEMMA PushFields ==
  ASSUME NEW m, IsMem(m), NEW sym, NEW owns
  PROVE  LET p == Push(m, sym, owns)
         IN  /\ p.heap = m.heap
             /\ Len(p.stack) = Len(m.stack) + 1
             /\ \A i \in 1..Len(m.stack) : p.stack[i] = m.stack[i]
             /\ p.stack[Len(m.stack) + 1].sym = sym
<1> DEFINE more == Append(m.stack, [sym |-> sym, owns |-> owns])
<1>1. /\ Len(more) = Len(m.stack) + 1
      /\ \A i \in 1..Len(m.stack) : more[i] = m.stack[i]
      /\ more[Len(m.stack) + 1].sym = sym
  BY DEF IsMem
<1>2. Push(m, sym, owns) = [m EXCEPT !.stack = more]
  BY DEF Push
<1> HIDE DEF more
<1> QED
  BY <1>1, <1>2 DEF IsMem

\* A push puts roots from the hand on the stack.
LEMMA PushSound ==
  ASSUME NEW m, NEW held, NEW owns, Sound(m, held \cup owns), held \cap owns = {},
         NEW sym \in Symbols, KindsIn(m, owns, Holds[sym])
  PROVE  Sound(Push(m, sym, owns), held)
<1> DEFINE p == Push(m, sym, owns)
           n == Len(m.stack)
           more == Append(m.stack, [sym |-> sym, owns |-> owns])
<1>1. held \cup owns \subseteq Nat /\ n \in Nat /\ m.stack \in Seq(Entry)
  BY DEF Sound, Forest, HeapOK, IsMem
<1>2. [sym |-> sym, owns |-> owns] \in Entry
  BY <1>1 DEF Entry
<1>3. /\ more \in Seq(Entry) /\ Len(more) = n + 1
      /\ \A i \in 1..n : more[i] = m.stack[i]
      /\ more[n + 1] = [sym |-> sym, owns |-> owns]
  BY <1>1, <1>2
<1> HIDE DEF more
<1>4. p = [heap |-> m.heap, stack |-> more, keys |-> m.keys,
           lost |-> m.lost, dropped |-> m.dropped]
  <2>1. p = [m EXCEPT !.stack = more]
    BY DEF Push, more
  <2> QED
    BY <2>1 DEF Sound, IsMem
<1> HIDE DEF p
<1>5. IsMem(p) /\ p.heap = m.heap /\ p.stack = more /\ p.keys = m.keys /\ p.dropped = m.dropped
  BY <1>3, <1>4 DEF Sound, IsMem
<1>6. Stacked(p) = Stacked(m) \cup owns
  BY <1>1, <1>3, <1>5, SMTT(60) DEF Stacked
<1>7. StackOK(p)
  <2>1. ASSUME NEW k \in 1..Len(p.stack), NEW i \in p.stack[k].owns
        PROVE  p.heap[i].kind \in Holds[p.stack[k].sym]
    <3>1. CASE k # n + 1
      BY <1>1, <1>3, <1>5, <2>1, <3>1 DEF Sound, StackOK
    <3>2. CASE k = n + 1
      BY <1>3, <1>5, <2>1, <3>2 DEF KindsIn
    <3> QED
      BY <3>1, <3>2
  <2>2. ASSUME NEW j \in 1..Len(p.stack), NEW k \in 1..Len(p.stack), j # k
        PROVE  p.stack[j].owns \cap p.stack[k].owns = {}
    <3>1. CASE j # n + 1 /\ k # n + 1
      BY <1>1, <1>3, <1>5, <2>2, <3>1, SMTT(60) DEF Sound, StackOK
    <3>2. CASE j = n + 1
      BY <1>1, <1>3, <1>5, <2>2, <3>2 DEF Sound, Stacked
    <3>3. CASE k = n + 1
      BY <1>1, <1>3, <1>5, <2>2, <3>3, SMTT(60) DEF Sound, Stacked
    <3> QED
      BY <3>1, <3>2, <3>3
  <2> QED
    BY <2>1, <2>2 DEF StackOK
<1>8. TablesOK(p) /\ Tabled(p) = Tabled(m)
  BY <1>5 DEF Sound, TablesOK, Tabled
<1>9. Stacked(p) \cup Tabled(p) \cup held = Stacked(m) \cup Tabled(m) \cup (held \cup owns)
  BY <1>6, <1>8
<1>10. Forest(p.heap, Stacked(p) \cup Tabled(p) \cup held, p.dropped)
  BY <1>5, <1>9 DEF Sound
<1>11. Sound(p, held)
  BY <1>5, <1>6, <1>7, <1>8, <1>10 DEF Sound
<1> QED
  BY <1>11 DEF p

\* What an allocation changes.
LEMMA AllocFields ==
  ASSUME NEW m, IsMem(m), NEW kind, NEW parts
  PROVE  LET g == Alloc(m, kind, parts)
         IN  /\ g.stack = m.stack
             /\ g.heap[Fresh(m)].kind = kind
<1> DEFINE h == [i \in DOMAIN m.heap \cup {Fresh(m)} |->
                   IF i = Fresh(m) THEN [kind |-> kind, parts |-> parts] ELSE m.heap[i]]
<1>1. Alloc(m, kind, parts) = [m EXCEPT !.heap = h]
  BY DEF Alloc
<1>2. h[Fresh(m)].kind = kind
  OBVIOUS
<1> HIDE DEF h
<1> QED
  BY <1>1, <1>2 DEF IsMem

\* A new object takes parts from the hand and stays in it.
LEMMA AllocSound ==
  ASSUME NEW m, NEW held, NEW parts, Sound(m, held \cup parts), held \cap parts = {},
         NEW kind \in HeapKinds, KindsIn(m, parts, Frees[kind])
  PROVE  LET g == Alloc(m, kind, parts)
         IN  /\ Sound(g, held \cup {Fresh(m)})
             /\ Fresh(m) \notin held
<1> DEFINE n == Fresh(m)
           g == Alloc(m, kind, parts)
           h == [i \in DOMAIN m.heap \cup {n} |->
                   IF i = n THEN [kind |-> kind, parts |-> parts] ELSE m.heap[i]]
           R == Stacked(m) \cup Tabled(m)
<1>1. n \in Nat \ {0} /\ n \notin DOMAIN m.heap
  BY FreshFacts DEF Sound, Forest, HeapOK
<1>2. g = [heap |-> h, stack |-> m.stack, keys |-> m.keys,
           lost |-> m.lost, dropped |-> m.dropped]
  <2>1. g = [m EXCEPT !.heap = h]
    BY DEF Alloc
  <2> HIDE DEF h, g
  <2> QED
    BY <2>1 DEF Sound, IsMem
<1> HIDE DEF n
<1>3. /\ DOMAIN h = DOMAIN m.heap \cup {n} /\ \A i \in DOMAIN m.heap : h[i] = m.heap[i]
      /\ h[n].kind = kind /\ h[n].parts = parts
  BY <1>1
<1> HIDE DEF h, g
<1>4. IsMem(g) /\ g.heap = h /\ g.stack = m.stack /\ g.keys = m.keys /\ g.dropped = m.dropped
  BY <1>2 DEF Sound, IsMem
<1>5. Stacked(g) = Stacked(m) /\ Tabled(g) = Tabled(m)
  BY <1>4 DEF Stacked, Tabled
<1>6. R \cup (held \cup parts) \subseteq DOMAIN m.heap /\ n \notin R \cup (held \cup parts)
  BY <1>1 DEF Sound, Forest
<1>7. StackOK(g)
  BY <1>3, <1>4, <1>6 DEF Sound, StackOK, Stacked
<1>8. TablesOK(g)
  BY <1>3, <1>4, <1>5, <1>6 DEF Sound, TablesOK
<1>9. Forest(h, ((R \cup (held \cup parts)) \ parts) \cup {n}, m.dropped)
  <2>1. Forest(m.heap, R \cup (held \cup parts), m.dropped)
    BY DEF Sound
  <2>2. parts \in SUBSET (R \cup (held \cup parts))
    OBVIOUS
  <2> HIDE DEF R
  <2> QED
    BY <1>1, <1>3, <2>1, <2>2, AllocForest DEF KindsIn
<1>10. ((R \cup (held \cup parts)) \ parts) \cup {n} = R \cup (held \cup {n})
  BY DEF Sound
<1>11. Sound(g, held \cup {n})
  BY <1>4, <1>5, <1>6, <1>7, <1>8, <1>9, <1>10 DEF Sound
<1> QED
  BY <1>6, <1>11 DEF n, g

\* Values in the hand are freed with everything below them.
LEMMA FreeSound ==
  ASSUME NEW m, NEW held, NEW ids, Sound(m, held \cup ids), held \cap ids = {}
  PROVE  /\ Sound(Free(m, ids), held)
         /\ Free(m, ids).stack = m.stack /\ Free(m, ids).keys = m.keys
         /\ Free(m, ids).dropped = m.dropped
<1> DEFINE X == Reached(m.heap, ids, Frees)
           h == HeapWithout(m.heap, X)
           f == Free(m, ids)
           R == Stacked(m) \cup Tabled(m)
<1>1. Forest(m.heap, R \cup (held \cup ids), m.dropped) /\ ids \in SUBSET (R \cup (held \cup ids))
  BY DEF Sound
<1>2. IsTrees(m.heap, ids, X)
  <2>1. ids \in SUBSET DOMAIN m.heap /\ HeapOK(m.heap)
    BY <1>1 DEF Forest
  <2> QED
    BY <2>1, ReachedFacts
<1>3. f = [heap |-> h, stack |-> m.stack, keys |-> m.keys,
           lost |-> m.lost, dropped |-> m.dropped]
  <2>1. f = [m EXCEPT !.heap = h]
    BY DEF Free, Without, HeapWithout
  <2> HIDE DEF f, h
  <2> QED
    BY <2>1 DEF Sound, IsMem
<1> HIDE DEF X, f
<1>4. IsMem(f) /\ f.heap = h /\ f.stack = m.stack /\ f.keys = m.keys /\ f.dropped = m.dropped
  BY <1>3 DEF Sound, IsMem
<1>5. Stacked(f) = Stacked(m) /\ Tabled(f) = Tabled(m)
  BY <1>4 DEF Stacked, Tabled
<1>6. X \cap (R \cup (held \cup ids)) = ids
  BY <1>1, <1>2, TreesApart
<1>7. Forest(h, (R \cup (held \cup ids)) \ ids, m.dropped)
  BY <1>1, <1>2, FreeForest
<1>8. (R \cup (held \cup ids)) \ ids = R \cup held /\ R \cap ids = {}
  BY DEF Sound
<1>9. \A i \in R : h[i] = m.heap[i]
  BY <1>1, <1>6, <1>8 DEF HeapWithout, Forest
<1> HIDE DEF h
<1>10. StackOK(f)
  <2>1. \A k \in 1..Len(f.stack) : f.stack[k].owns \subseteq R
    BY <1>4 DEF Stacked
  <2> QED
    BY <1>4, <1>9, <2>1 DEF Sound, StackOK
<1>11. TablesOK(f)
  BY <1>4, <1>5, <1>9 DEF Sound, TablesOK
<1>12. Sound(f, held)
  BY <1>4, <1>5, <1>7, <1>8, <1>10, <1>11 DEF Sound
<1> QED
  BY <1>4, <1>12 DEF f

\* YYERROR drops what it pops.
LEMMA DropSound ==
  ASSUME NEW m, NEW held, Sound(m, held), NEW k \in 0..Len(m.stack)
  PROVE  /\ Sound(Drop(m, k), held)
         /\ Drop(m, k).stack = Popped(m, k).stack
<1> DEFINE p == Popped(m, k)
           ids == Owned(m, k)
           X == Reached(m.heap, ids, Frees)
           d == Drop(m, k)
           R == Stacked(p) \cup Tabled(p)
<1>1. Sound(p, held \cup ids) /\ ids \cap held = {} /\ ids \subseteq DOMAIN m.heap
  BY PopSound
<1>2. IsMem(p) /\ p.heap = m.heap /\ p.dropped = m.dropped
  BY PoppedFields DEF Sound
<1>3. d = [heap |-> m.heap, stack |-> p.stack, keys |-> p.keys,
           lost |-> p.lost, dropped |-> m.dropped \cup X]
  <2>1. d = [p EXCEPT !.dropped = @ \cup X]
    BY DEF Drop
  <2> HIDE DEF d, p, X
  <2> QED
    BY <1>2, <2>1 DEF IsMem
<1> HIDE DEF p, d, ids, X
<1>4. IsMem(d) /\ d.heap = p.heap /\ d.stack = p.stack /\ d.keys = p.keys /\ d.dropped = p.dropped \cup X
  BY <1>2, <1>3 DEF IsMem
<1>5. Stacked(d) = Stacked(p) /\ Tabled(d) = Tabled(p)
  BY <1>4 DEF Stacked, Tabled
<1>6. StackOK(d) /\ TablesOK(d)
  <2>1. StackOK(d)
    BY <1>1, <1>4 DEF Sound, StackOK
  <2>2. TablesOK(d)
    BY <1>1, <1>4, <1>5 DEF Sound, TablesOK
  <2> QED
    BY <2>1, <2>2
<1>7. Forest(p.heap, R \cup (held \cup ids), p.dropped) /\ ids \in SUBSET (R \cup (held \cup ids))
  BY <1>1 DEF Sound
<1>8. IsTrees(p.heap, ids, X)
  <2>1. HeapOK(p.heap) /\ ids \in SUBSET DOMAIN m.heap
    BY <1>1, <1>7 DEF Forest
  <2> QED
    BY <1>2, <2>1, ReachedFacts DEF X
<1>9. Forest(p.heap, (R \cup (held \cup ids)) \ ids, p.dropped \cup X)
  BY <1>7, <1>8, DropForest
<1>10. (R \cup (held \cup ids)) \ ids = R \cup held /\ held \cap (Stacked(p) \cup Tabled(p)) = {}
  BY <1>1 DEF Sound
<1>11. Stacked(p) \cap Tabled(p) = {}
  BY <1>1 DEF Sound
<1>12. Sound(d, held)
  BY <1>4, <1>5, <1>6, <1>9, <1>10, <1>11 DEF Sound
<1> QED
  BY <1>4, <1>12 DEF d, p

Tables == {"idents", "variables"}

\* A registry gets a key of its own.
LEMMA AddKeySound ==
  ASSUME NEW m, NEW held, Sound(m, held), NEW table \in Tables
  PROVE  Sound(AddKey(m, table), held) /\ AddKey(m, table).stack = m.stack
<1> DEFINE n == Fresh(m)
           g == Alloc(m, "key", {})
           d == AddKey(m, table)
<1>1. /\ Sound(g, held \cup {n}) /\ n \notin held
      /\ g.stack = m.stack /\ g.heap[n].kind = "key"
  <2>1. /\ "key" \in HeapKinds /\ held \cup {} = held /\ held \cap {} = {}
        /\ KindsIn(m, {}, Frees["key"])
    BY DEF HeapKinds, KindsIn
  <2>2. Sound(g, held \cup {n}) /\ n \notin held
    BY <2>1, AllocSound
  <2> QED
    BY <2>2, AllocFields DEF Sound
<1>2. d = [g EXCEPT !.keys[table] = @ \cup {n}]
  BY DEF AddKey
<1> HIDE DEF g, d, n
<1>3. /\ IsMem(d) /\ d.heap = g.heap /\ d.stack = g.stack /\ d.dropped = g.dropped
      /\ d.keys.idents = g.keys.idents \cup IF table = "idents" THEN {n} ELSE {}
      /\ d.keys.variables = g.keys.variables \cup IF table = "variables" THEN {n} ELSE {}
  <2> DEFINE k == [g.keys EXCEPT ![table] = @ \cup {n}]
  <2>1. n \in Nat
    BY <1>1 DEF Sound, Forest, HeapOK
  <2>2. /\ k \in [idents : SUBSET Nat, variables : SUBSET Nat]
        /\ k.idents = g.keys.idents \cup IF table = "idents" THEN {n} ELSE {}
        /\ k.variables = g.keys.variables \cup IF table = "variables" THEN {n} ELSE {}
    BY <1>1, <2>1 DEF Sound, IsMem, Tables
  <2>3. d = [g EXCEPT !.keys = k]
    BY <1>2
  <2> HIDE DEF k
  <2>4. d = [heap |-> g.heap, stack |-> g.stack, keys |-> k, lost |-> g.lost,
             dropped |-> g.dropped]
    BY <1>1, <2>3 DEF Sound, IsMem
  <2> QED
    BY <1>1, <2>2, <2>4 DEF Sound, IsMem
<1>4. Stacked(d) = Stacked(g) /\ Tabled(d) = Tabled(g) \cup {n}
  BY <1>3 DEF Stacked, Tabled, Tables
<1>5. n \notin Tabled(g) /\ n \notin Stacked(g)
  BY <1>1 DEF Sound
<1>6. StackOK(d)
  BY <1>1, <1>3 DEF Sound, StackOK
<1>7. TablesOK(d)
  BY <1>1, <1>3, <1>4, <1>5 DEF Sound, TablesOK, Tabled
<1>8. Stacked(d) \cup Tabled(d) \cup held = Stacked(g) \cup Tabled(g) \cup (held \cup {n})
  BY <1>4
<1>9. Forest(d.heap, Stacked(d) \cup Tabled(d) \cup held, d.dropped)
  BY <1>1, <1>3, <1>8 DEF Sound
<1>10. Sound(d, held)
  BY <1>1, <1>3, <1>4, <1>5, <1>6, <1>7, <1>9 DEF Sound
<1> QED
  BY <1>1, <1>3, <1>10 DEF d

\* A registry frees its keys and is empty.
LEMMA ResetTableSound ==
  ASSUME NEW m, Sound(m, {}), NEW table \in Tables
  PROVE  Sound(ResetTable(m, table), {}) /\ ResetTable(m, table).stack = m.stack
<1> DEFINE ids == m.keys[table]
           k == [m.keys EXCEPT ![table] = {}]
           e == [m EXCEPT !.keys = k]
           f == Free(e, ids)
           d == ResetTable(m, table)
<1>1. /\ k \in [idents : SUBSET Nat, variables : SUBSET Nat]
      /\ k.idents = m.keys.idents \ IF table = "idents" THEN ids ELSE {}
      /\ k.variables = m.keys.variables \ IF table = "variables" THEN ids ELSE {}
      /\ ids = IF table = "idents" THEN m.keys.idents ELSE m.keys.variables
  BY DEF Sound, IsMem, Tables
<1>2. e = [heap |-> m.heap, stack |-> m.stack, keys |-> k, lost |-> m.lost, dropped |-> m.dropped]
  <2> HIDE DEF k
  <2> QED
    BY DEF Sound, IsMem
<1> HIDE DEF ids, e, k
<1>3. IsMem(e) /\ e.heap = m.heap /\ e.stack = m.stack /\ e.keys = k /\ e.dropped = m.dropped
  BY <1>1, <1>2 DEF Sound, IsMem
<1>4. Stacked(e) = Stacked(m) /\ Tabled(m) = Tabled(e) \cup ids
  BY <1>1, <1>3 DEF Stacked, Tabled, Tables
<1>5. Tabled(e) \cap ids = {}
  BY <1>1, <1>3 DEF Tabled, Tables, Sound, TablesOK
<1>6. Sound(e, ids)
  <2>1. StackOK(e)
    BY <1>3 DEF Sound, StackOK
  <2>2. TablesOK(e)
    BY <1>1, <1>3, <1>4 DEF Sound, TablesOK
  <2>3. Stacked(e) \cup Tabled(e) \cup ids = Stacked(m) \cup Tabled(m) \cup {}
    BY <1>4
  <2> QED
    BY <1>3, <1>4, <1>5, <2>1, <2>2, <2>3 DEF Sound
<1>7. Sound(f, {}) /\ f.stack = m.stack
  <2>1. {} \cup ids = ids /\ {} \cap ids = {}
    OBVIOUS
  <2> QED
    BY <1>3, <1>6, <2>1, FreeSound
<1>8. d = f
  <2> DEFINE h == [i \in DOMAIN m.heap \ Reached(m.heap, ids, Frees) |-> m.heap[i]]
  <2>1. f = [e EXCEPT !.heap = h]
    BY <1>3 DEF Free, Without
  <2>2. d = [[m EXCEPT !.heap = h] EXCEPT !.keys[table] = {}]
    BY DEF ResetTable, Free, Without, ids
  <2> HIDE DEF h, d, f
  <2>3. f = [heap |-> h, stack |-> m.stack, keys |-> k, lost |-> m.lost, dropped |-> m.dropped]
    BY <1>2, <2>1
  <2> DEFINE g == [heap |-> h, stack |-> m.stack, keys |-> m.keys, lost |-> m.lost,
                   dropped |-> m.dropped]
  <2>4. [m EXCEPT !.heap = h] = g
    BY DEF Sound, IsMem
  <2>5. d = [g EXCEPT !.keys = [m.keys EXCEPT ![table] = {}]]
    BY <2>2, <2>4
  <2>6. d = [g EXCEPT !.keys = k]
    BY <2>5 DEF k
  <2>7. d = [heap |-> h, stack |-> m.stack, keys |-> k, lost |-> m.lost, dropped |-> m.dropped]
    BY <2>6
  <2> QED
    BY <2>3, <2>7
<1> QED
  BY <1>7, <1>8 DEF d

\* Between two steps what YYERROR dropped is lost, and nothing else.
LEMMA SettledSound ==
  ASSUME NEW m, Sound(m, {})
  PROVE  LET s == Settled(m)
         IN  /\ s.lost = s.dropped /\ s.stack = m.stack
             /\ Sound([s EXCEPT !.lost = {}, !.dropped = {}], {})
<1> DEFINE R == Stacked(m) \cup Tabled(m)
           tops == DOMAIN m.heap \ (R \cup PartsIn(m.heap))
           D == m.dropped
           h == HeapWithout(m.heap, D)
           s == Settled(m)
           t == [s EXCEPT !.lost = {}, !.dropped = {}]
<1>1. Forest(m.heap, R, D)
  <2>1. R \cup {} = R
    OBVIOUS
  <2> QED
    BY <2>1 DEF Sound
<1>2. /\ tops = {} => D = {}
      /\ Reached(m.heap, tops, AllParts) = D
      /\ Forest(h, R, {})
  BY <1>1, SettleForest
<1>3. tops = DOMAIN m.heap \ Pointed(m)
  <2>1. Owned(m, Len(m.stack)) = Stacked(m)
    <3>1. Len(m.stack) \in Nat
      BY DEF Sound, IsMem
    <3>2. Len(m.stack) - Len(m.stack) + 1 = 1
      BY <3>1
    <3> QED
      BY <3>2 DEF Owned, Stacked
  <2> QED
    BY <2>1 DEF Pointed, PartsIn, Tabled
<1>4. s = [Without(m, D) EXCEPT !.lost = D]
  <2>1. (IF tops = {} THEN {} ELSE Reached(m.heap, tops, AllParts)) = D
    BY <1>2
  <2> HIDE DEF tops
  <2> QED
    BY <1>3, <2>1 DEF Settled
<1>5. Without(m, D) = [heap |-> h, stack |-> m.stack, keys |-> m.keys,
                       lost |-> m.lost, dropped |-> D]
  <2>1. Without(m, D) = [m EXCEPT !.heap = h]
    BY DEF Without, HeapWithout
  <2> HIDE DEF h
  <2> QED
    BY <2>1 DEF Sound, IsMem
<1> HIDE DEF s
<1>6. s = [heap |-> h, stack |-> m.stack, keys |-> m.keys, lost |-> D, dropped |-> D]
  BY <1>4, <1>5
<1>7. t = [heap |-> h, stack |-> m.stack, keys |-> m.keys, lost |-> {}, dropped |-> {}]
  <2> HIDE DEF h
  <2>1. t = [[s EXCEPT !.lost = {}] EXCEPT !.dropped = {}]
    OBVIOUS
  <2> HIDE DEF t
  <2>2. [s EXCEPT !.lost = {}] =
          [heap |-> h, stack |-> m.stack, keys |-> m.keys, lost |-> {}, dropped |-> D]
    BY <1>6
  <2> QED
    BY <2>1, <2>2
<1> HIDE DEF t
<1>8. IsMem(t) /\ t.heap = h /\ t.stack = m.stack /\ t.keys = m.keys /\ t.dropped = {}
  BY <1>7 DEF Sound, IsMem
<1>9. Stacked(t) = Stacked(m) /\ Tabled(t) = Tabled(m)
  BY <1>8 DEF Stacked, Tabled
<1>10. \A i \in R : h[i] = m.heap[i]
  BY <1>1 DEF HeapWithout, Forest
<1> HIDE DEF h
<1>11. StackOK(t)
  <2>1. \A k \in 1..Len(t.stack) : t.stack[k].owns \subseteq R
    BY <1>8 DEF Stacked
  <2> QED
    BY <1>8, <1>10, <2>1 DEF Sound, StackOK
<1>12. TablesOK(t)
  BY <1>8, <1>9, <1>10 DEF Sound, TablesOK
<1>13. Sound(t, {})
  <2>1. Stacked(t) \cup Tabled(t) \cup {} = R
    BY <1>9
  <2> QED
    BY <1>2, <1>8, <1>9, <1>11, <1>12, <2>1 DEF Sound
<1> QED
  BY <1>6, <1>13 DEF s, t
-----------------------------------------------------------------------------
(* The stack of a state, by its symbols.                                   *)

Shaped(m, s) ==
  /\ Len(m.stack) = Len(s)
  /\ \A k \in 1..Len(s) : m.stack[k].sym = s[k]

Mem(m, held, s) == Sound(m, held) /\ Shaped(m, s)

\* t is s without the top k symbols.
Cuts(s, k, t) ==
  /\ k \in Nat /\ Len(t) \in Nat /\ Len(s) = Len(t) + k
  /\ \A i \in 1..Len(t) : t[i] = s[i]

\* v is t with one more symbol.
Adds(t, sym, v) ==
  /\ Len(t) \in Nat /\ Len(v) = Len(t) + 1
  /\ \A i \in 1..Len(t) : v[i] = t[i]
  /\ v[Len(v)] = sym

\* What s has above t owns objects of these kinds only.
TopHolds(s, t, kinds) == \A j \in Len(t) + 1..Len(s) : Holds[s[j]] \subseteq kinds

\* t is s down to the topmost sym.
Uncovers(s, sym, t) ==
  /\ Len(t) \in Nat \ {0} /\ Len(s) \in Nat /\ Len(t) <= Len(s)
  /\ \A i \in 1..Len(t) : t[i] = s[i]
  /\ t[Len(t)] = sym
  /\ \A j \in Len(t) + 1..Len(s) : s[j] # sym

LEMMA PopMem ==
  ASSUME NEW m, NEW held, NEW s, Mem(m, held, s), NEW k, NEW t, Cuts(s, k, t)
  PROVE  /\ Mem(Popped(m, k), held \cup Owned(m, k), t)
         /\ Popped(m, k).heap = m.heap
         /\ Owned(m, k) \cap held = {} /\ Owned(m, k) \subseteq DOMAIN m.heap
         /\ k \in 0..Len(m.stack)
         /\ \A kinds : TopHolds(s, t, kinds) => /\ KindsIn(m, Owned(m, k), kinds)
                                                /\ KindsIn(Popped(m, k), Owned(m, k), kinds)
<1>1. k \in 0..Len(m.stack) /\ Len(m.stack) = Len(s) /\ Len(s) \in Nat
  BY DEF Mem, Shaped, Cuts
<1>2. /\ Sound(Popped(m, k), held \cup Owned(m, k))
      /\ Owned(m, k) \cap held = {} /\ Owned(m, k) \subseteq DOMAIN m.heap
  BY <1>1, PopSound DEF Mem
<1>3. /\ Popped(m, k).heap = m.heap
      /\ Len(Popped(m, k).stack) = Len(m.stack) - k
      /\ \A i \in 1..Len(Popped(m, k).stack) : Popped(m, k).stack[i] = m.stack[i]
  BY <1>1, PoppedFields DEF Mem, Sound
<1>4. Shaped(Popped(m, k), t)
  <2>1. Len(Popped(m, k).stack) = Len(t) /\ \A i \in 1..Len(t) : i \in 1..Len(s)
    BY <1>1, <1>3 DEF Cuts
  <2> QED
    BY <1>3, <2>1 DEF Mem, Shaped, Cuts
<1>5. ASSUME NEW kinds, TopHolds(s, t, kinds), NEW i \in Owned(m, k)
      PROVE  m.heap[i].kind \in kinds
  <2>1. PICK j \in Len(m.stack) - k + 1..Len(m.stack) : i \in m.stack[j].owns
    BY DEF Owned
  <2>2. j \in 1..Len(m.stack) /\ j \in Len(t) + 1..Len(s)
    BY <1>1, <2>1 DEF Cuts
  <2>3. m.heap[i].kind \in Holds[s[j]]
    BY <1>1, <2>1, <2>2 DEF Mem, Sound, StackOK, Shaped
  <2> QED
    BY <1>5, <2>2, <2>3 DEF TopHolds
<1> QED
  BY <1>1, <1>2, <1>3, <1>4, <1>5 DEF Mem, KindsIn

\* A name is read.
LEMMA PushNameMem ==
  ASSUME NEW m, NEW held, NEW s, Mem(m, held, s), NEW v, Adds(s, "name", v)
  PROVE  Mem(PushName(m), held, v)
<1> DEFINE n == Fresh(m)
           g == Alloc(m, "name", {})
           p == Push(g, "name", {n})
<1>1. "name" \in HeapKinds /\ "name" \in Symbols /\ Holds["name"] = {"name"}
  BY DEF HeapKinds, Symbols, Holds
<1>2. /\ Sound(g, held \cup {n}) /\ n \notin held
      /\ g.stack = m.stack /\ g.heap[n].kind = "name"
  <2>1. /\ held \cup {} = held /\ held \cap {} = {}
        /\ KindsIn(m, {}, Frees["name"])
    BY DEF KindsIn
  <2>2. Sound(m, held) /\ IsMem(m)
    BY DEF Mem, Sound
  <2>3. Sound(g, held \cup {n}) /\ n \notin held
    BY <1>1, <2>1, <2>2, AllocSound
  <2> QED
    BY <2>2, <2>3, AllocFields
<1> HIDE DEF n, g
<1>3. /\ Sound(p, held)
      /\ Len(p.stack) = Len(g.stack) + 1
      /\ \A i \in 1..Len(g.stack) : p.stack[i] = g.stack[i]
      /\ p.stack[Len(g.stack) + 1].sym = "name"
  <2>1. held \cap {n} = {} /\ KindsIn(g, {n}, Holds["name"])
    BY <1>1, <1>2 DEF KindsIn
  <2>2. Sound(p, held)
    BY <1>1, <1>2, <2>1, PushSound
  <2>3. IsMem(g)
    BY <1>2 DEF Sound
  <2> QED
    BY <2>2, <2>3, PushFields
<1>4. p = PushName(m)
  BY DEF PushName, n, g
<1> HIDE DEF p
<1>5. Shaped(p, v)
  BY <1>2, <1>3, SMTT(60) DEF Mem, Shaped, Adds
<1> QED
  BY <1>3, <1>4, <1>5 DEF Mem

\* A reduction builds an object out of the top of the stack.
LEMMA MakeMem ==
  ASSUME NEW m, NEW held, NEW s, Mem(m, held, s), NEW k, NEW t, Cuts(s, k, t),
         NEW kind \in HeapKinds, TopHolds(s, t, Frees[kind]), NEW v, Adds(t, kind, v)
  PROVE  Mem(Make(m, k, kind), held, v)
<1> DEFINE n == Fresh(m)
           ids == Owned(m, k)
           p == Popped(m, k)
           g == Alloc(p, kind, ids)
           q == Push(g, kind, {n})
<1>1. kind \in Symbols /\ Holds[kind] = {kind}
  BY DEF HeapKinds, Symbols, Holds
<1>2. /\ Sound(p, held \cup ids) /\ Shaped(p, t) /\ p.heap = m.heap
      /\ held \cap ids = {} /\ KindsIn(p, ids, Frees[kind])
      /\ IsMem(m) /\ k \in 0..Len(m.stack)
  <2>1. /\ Mem(p, held \cup ids, t) /\ p.heap = m.heap
        /\ ids \cap held = {} /\ KindsIn(p, ids, Frees[kind])
        /\ k \in 0..Len(m.stack)
    BY PopMem
  <2> QED
    BY <2>1 DEF Mem, Sound
<1>3. Fresh(p) = n
  BY <1>2 DEF Fresh
<1> HIDE DEF n, ids, p
<1>4. /\ Sound(g, held \cup {n}) /\ n \notin held
      /\ g.stack = p.stack /\ g.heap[n].kind = kind
  <2>1. Sound(g, held \cup {n}) /\ n \notin held
    BY <1>2, <1>3, AllocSound
  <2> QED
    BY <1>2, <1>3, <2>1, AllocFields DEF Sound
<1>6. g = [Alloc(m, kind, ids) EXCEPT !.stack = p.stack]
  <2>1. p = [m EXCEPT !.stack = p.stack]
    <3>1. p = [m EXCEPT !.stack = SubSeq(m.stack, 1, Len(m.stack) - k)]
      BY DEF Popped, p
    <3> QED
      BY <1>2, <3>1 DEF IsMem
  <2> DEFINE h == [i \in DOMAIN m.heap \cup {n} |->
                     IF i = n THEN [kind |-> kind, parts |-> ids] ELSE m.heap[i]]
  <2>2. g = [p EXCEPT !.heap = h]
    BY <1>2, <1>3 DEF Alloc
  <2>3. Alloc(m, kind, ids) = [m EXCEPT !.heap = h]
    BY DEF Alloc, n
  <2> HIDE DEF h, g
  <2> QED
    BY <1>2, <2>1, <2>2, <2>3 DEF IsMem
<1>7. Alloc(m, kind, ids).stack = m.stack
  BY <1>2 DEF Alloc, IsMem
<1> HIDE DEF g
<1>8. g = Popped(Alloc(m, kind, ids), k)
  <2>1. p.stack = SubSeq(m.stack, 1, Len(m.stack) - k)
    BY <1>2 DEF p, Popped, IsMem
  <2> QED
    BY <1>6, <1>7, <2>1 DEF Popped
<1>9. /\ Sound(q, held)
      /\ Len(q.stack) = Len(g.stack) + 1
      /\ \A i \in 1..Len(g.stack) : q.stack[i] = g.stack[i]
      /\ q.stack[Len(g.stack) + 1].sym = kind
  <2>1. held \cap {n} = {} /\ KindsIn(g, {n}, Holds[kind])
    BY <1>1, <1>4 DEF KindsIn
  <2>2. Sound(q, held)
    BY <1>1, <1>4, <2>1, PushSound
  <2>3. IsMem(g)
    BY <1>4 DEF Sound
  <2> QED
    BY <2>2, <2>3, PushFields
<1>10. q = Make(m, k, kind)
  BY <1>8 DEF Make, n, ids
<1> HIDE DEF q
<1>11. Shaped(q, v)
  BY <1>2, <1>4, <1>9, SMTT(60) DEF Shaped, Adds
<1> QED
  BY <1>9, <1>10, <1>11 DEF Mem

\* A reduction strings the top of the stack together.
LEMMA GatherMem ==
  ASSUME NEW m, NEW held, NEW s, Mem(m, held, s), NEW k, NEW t, Cuts(s, k, t),
         NEW sym \in Symbols, TopHolds(s, t, Holds[sym]), NEW v, Adds(t, sym, v)
  PROVE  Mem(Gather(m, k, sym), held, v)
<1> DEFINE ids == Owned(m, k)
           p == Popped(m, k)
           q == Push(p, sym, ids)
<1>1. /\ Sound(p, held \cup ids) /\ Shaped(p, t)
      /\ held \cap ids = {} /\ KindsIn(p, ids, Holds[sym])
  <2>1. /\ Mem(p, held \cup ids, t) /\ p.heap = m.heap
        /\ ids \cap held = {} /\ KindsIn(p, ids, Holds[sym])
    BY PopMem
  <2> QED
    BY <2>1 DEF Mem
<1> HIDE DEF ids, p
<1>3. /\ Sound(q, held)
      /\ Len(q.stack) = Len(p.stack) + 1
      /\ \A i \in 1..Len(p.stack) : q.stack[i] = p.stack[i]
      /\ q.stack[Len(p.stack) + 1].sym = sym
  <2>1. Sound(q, held)
    BY <1>1, PushSound
  <2> QED
    BY <1>1, <2>1, PushFields DEF Sound
<1>4. q = Gather(m, k, sym)
  BY DEF Gather, p, ids
<1> HIDE DEF q
<1>5. Shaped(q, v)
  BY <1>1, <1>3 DEF Shaped, Adds
<1> QED
  BY <1>3, <1>4, <1>5 DEF Mem

\* The top of the stack is destroyed, or dropped.
LEMMA DestroyMem ==
  ASSUME NEW m, NEW held, NEW s, Mem(m, held, s), NEW k, NEW t, Cuts(s, k, t)
  PROVE  Mem(Destroy(m, k), held, t) /\ Mem(Drop(m, k), held, t)
<1> DEFINE ids == Owned(m, k)
           p == Popped(m, k)
<1>1. /\ Sound(p, held \cup ids) /\ Shaped(p, t) /\ held \cap ids = {}
      /\ k \in 0..Len(m.stack)
  BY PopMem DEF Mem
<1> HIDE DEF ids, p
<1>2. Sound(Free(p, ids), held) /\ Free(p, ids).stack = p.stack
  BY <1>1, FreeSound
<1>4. Destroy(m, k) = Free(p, ids)
  BY DEF Destroy, p, ids
<1>5. Mem(Destroy(m, k), held, t)
  BY <1>1, <1>2, <1>4 DEF Mem, Shaped
<1>6. Sound(Drop(m, k), held) /\ Drop(m, k).stack = p.stack
  BY <1>1, DropSound DEF Mem, p
<1> QED
  BY <1>1, <1>5, <1>6 DEF Mem, Shaped

\* Recovery destroys the stack down to a symbol.
LEMMA UnwindMem ==
  ASSUME NEW m, NEW held, NEW s, Mem(m, held, s), NEW sym, NEW t, Uncovers(s, sym, t)
  PROVE  Mem(Unwind(m, sym), held, t)
<1> DEFINE at == {i \in DOMAIN m.stack : m.stack[i].sym = sym}
<1>1. Len(m.stack) = Len(s) /\ DOMAIN m.stack = 1..Len(s)
  BY DEF Mem, Shaped, Sound, IsMem
<1>2. Len(t) \in at /\ \A i \in at : Len(t) >= i /\ i \in Nat
  BY <1>1 DEF Mem, Shaped, Uncovers
<1>3. Max(at) = Len(t)
  <2>1. Max(at) \in at /\ \A i \in at : Max(at) >= i
    <3> HIDE DEF at
    <3> QED
      BY <1>2 DEF Max
  <2> HIDE DEF at
  <2> QED
    BY <1>2, <2>1
<1>4. Above(m, sym) = Len(s) - Len(t)
  BY <1>1, <1>3 DEF Above
<1>5. Cuts(s, Len(s) - Len(t), t)
  BY DEF Uncovers, Cuts
<1>6. Mem(Destroy(m, Len(s) - Len(t)), held, t)
  BY <1>5, DestroyMem
<1> QED
  BY <1>4, <1>6 DEF Unwind

\* The registries leave the stack alone.
LEMMA KeyMem ==
  ASSUME NEW m, NEW s, Mem(m, {}, s), NEW table \in Tables
  PROVE  Mem(AddKey(m, table), {}, s) /\ Mem(ResetTable(m, table), {}, s)
BY AddKeySound, ResetTableSound DEF Mem, Shaped
-----------------------------------------------------------------------------
(* The inductive invariant: what is on the stack in every state.           *)

Chain   == <<"chain">>
Plain   == <<"chain", "body">>
Named   == <<"chain", "body", "name">>
Listed  == <<"chain", "body", "name", "enumBody">>
Headed  == <<"chain", "body", "modifier">>
Titled  == <<"chain", "body", "modifier", "name">>
Braces  == <<"chain", "body", "modifier", "name", "variables">>
Typed   == <<"chain", "body", "modifier", "name", "variables", "vartype", "array">>
Lined   == <<"chain", "body", "modifier", "name", "variables", "vartype", "array",
             "declarators">>
Padded == <<"chain", "body", "modifier", "name", "variables", "vartype", "array",
             "declarators", "align">>

\* The enum before its next member; a member on top waits for its value.
Members0 == IF decl.members = <<>> THEN Named ELSE Listed
Members1 == IF decl.members = <<>> THEN <<"chain", "body", "name", "name">>
                                   ELSE <<"chain", "body", "name", "enumBody", "name">>

Stack(s) == Mem(Now, {}, s)

StackInv ==
  /\ pc \in {"version", "versionNumber", "versionSemi", "versionBad", "namespace",
             "accepted", "aborted"} => Stack(<<>>)
  /\ pc = "namespaceName" => Stack(<<>>) \/ Stack(Chain)
  /\ pc = "namespaceNext" => Stack(Chain)
  /\ pc \in {"body", "bodyError", "aliasName", "enumType", "enumName"} => Stack(Plain)
  /\ pc \in {"aliasType", "aliasSemi", "enumBrace"} => Stack(Named)
  /\ pc = "member" => Stack(Members0)
  /\ pc \in {"memberNext", "memberNumber"} => Stack(Members1)
  /\ pc = "memberSep" => Stack(Listed) /\ decl.members # <<>>
  /\ pc \in {"modifier", "structName"} => Stack(Headed)
  /\ pc = "structBrace" => Stack(Titled)
  /\ pc \in {"fields", "fieldsError"} => Stack(Braces)
  /\ pc = "array" => Stack(Typed)
  /\ pc \in {"declarator", "declNext"} => Stack(Lined)
  /\ pc = "fieldSemi" => Stack(Padded)

MemInv == StackInv /\ mem.lost = mem.dropped

\* After a step the stack is s, and what YYERROR dropped is lost.
After(s) == Mem(Now', {}, s) /\ mem'.lost = mem'.dropped

\* The part of Does that is about the memory.
Settles(m) ==
  \E n \in {IF variables' = {} THEN ResetTable(m, "variables") ELSE m} : mem' = Settled(n)

LEMMA SettlesMem ==
  ASSUME NEW m, NEW s, Mem(m, {}, s), Settles(m)
  PROVE  After(s)
<1> DEFINE n == IF variables' = {} THEN ResetTable(m, "variables") ELSE m
<1>1. Mem(n, {}, s)
  BY KeyMem DEF Tables
<1>2. mem' = Settled(n)
  BY DEF Settles
<1> HIDE DEF n
<1>3. /\ Settled(n).lost = Settled(n).dropped /\ Settled(n).stack = n.stack
      /\ Sound([Settled(n) EXCEPT !.lost = {}, !.dropped = {}], {})
  BY <1>1, SettledSound DEF Mem
<1>4. Now' = [Settled(n) EXCEPT !.lost = {}, !.dropped = {}]
  BY <1>2 DEF Now
<1>5. Now'.stack = n.stack
  BY <1>3, <1>4
<1> QED
  BY <1>1, <1>2, <1>3, <1>4, <1>5 DEF After, Mem, Shaped

\* A name is shifted.
LEMMA NameStep ==
  ASSUME IInv, StackInv, NEW n \in Names, DeclName1(n) \/ MemberName1(n)
  PROVE  MemInv'
<1>1. CASE DeclName1(n)
  <2>1. DeclName(n) /\ Settles(PushName(Now))
    BY <1>1 DEF DeclName1, Does, Settles
  <2>2. CASE pc \in {"aliasName", "enumName"}
    <3>1. Mem(Now, {}, Plain)
      BY <2>2 DEF StackInv, Stack
    <3>2. Adds(Plain, "name", Named)
      BY DEF Adds, Plain, Named
    <3>3. After(Named)
      BY <2>1, <3>1, <3>2, PushNameMem, SettlesMem
    <3>4. pc' \in {"aliasType", "enumBrace"}
      BY <2>1, <2>2 DEF DeclName
    <3> QED
      BY <3>3, <3>4 DEF MemInv, StackInv, Stack, After
  <2>3. CASE pc = "structName"
    <3>1. Mem(Now, {}, Headed)
      BY <2>3 DEF StackInv, Stack
    <3>2. Adds(Headed, "name", Titled)
      BY DEF Adds, Headed, Titled
    <3>3. After(Titled)
      BY <2>1, <3>1, <3>2, PushNameMem, SettlesMem
    <3>4. pc' = "structBrace"
      BY <2>1, <2>3 DEF DeclName
    <3> QED
      BY <3>3, <3>4 DEF MemInv, StackInv, Stack, After
  <2> QED
    BY <2>1, <2>2, <2>3 DEF DeclName
<1>2. CASE MemberName1(n)
  <2>1. MemberName(n) /\ Settles(PushName(Now))
    BY <1>2 DEF MemberName1, Does, Settles
  <2>2. /\ pc = "member" /\ pc' = "memberNext"
        /\ decl'.members = decl.members
    BY <2>1 DEF MemberName, IInv, TypeOK, DeclarationType
  <2>3. Mem(Now, {}, Members0)
    BY <2>2 DEF StackInv, Stack
  <2>4. Adds(Members0, "name", Members1)
    BY DEF Adds, Members0, Members1, Named, Listed
  <2>5. After(Members1)
    BY <2>1, <2>3, <2>4, PushNameMem, SettlesMem
  <2>6. Members1' = Members1
    BY <2>2 DEF Members1
  <2> QED
    BY <2>2, <2>5, <2>6 DEF MemInv, StackInv, Stack, After
<1> QED
  BY <1>1, <1>2

\* Nothing happens to the memory.
LEMMA QuietMemStep ==
  ASSUME IInv, StackInv,
         \/ VersionNumber1 \/ MemberEqual1 \/ FieldComma1 \/ Recovery1 \/ LexError1
         \/ \E t \in Types : DeclType1(t)
  PROVE  MemInv'
<1>1. Settles(Now)
  BY DEF VersionNumber1, MemberEqual1, FieldComma1, Recovery1, LexError1, DeclType1, Does, Settles
<1>2. \A s : Mem(Now, {}, s) => After(s)
  BY <1>1, SettlesMem
<1>3. CASE VersionNumber1
  <2>1. pc = "versionNumber" /\ pc' \in {"versionSemi", "versionBad"}
    BY <1>3 DEF VersionNumber1, Does, VersionNumber
  <2>2. After(<<>>)
    BY <1>2, <2>1 DEF StackInv, Stack
  <2> QED
    BY <2>1, <2>2 DEF MemInv, StackInv, Stack, After
<1>4. CASE MemberEqual1
  <2>1. pc = "memberNext" /\ pc' = "memberNumber" /\ decl' = decl
    BY <1>4 DEF MemberEqual1, Does, MemberEqual
  <2>2. After(Members1)
    BY <1>2, <2>1 DEF StackInv, Stack
  <2>3. Members1' = Members1
    BY <2>1 DEF Members1
  <2> QED
    BY <2>1, <2>2, <2>3 DEF MemInv, StackInv, Stack, After
<1>5. CASE FieldComma1
  <2>1. pc = "declNext" /\ pc' = "declarator"
    BY <1>5 DEF FieldComma1, Does, FieldComma
  <2>2. After(Lined)
    BY <1>2, <2>1 DEF StackInv, Stack
  <2> QED
    BY <2>1, <2>2 DEF MemInv, StackInv, Stack, After
<1>6. CASE Recovery1
  <2>1. BodyRecovery \/ FieldsRecovery
    BY <1>6 DEF Recovery1, Does
  <2>2. CASE BodyRecovery
    <3>1. pc = "bodyError" /\ pc' = "body"
      BY <2>2 DEF BodyRecovery, Resume
    <3>2. After(Plain)
      BY <1>2, <3>1 DEF StackInv, Stack
    <3> QED
      BY <3>1, <3>2 DEF MemInv, StackInv, Stack, After
  <2>3. CASE FieldsRecovery
    <3>1. pc = "fieldsError" /\ pc' = "fields"
      BY <2>3 DEF FieldsRecovery
    <3>2. After(Braces)
      BY <1>2, <3>1 DEF StackInv, Stack
    <3> QED
      BY <3>1, <3>2 DEF MemInv, StackInv, Stack, After
  <2> QED
    BY <2>1, <2>2, <2>3
<1>7. CASE LexError1
  <2>1. pc' = pc /\ decl' = decl /\ pc \in States
    BY <1>7 DEF LexError1, Does, LexError, IInv, TypeOK, States
  <2>2. Members0' = Members0 /\ Members1' = Members1
    BY <2>1 DEF Members0, Members1
  <2>3. mem'.lost = mem'.dropped
    <3>1. \E s : Mem(Now, {}, s)
      BY <2>1 DEF StackInv, Stack, States, HeadStates, DeclStates, FieldStates, ErrorStates, Final
    <3> QED
      BY <1>2, <3>1 DEF After
  <2>4. \A s : Mem(Now, {}, s) => Mem(Now', {}, s)
    BY <1>2 DEF After
  <2>5. StackInv'
    BY <2>1, <2>2, <2>4 DEF StackInv, Stack
  <2> QED
    BY <2>3, <2>5 DEF MemInv
<1>8. CASE \E t \in Types : DeclType1(t)
  <2>1. \/ pc = "aliasType" /\ pc' = "aliasSemi"
        \/ pc = "enumType" /\ pc' = "enumName"
    BY <1>8 DEF DeclType1, Does, DeclType
  <2>2. CASE pc = "aliasType"
    <3>1. After(Named)
      BY <1>2, <2>2 DEF StackInv, Stack
    <3> QED
      BY <2>1, <2>2, <3>1 DEF MemInv, StackInv, Stack, After
  <2>3. CASE pc = "enumType"
    <3>1. After(Plain)
      BY <1>2, <2>3 DEF StackInv, Stack
    <3> QED
      BY <2>1, <2>3, <3>1 DEF MemInv, StackInv, Stack, After
  <2> QED
    BY <2>1, <2>2, <2>3
<1> QED
  BY <1>3, <1>4, <1>5, <1>6, <1>7, <1>8

\* The head: the names of the namespace are strung together.
LEMMA HeadMemStep ==
  ASSUME IInv, StackInv, HeadToken1 \/ HeadEnd1
  PROVE  MemInv'
<1>1. CASE HeadToken1
  <2> DEFINE m == IF pc # "namespaceName" THEN Now
                  ELSE Gather(PushName(Now), Len(Now.stack) + 1, "chain")
  <2>1. HeadToken /\ Settles(m)
    BY <1>1 DEF HeadToken1, Does, Settles
  <2>2. \/ pc = "version" /\ pc' = "versionNumber"
        \/ pc = "versionSemi" /\ pc' = "namespace"
        \/ pc = "namespace" /\ pc' = "namespaceName"
        \/ pc = "namespaceName" /\ pc' = "namespaceNext"
        \/ pc = "namespaceNext" /\ pc' = "namespaceName"
    BY <2>1 DEF HeadToken, HeadMoves
  <2>3. CASE pc \in {"version", "versionSemi", "namespace"}
    <3>1. Mem(Now, {}, <<>>) /\ m = Now
      BY <2>3 DEF StackInv, Stack
    <3>2. After(<<>>)
      BY <2>1, <3>1, SettlesMem
    <3>3. pc' \in {"versionNumber", "namespace", "namespaceName"}
      BY <2>2, <2>3
    <3> QED
      BY <3>2, <3>3 DEF MemInv, StackInv, Stack, After
  <2>4. CASE pc = "namespaceNext"
    <3>1. Mem(Now, {}, Chain) /\ m = Now
      BY <2>4 DEF StackInv, Stack
    <3>2. After(Chain)
      BY <2>1, <3>1, SettlesMem
    <3>3. pc' = "namespaceName"
      BY <2>2, <2>4
    <3> QED
      BY <3>2, <3>3 DEF MemInv, StackInv, Stack, After
  <2>5. CASE pc = "namespaceName"
    <3>1. m = Gather(PushName(Now), Len(Now.stack) + 1, "chain")
      BY <2>5
    <3>2. "chain" \in Symbols /\ Holds["chain"] = {"name"} /\ Holds["name"] = {"name"}
      BY DEF Symbols, HeapKinds, Holds
    <3>3. ASSUME Mem(Now, {}, <<>>) PROVE Mem(m, {}, Chain)
      <4>1. Mem(PushName(Now), {}, <<"name">>)
        <5>1. Adds(<<>>, "name", <<"name">>)
          BY DEF Adds
        <5> QED
          BY <3>3, <5>1, PushNameMem
      <4>2. Len(Now.stack) + 1 = 1
        BY <3>3 DEF Mem, Shaped
      <4>3. Cuts(<<"name">>, 1, <<>>) /\ TopHolds(<<"name">>, <<>>, Holds["chain"])
        BY <3>2 DEF Cuts, TopHolds
      <4>4. Adds(<<>>, "chain", Chain)
        BY DEF Adds, Chain
      <4>5. Mem(Gather(PushName(Now), 1, "chain"), {}, Chain)
        BY <3>2, <4>1, <4>3, <4>4, GatherMem
      <4> QED
        BY <3>1, <4>2, <4>5
    <3>4. ASSUME Mem(Now, {}, Chain) PROVE Mem(m, {}, Chain)
      <4>1. Mem(PushName(Now), {}, <<"chain", "name">>)
        <5>1. Adds(Chain, "name", <<"chain", "name">>)
          BY DEF Adds, Chain
        <5> QED
          BY <3>4, <5>1, PushNameMem
      <4>2. Len(Now.stack) + 1 = 2
        BY <3>4 DEF Mem, Shaped, Chain
      <4>3. Cuts(<<"chain", "name">>, 2, <<>>)
            /\ TopHolds(<<"chain", "name">>, <<>>, Holds["chain"])
        BY <3>2 DEF Cuts, TopHolds
      <4>4. Adds(<<>>, "chain", Chain)
        BY DEF Adds, Chain
      <4>5. Mem(Gather(PushName(Now), 2, "chain"), {}, Chain)
        BY <3>2, <4>1, <4>3, <4>4, GatherMem
      <4> QED
        BY <3>1, <4>2, <4>5
    <3>5. Mem(m, {}, Chain)
      BY <2>5, <3>3, <3>4 DEF StackInv, Stack
    <3> HIDE DEF m
    <3>6. After(Chain)
      BY <2>1, <3>5, SettlesMem
    <3>7. pc' = "namespaceNext"
      BY <2>2, <2>5
    <3> QED
      BY <3>6, <3>7 DEF MemInv, StackInv, Stack, After
  <2> QED
    BY <2>2, <2>3, <2>4, <2>5
<1>2. CASE HeadEnd1
  <2>1. HeadEnd /\ Settles(Gather(Now, 0, "body"))
    BY <1>2 DEF HeadEnd1, Does, Settles
  <2>2. pc = "namespaceNext" /\ pc' = "body"
    BY <2>1 DEF HeadEnd
  <2>3. Mem(Now, {}, Chain)
    BY <2>2 DEF StackInv, Stack
  <2>4. /\ Cuts(Chain, 0, Chain) /\ TopHolds(Chain, Chain, Holds["body"])
        /\ Adds(Chain, "body", Plain) /\ "body" \in Symbols
    BY DEF Cuts, TopHolds, Adds, Chain, Plain, Symbols
  <2>5. Mem(Gather(Now, 0, "body"), {}, Plain)
    BY <2>3, <2>4, GatherMem
  <2>6. After(Plain)
    BY <2>1, <2>5, SettlesMem
  <2> QED
    BY <2>2, <2>6 DEF MemInv, StackInv, Stack, After
<1> QED
  BY <1>1, <1>2

\* A keyword finds or builds the modifier; a brace opens a list of fields.
LEMMA OpenMemStep ==
  ASSUME IInv, StackInv,
         LeftBrace1 \/ \E kind \in {"alias", "enum", "struct", "msg"} : Keyword1(kind)
  PROVE  MemInv'
<1>1. ASSUME NEW kind \in {"alias", "enum", "struct", "msg"}, Keyword1(kind)
      PROVE  MemInv'
  <2> DEFINE m == IF pc = "body" /\ kind \in {"struct", "msg"} THEN Make(Now, 0, "modifier") ELSE Now
  <2>1. Keyword(kind) /\ Settles(m)
    BY <1>1 DEF Keyword1, Does, Settles
  <2>2. CASE kind \in {"alias", "enum"}
    <3>1. pc = "body" /\ pc' \in {"aliasName", "enumType"} /\ m = Now
      BY <2>1, <2>2 DEF Keyword
    <3>2. After(Plain)
      BY <2>1, <3>1, SettlesMem DEF StackInv, Stack
    <3> QED
      BY <3>1, <3>2 DEF MemInv, StackInv, Stack, After
  <2>3. CASE kind \in {"struct", "msg"}
    <3>1. pc \in {"body", "modifier"} /\ pc' = "structName"
      BY <2>1, <2>3 DEF Keyword
    <3>2. ASSUME pc = "body" PROVE Mem(m, {}, Headed)
      <4>1. Mem(Now, {}, Plain) /\ m = Make(Now, 0, "modifier")
        BY <2>3, <3>2 DEF StackInv, Stack
      <4>2. /\ Cuts(Plain, 0, Plain) /\ TopHolds(Plain, Plain, Frees["modifier"])
            /\ Adds(Plain, "modifier", Headed) /\ "modifier" \in HeapKinds
        BY DEF Cuts, TopHolds, Adds, Plain, Headed, HeapKinds
      <4> QED
        BY <4>1, <4>2, MakeMem
    <3>3. ASSUME pc = "modifier" PROVE Mem(m, {}, Headed)
      BY <3>3 DEF StackInv, Stack
    <3>4. Mem(m, {}, Headed)
      BY <3>1, <3>2, <3>3
    <3> HIDE DEF m
    <3>5. After(Headed)
      BY <2>1, <3>4, SettlesMem
    <3> QED
      BY <3>1, <3>5 DEF MemInv, StackInv, Stack, After
  <2> QED
    BY <2>2, <2>3
<1>2. CASE LeftBrace1
  <2> DEFINE m == IF pc = "structBrace" THEN Gather(Now, 0, "variables") ELSE Now
  <2>1. LeftBrace /\ Settles(m)
    BY <1>2 DEF LeftBrace1, Does, Settles
  <2>2. CASE pc = "enumBrace"
    <3>1. pc' = "member" /\ decl' = decl /\ m = Now
      BY <2>1, <2>2 DEF LeftBrace
    <3>2. decl.members = <<>>
      BY <2>2 DEF IInv, StageInv, OutsideBraces, DeclStates, EnumBraces, MemberStates
    <3>3. After(Named)
      BY <2>1, <2>2, <3>1, SettlesMem DEF StackInv, Stack
    <3>4. Members0' = Named
      BY <3>1, <3>2 DEF Members0
    <3> QED
      BY <3>1, <3>3, <3>4 DEF MemInv, StackInv, Stack, After
  <2>3. CASE pc = "structBrace"
    <3>1. pc' = "fields" /\ m = Gather(Now, 0, "variables")
      BY <2>1, <2>3 DEF LeftBrace
    <3>2. Mem(Now, {}, Titled)
      BY <2>3 DEF StackInv, Stack
    <3>3. /\ Cuts(Titled, 0, Titled) /\ TopHolds(Titled, Titled, Holds["variables"])
          /\ Adds(Titled, "variables", Braces) /\ "variables" \in Symbols
      BY DEF Cuts, TopHolds, Adds, Titled, Braces, Symbols
    <3>4. Mem(m, {}, Braces)
      BY <3>1, <3>2, <3>3, GatherMem
    <3> HIDE DEF m
    <3>5. After(Braces)
      BY <2>1, <3>4, SettlesMem
    <3> QED
      BY <3>1, <3>5 DEF MemInv, StackInv, Stack, After
  <2> QED
    BY <2>1, <2>2, <2>3 DEF LeftBrace
<1> QED
  BY <1>1, <1>2

\* A declaration of k values becomes a node of the body, or YYERROR drops
\* its values: the body is on top again.
LEMMA DeclaresMem ==
  ASSUME NEW m, NEW s, Mem(m, {}, s), NEW k, Cuts(s, k, Plain),
         NEW kind \in Kinds, TopHolds(s, Plain, Frees[kind])
  PROVE  Mem(Declares(k, m, kind), {}, Plain)
<1>1. ASSUME body' # body PROVE Mem(Declares(k, m, kind), {}, Plain)
  <2> DEFINE n == Make(m, k, kind)
             v == <<"chain", "body", kind>>
             w == <<"chain", "body", "node">>
  <2>1. /\ kind \in HeapKinds /\ "node" \in HeapKinds /\ "body" \in Symbols
        /\ Holds[kind] \subseteq Frees["node"] /\ Holds["node"] = Holds["body"]
    BY DEF Kinds, HeapKinds, Symbols, Holds, Frees
  <2>2. Adds(Plain, kind, v) /\ Cuts(v, 1, Plain) /\ Adds(Plain, "node", w)
    BY DEF Adds, Cuts, Plain
  <2>3. TopHolds(v, Plain, Frees["node"])
    BY <2>1 DEF TopHolds, Plain
  <2>4. Mem(n, {}, v)
    BY <2>1, <2>2, MakeMem
  <2> HIDE DEF n, v
  <2>5. Mem(Make(n, 1, "node"), {}, w)
    BY <2>1, <2>2, <2>3, <2>4, MakeMem
  <2>6. Cuts(w, 2, Chain) /\ Adds(Chain, "body", Plain)
    BY DEF Cuts, Adds, Chain, Plain
  <2>7. TopHolds(w, Chain, Holds["body"])
    BY <2>1 DEF TopHolds, Chain
  <2> HIDE DEF w
  <2>8. Mem(Gather(Make(n, 1, "node"), 2, "body"), {}, Plain)
    BY <2>1, <2>5, <2>6, <2>7, GatherMem
  <2>9. Mem(Declared(n), {}, Plain)
    BY <2>8, KeyMem DEF Declared, Tables
  <2> QED
    BY <1>1, <2>9 DEF Declares, n
<1>2. ASSUME ~(body' # body) PROVE Mem(Declares(k, m, kind), {}, Plain)
  <2>1. Mem(Drop(m, k), {}, Plain)
    BY DestroyMem
  <2>2. Uncovers(Plain, "body", Plain)
    BY DEF Uncovers, Plain
  <2>3. Mem(Unwind(Drop(m, k), "body"), {}, Plain)
    BY <2>1, <2>2, UnwindMem
  <2> QED
    BY <1>2, <2>3 DEF Declares
<1> QED
  BY <1>1, <1>2

\* A member joins the members before it.
LEMMA MemberReducedMem ==
  ASSUME NEW m, Mem(m, {}, Members1)
  PROVE  Mem(MemberReduced(m), {}, Listed)
<1> DEFINE k == IF decl.members = <<>> THEN 1 ELSE 2
           n == Make(m, 1, "member")
<1>1. /\ "member" \in HeapKinds /\ "enumBody" \in Symbols /\ Holds["name"] \subseteq Frees["member"]
      /\ Holds["member"] = Holds["enumBody"]
  BY DEF HeapKinds, Symbols, Holds, Frees
<1>2. Mem(Gather(n, k, "enumBody"), {}, Listed)
  <2>1. CASE decl.members = <<>>
    <3> DEFINE u == <<"chain", "body", "name", "name">>
               v == <<"chain", "body", "name", "member">>
    <3>1. Cuts(u, 1, Named) /\ Adds(Named, "member", v)
      BY DEF Cuts, Adds, Named
    <3>2. TopHolds(u, Named, Frees["member"])
      BY <1>1 DEF TopHolds, Named
    <3>3. Members1 = u
      BY <2>1 DEF Members1
    <3> HIDE DEF u
    <3>4. Mem(n, {}, v)
      BY <1>1, <3>1, <3>2, <3>3, MakeMem
    <3>5. Cuts(v, 1, Named) /\ Adds(Named, "enumBody", Listed)
      BY DEF Cuts, Adds, Named, Listed
    <3>6. TopHolds(v, Named, Holds["enumBody"])
      BY <1>1 DEF TopHolds, Named
    <3> HIDE DEF v, n
    <3>7. Mem(Gather(n, 1, "enumBody"), {}, Listed)
      BY <1>1, <3>4, <3>5, <3>6, GatherMem
    <3> QED
      BY <2>1, <3>7
  <2>2. CASE decl.members # <<>>
    <3> DEFINE u == <<"chain", "body", "name", "enumBody", "name">>
               v == <<"chain", "body", "name", "enumBody", "member">>
    <3>1. Cuts(u, 1, Listed) /\ Adds(Listed, "member", v)
      BY DEF Cuts, Adds, Listed
    <3>2. TopHolds(u, Listed, Frees["member"])
      BY <1>1 DEF TopHolds, Listed
    <3>3. Members1 = u
      BY <2>2 DEF Members1
    <3> HIDE DEF u
    <3>4. Mem(n, {}, v)
      BY <1>1, <3>1, <3>2, <3>3, MakeMem
    <3>5. Cuts(v, 2, Named) /\ Adds(Named, "enumBody", Listed)
      BY DEF Cuts, Adds, Named, Listed
    <3>6. TopHolds(v, Named, Holds["enumBody"])
      BY <1>1 DEF TopHolds, Named
    <3> HIDE DEF v, n
    <3>7. Mem(Gather(n, 2, "enumBody"), {}, Listed)
      BY <1>1, <3>4, <3>5, <3>6, GatherMem
    <3> QED
      BY <2>2, <3>7
  <2> QED
    BY <2>1, <2>2
<1>3. MemberReduced(m) = AddKey(Gather(n, k, "enumBody"), "variables")
  BY DEF MemberReduced
<1> HIDE DEF n, k
<1> QED
  BY <1>2, <1>3, KeyMem DEF Tables

\* The member that was waiting for its value is reduced or refused.
LEMMA PendingMem ==
  ASSUME StackInv, pc \in {"memberNext", "memberSep"}
  PROVE  /\ DuplicateMember => Mem(Pending(Now), {}, Members0)
         /\ ~DuplicateMember => Mem(Pending(Now), {}, Listed)
<1>1. CASE pc = "memberSep"
  BY <1>1 DEF StackInv, Stack, Pending, DuplicateMember
<1>2. CASE pc = "memberNext"
  <2>1. Mem(Now, {}, Members1)
    BY <1>2 DEF StackInv, Stack
  <2>2. Cuts(Members1, 1, Members0)
    BY DEF Cuts, Members0, Members1, Named, Listed
  <2>3. Mem(Drop(Now, 1), {}, Members0)
    BY <2>1, <2>2, DestroyMem
  <2>4. Mem(MemberReduced(Now), {}, Listed)
    BY <2>1, MemberReducedMem
  <2> QED
    BY <1>2, <2>3, <2>4 DEF Pending
<1> QED
  BY <1>1, <1>2

\* A syntax error in a declaration leaves the body on top.
LEMMA InDecl ==
  ASSUME StackInv, pc \in DeclStates
  PROVE  Mem(Unwind(Pending(Now), "body"), {}, Plain)
<1>1. \E s : Mem(Pending(Now), {}, s) /\ Uncovers(s, "body", Plain)
  <2>1. CASE pc \in {"memberNext", "memberSep"}
    <3>1. Mem(Pending(Now), {}, Members0) \/ Mem(Pending(Now), {}, Listed)
      BY <2>1, PendingMem
    <3>2. Uncovers(Members0, "body", Plain) /\ Uncovers(Listed, "body", Plain)
      BY DEF Uncovers, Members0, Named, Listed, Plain
    <3> QED
      BY <3>1, <3>2
  <2>2. CASE pc \notin {"memberNext", "memberSep"}
    <3>1. Pending(Now) = Now
      BY <2>2 DEF Pending
    <3>2. \/ Mem(Now, {}, Plain) \/ Mem(Now, {}, Named) \/ Mem(Now, {}, Members0)
          \/ Mem(Now, {}, Members1) \/ Mem(Now, {}, Headed) \/ Mem(Now, {}, Titled)
      BY <2>2 DEF StackInv, Stack, DeclStates
    <3>3. /\ Uncovers(Plain, "body", Plain) /\ Uncovers(Named, "body", Plain)
          /\ Uncovers(Members0, "body", Plain) /\ Uncovers(Members1, "body", Plain)
          /\ Uncovers(Headed, "body", Plain) /\ Uncovers(Titled, "body", Plain)
      BY DEF Uncovers, Members0, Members1, Named, Listed, Plain, Headed, Titled
    <3> QED
      BY <3>1, <3>2, <3>3
  <2> QED
    BY <2>1, <2>2
<1> QED
  BY <1>1, UnwindMem

\* A syntax error pops the declaration.
LEMMA DeclErrorMemStep ==
  ASSUME StackInv, SyntaxErrorInDecl1
  PROVE  MemInv'
<1>1. SyntaxErrorInDecl /\ Settles(Unwind(Pending(Now), "body"))
  BY DEF SyntaxErrorInDecl1, Does, Settles
<1>2. pc \in DeclStates /\ pc' \in {"body", "bodyError"}
  BY <1>1 DEF SyntaxErrorInDecl, UnwindToBody, Resume
<1>3. After(Plain)
  BY <1>1, <1>2, InDecl, SettlesMem
<1> QED
  BY <1>2, <1>3 DEF MemInv, StackInv, Stack, After

\* An alias, a struct or a msg is complete.
LEMMA DeclEndMemStep ==
  ASSUME StackInv, AliasEnd1 \/ StructEnd1 \/ MsgEnd1
  PROVE  MemInv'
<1>1. pc' \in {"body", "bodyError"}
  BY DEF AliasEnd1, StructEnd1, MsgEnd1, Does, AliasEnd, StructEnd, MsgEnd,
         UnwindToBody, Resume, AddNode
<1>2. CASE AliasEnd1
  <2>1. pc = "aliasSemi" /\ Settles(Declares(1, Now, "alias"))
    BY <1>2 DEF AliasEnd1, Does, Settles, AliasEnd
  <2>2. Mem(Now, {}, Named)
    BY <2>1 DEF StackInv, Stack
  <2>3. Cuts(Named, 1, Plain) /\ "alias" \in Kinds
    BY DEF Cuts, Named, Plain, Kinds
  <2>4. TopHolds(Named, Plain, Frees["alias"])
    BY DEF TopHolds, Named, Plain, Holds, Frees, HeapKinds, Symbols
  <2>5. After(Plain)
    BY <2>1, <2>2, <2>3, <2>4, DeclaresMem, SettlesMem
  <2> QED
    BY <1>1, <2>5 DEF MemInv, StackInv, Stack, After
<1>3. CASE StructEnd1 \/ MsgEnd1
  <2>1. /\ pc = "fields"
        /\ \E kind \in {"struct", "msg"} : Settles(Declares(3, Now, kind))
    BY <1>3 DEF StructEnd1, MsgEnd1, Does, Settles, StructEnd, MsgEnd
  <2>2. PICK kind \in {"struct", "msg"} : Settles(Declares(3, Now, kind))
    BY <2>1
  <2>3. Mem(Now, {}, Braces)
    BY <2>1 DEF StackInv, Stack
  <2>4. Cuts(Braces, 3, Plain) /\ kind \in Kinds
    BY DEF Cuts, Braces, Plain, Kinds
  <2>5. TopHolds(Braces, Plain, Frees[kind])
    BY DEF TopHolds, Braces, Plain, Holds, Frees, HeapKinds, Symbols
  <2>6. After(Plain)
    BY <2>2, <2>3, <2>4, <2>5, DeclaresMem, SettlesMem
  <2> QED
    BY <1>1, <2>6 DEF MemInv, StackInv, Stack, After
<1> QED
  BY <1>2, <1>3

\* A list with one more entry is not empty.
LEMMA AppendNotEmpty ==
  ASSUME NEW S, NEW s \in Seq(S), NEW e
  PROVE  Append(s, e) # <<>>
<1>1. Len(Append(s, e)) = Len(s) + 1 /\ Len(s) \in Nat /\ Len(<<>>) = 0
  OBVIOUS
<1> QED
  BY <1>1

\* The members of an enum, and its end.
LEMMA MemberMemStep ==
  ASSUME IInv, StackInv,
         MemberComma1 \/ EnumEnd1 \/ \E v \in EnumNumbers : MemberNumber1(v)
  PROVE  MemInv'
<1>1. ASSUME NEW v \in EnumNumbers, MemberNumber1(v) PROVE MemInv'
  <2> DEFINE m == IF pc' = "memberSep" THEN MemberReduced(Now)
                                       ELSE Unwind(Drop(Now, 1), "body")
  <2>1. MemberNumber(v) /\ Settles(m)
    BY <1>1 DEF MemberNumber1, Does, Settles
  <2>2. pc = "memberNumber" /\ Mem(Now, {}, Members1)
    BY <2>1 DEF MemberNumber, StackInv, Stack
  <2>3. CASE VariablesTest(decl.member)
    <3>1. pc' = "bodyError"
      BY <2>1, <2>3 DEF MemberNumber, UnwindToBody, None
    <3>2. Cuts(Members1, 1, Members0) /\ Uncovers(Members0, "body", Plain)
      BY DEF Cuts, Uncovers, Members0, Members1, Named, Listed, Plain
    <3>3. Mem(Drop(Now, 1), {}, Members0)
      BY <2>2, <3>2, DestroyMem
    <3>4. Mem(m, {}, Plain)
      BY <3>1, <3>2, <3>3, UnwindMem
    <3> HIDE DEF m
    <3>5. After(Plain)
      BY <2>1, <3>4, SettlesMem
    <3> QED
      BY <3>1, <3>5 DEF MemInv, StackInv, Stack, After
  <2>4. CASE ~VariablesTest(decl.member)
    <3>1. /\ pc' = "memberSep"
          /\ decl' = [decl EXCEPT !.members = Append(@, Member(decl.member, TRUE, v))]
      BY <2>1, <2>4 DEF MemberNumber
    <3>2. decl'.members # <<>>
      <4>1. decl \in DeclarationType /\ DOMAIN decl = {"kind", "name", "bt", "member", "members",
                                                "modifier", "fields"}
        BY DEF IInv, TypeOK, DeclarationType
      <4>2. decl'.members = Append(decl.members, Member(decl.member, TRUE, v))
        BY <3>1, <4>1
      <4>3. decl.members \in MembersType
        BY <4>1 DEF DeclarationType
      <4> QED
        BY <4>2, <4>3, AppendNotEmpty DEF MembersType
    <3>3. Mem(m, {}, Listed)
      BY <2>2, <3>1, MemberReducedMem
    <3> HIDE DEF m
    <3>4. After(Listed)
      BY <2>1, <3>3, SettlesMem
    <3> QED
      BY <3>1, <3>2, <3>4 DEF MemInv, StackInv, Stack, After
  <2> QED
    BY <2>3, <2>4
<1>2. CASE MemberComma1
  <2> DEFINE m == IF pc' = "member" THEN Pending(Now) ELSE Unwind(Pending(Now), "body")
  <2>1. MemberComma /\ Settles(m)
    BY <1>2 DEF MemberComma1, Does, Settles
  <2>2. pc \in {"memberNext", "memberSep"} /\ pc \in DeclStates
    BY <2>1 DEF MemberComma, DeclStates
  <2>3. CASE DuplicateMember
    <3>1. pc' \in {"body", "bodyError"}
      BY <2>1, <2>3 DEF MemberComma, UnwindToBody, Resume
    <3>2. Mem(m, {}, Plain)
      BY <2>2, <3>1, InDecl
    <3> HIDE DEF m
    <3>3. After(Plain)
      BY <2>1, <3>2, SettlesMem
    <3> QED
      BY <3>1, <3>3 DEF MemInv, StackInv, Stack, After
  <2>4. CASE ~DuplicateMember
    <3>1. pc' = "member" /\ decl' = [decl EXCEPT !.members = Members]
      BY <2>1, <2>4 DEF MemberComma
    <3>2. decl'.members # <<>>
      <4>1. /\ decl \in DeclarationType
            /\ DOMAIN decl = {"kind", "name", "bt", "member", "members", "modifier", "fields"}
        BY DEF IInv, TypeOK, DeclarationType
      <4>2. decl'.members = Members
        BY <3>1, <4>1
      <4>3. decl.members \in MembersType
        BY <4>1 DEF DeclarationType
      <4>4. pc = "memberNext" => Append(decl.members, Member(decl.member, FALSE, 0)) # <<>>
        BY <4>3, AppendNotEmpty DEF MembersType
      <4>5. pc = "memberSep" => decl.members # <<>>
        BY DEF StackInv
      <4> QED
        BY <2>2, <4>2, <4>4, <4>5 DEF Members
    <3>3. Mem(m, {}, Listed)
      BY <2>2, <2>4, <3>1, PendingMem
    <3> HIDE DEF m
    <3>4. After(Listed)
      BY <2>1, <3>3, SettlesMem
    <3>5. Members0' = Listed
      BY <3>2 DEF Members0
    <3> QED
      BY <3>1, <3>4, <3>5 DEF MemInv, StackInv, Stack, After
  <2> QED
    BY <2>3, <2>4
<1>3. CASE EnumEnd1
  <2> DEFINE m == IF DuplicateMember THEN Unwind(Pending(Now), "body")
                  ELSE Declares(2, Pending(Now), "enum")
  <2>1. EnumEnd /\ Settles(m)
    BY <1>3 DEF EnumEnd1, Does, Settles
  <2>2. pc \in {"memberNext", "memberSep"} /\ pc \in DeclStates /\ pc' \in {"body", "bodyError"}
    BY <2>1 DEF EnumEnd, DeclStates, UnwindToBody, Resume, AddNode
  <2>3. Mem(m, {}, Plain)
    <3>1. CASE DuplicateMember
      BY <2>2, <3>1, InDecl
    <3>2. CASE ~DuplicateMember
      <4>1. Mem(Pending(Now), {}, Listed)
        BY <2>2, <3>2, PendingMem
      <4>2. Cuts(Listed, 2, Plain) /\ "enum" \in Kinds
        BY DEF Cuts, Listed, Plain, Kinds
      <4>3. TopHolds(Listed, Plain, Frees["enum"])
        BY DEF TopHolds, Listed, Plain, Holds, Frees, HeapKinds, Symbols
      <4>4. Mem(Declares(2, Pending(Now), "enum"), {}, Plain)
        BY <4>1, <4>2, <4>3, DeclaresMem
      <4> QED
        BY <3>2, <4>4
    <3> QED
      BY <3>1, <3>2
  <2> HIDE DEF m
  <2>4. After(Plain)
    BY <2>1, <2>3, SettlesMem
  <2> QED
    BY <2>2, <2>4 DEF MemInv, StackInv, Stack, After
<1> QED
  BY <1>1, <1>2, <1>3

\* A modifier token finds the modifier, built or new; a second one of its
\* sort drops it.
LEMMA ModifierMemStep ==
  ASSUME StackInv, Modifier1
  PROVE  MemInv'
<1> DEFINE built == IF pc = "body" THEN Make(Now, 0, "modifier") ELSE Now
           m == IF pc' = "modifier" THEN built ELSE Unwind(Drop(built, 1), "body")
<1>1. /\ (\E r \in Reliabilities : Reliability(r)) \/ (\E l \in Layouts : FieldLayout(l))
      /\ Settles(m)
  BY DEF Modifier1, Does, Settles
<1>2. pc \in {"body", "modifier"} /\ pc' \in {"modifier", "bodyError"}
  BY <1>1 DEF Reliability, FieldLayout, SetModifier, UnwindToBody, None
<1>3. Mem(built, {}, Headed)
  <2>1. CASE pc = "body"
    <3>1. Mem(Now, {}, Plain)
      BY <2>1 DEF StackInv, Stack
    <3>2. /\ Cuts(Plain, 0, Plain) /\ TopHolds(Plain, Plain, Frees["modifier"])
          /\ Adds(Plain, "modifier", Headed) /\ "modifier" \in HeapKinds
      BY DEF Cuts, TopHolds, Adds, Plain, Headed, HeapKinds
    <3>3. Mem(Make(Now, 0, "modifier"), {}, Headed)
      BY <3>1, <3>2, MakeMem
    <3> QED
      BY <2>1, <3>3
  <2>2. CASE pc = "modifier"
    BY <2>2 DEF StackInv, Stack
  <2> QED
    BY <1>2, <2>1, <2>2
<1> HIDE DEF built
<1>4. CASE pc' = "modifier"
  <2>1. After(Headed)
    BY <1>1, <1>3, <1>4, SettlesMem
  <2> QED
    BY <1>4, <2>1 DEF MemInv, StackInv, Stack, After
<1>5. CASE pc' = "bodyError"
  <2>1. Cuts(Headed, 1, Plain) /\ Uncovers(Plain, "body", Plain)
    BY DEF Cuts, Uncovers, Headed, Plain
  <2>2. Mem(Drop(built, 1), {}, Plain)
    BY <1>3, <2>1, DestroyMem
  <2>3. Mem(Unwind(Drop(built, 1), "body"), {}, Plain)
    BY <2>1, <2>2, UnwindMem
  <2>4. After(Plain)
    BY <1>1, <1>5, <2>3, SettlesMem
  <2> QED
    BY <1>5, <2>4 DEF MemInv, StackInv, Stack, After
<1> QED
  BY <1>2, <1>4, <1>5

\* Lists of symbols grow by symbols.
LEMMA AddsAppend ==
  ASSUME NEW s \in Seq(Symbols), NEW sym \in Symbols
  PROVE  /\ Append(s, sym) \in Seq(Symbols) /\ Adds(s, sym, Append(s, sym))
         /\ Cuts(Append(s, sym), 1, s) /\ Cuts(s, 0, s)
         /\ \A kinds : TopHolds(s, s, kinds)
         /\ \A kinds : Holds[sym] \subseteq kinds => TopHolds(Append(s, sym), s, kinds)
<1> DEFINE t == Append(s, sym)
<1>1. /\ t \in Seq(Symbols) /\ Len(s) \in Nat /\ Len(t) = Len(s) + 1
      /\ \A i \in 1..Len(s) : t[i] = s[i]
      /\ t[Len(s) + 1] = sym
  OBVIOUS
<1> HIDE DEF t
<1>2. Adds(s, sym, t) /\ Cuts(t, 1, s) /\ Cuts(s, 0, s)
  BY <1>1 DEF Adds, Cuts
<1>3. \A kinds : TopHolds(s, s, kinds)
  BY <1>1 DEF TopHolds
<1>4. \A kinds : Holds[sym] \subseteq kinds => TopHolds(t, s, kinds)
  BY <1>1 DEF TopHolds
<1> QED
  BY <1>1, <1>2, <1>3, <1>4 DEF t

\* A type of a field, with the names it owns copies of.
LEMMA NewTypeMem ==
  ASSUME NEW m, NEW held, NEW s \in Seq(Symbols), Mem(m, held, s), NEW type
  PROVE  Mem(NewType(m, type), held, Append(s, "vartype"))
<1> DEFINE v == Append(s, "vartype")
           u == Append(s, "name")
           w == Append(u, "name")
<1>1. /\ "name" \in Symbols /\ "vartype" \in Symbols /\ "vartype" \in HeapKinds
      /\ Holds["name"] \subseteq Frees["vartype"]
  BY DEF Symbols, HeapKinds, Holds, Frees
<1>2. Adds(s, "vartype", v) /\ Adds(s, "name", u) /\ u \in Seq(Symbols)
  BY <1>1, AddsAppend
<1>3. Cuts(s, 0, s) /\ TopHolds(s, s, Frees["vartype"])
  BY <1>1, AddsAppend
<1>4. Cuts(u, 1, s) /\ TopHolds(u, s, Frees["vartype"])
  BY <1>1, AddsAppend
<1>5. Adds(u, "name", w) /\ Cuts(w, 2, s) /\ TopHolds(w, s, Frees["vartype"])
  <2>1. /\ Len(s) \in Nat /\ Len(u) = Len(s) + 1 /\ Len(w) = Len(s) + 2
        /\ \A i \in 1..Len(s) : w[i] = s[i]
        /\ w[Len(s) + 1] = "name" /\ w[Len(s) + 2] = "name" /\ Adds(u, "name", w)
    BY <1>1, <1>2, AddsAppend DEF Adds
  <2> HIDE DEF u, w
  <2>2. Cuts(w, 2, s)
    BY <2>1 DEF Cuts
  <2>3. TopHolds(w, s, Frees["vartype"])
    <3>1. \A j \in Len(s) + 1..Len(w) : w[j] = "name"
      BY <2>1
    <3> QED
      BY <1>1, <3>1 DEF TopHolds
  <2> QED
    BY <2>1, <2>2, <2>3
<1> HIDE DEF u, v, w
<1>6. Mem(Make(m, 0, "vartype"), held, v)
  BY <1>1, <1>2, <1>3, MakeMem
<1>7. Mem(PushName(m), held, u)
  BY <1>2, PushNameMem
<1>8. Mem(Make(PushName(m), 1, "vartype"), held, v)
  BY <1>1, <1>2, <1>4, <1>7, MakeMem
<1>9. Mem(PushName(PushName(m)), held, w)
  BY <1>5, <1>7, PushNameMem
<1>10. Mem(Make(PushName(PushName(m)), 2, "vartype"), held, v)
  BY <1>1, <1>2, <1>5, <1>9, MakeMem
<1> QED
  BY <1>6, <1>8, <1>10 DEF NewType, v

\* What a line starts from are symbols.
LEMMA BracesSymbols == Braces \in Seq(Symbols) /\ Append(Braces, "vartype") \in Seq(Symbols)
BY DEF Braces, Symbols, HeapKinds

\* One more variable, with copies of the values of the line.
LEMMA NewVariableMem ==
  ASSUME NEW m, NEW held, Mem(m, held, Braces)
  PROVE  Mem(Gather(NewVariable(m), 2, "variables"), held, Braces)
<1> DEFINE s1 == Append(Braces, "vartype")
           s2 == Append(s1, "array")
           s3 == Append(s2, "align")
           s4 == Append(s3, "name")
           s5 == Append(Braces, "variable")
           m1 == NewType(m, line.type)
           m2 == Make(m1, 0, "array")
           m3 == Make(m2, 0, "align")
           m4 == PushName(m3)
           m5 == Make(m4, 4, "variable")
<1>1. /\ {"vartype", "array", "align", "name", "variable"} \subseteq HeapKinds
      /\ HeapKinds \subseteq Symbols /\ "variables" \in Symbols
  BY DEF HeapKinds, Symbols
<1>2. Braces \in Seq(Symbols) /\ s1 \in Seq(Symbols)
  BY BracesSymbols
<1>3. Mem(m1, held, s1)
  BY <1>2, NewTypeMem
<1> HIDE DEF m1
<1>4. Cuts(s1, 0, s1) /\ Adds(s1, "array", s2) /\ TopHolds(s1, s1, Frees["array"]) /\ s2 \in Seq(Symbols)
  BY <1>1, <1>2, AddsAppend
<1>5. Mem(m2, held, s2)
  <2> HIDE DEF s1, s2
  <2> QED
    BY <1>1, <1>3, <1>4, MakeMem
<1> HIDE DEF m2
<1>6. Cuts(s2, 0, s2) /\ Adds(s2, "align", s3) /\ TopHolds(s2, s2, Frees["align"]) /\ s3 \in Seq(Symbols)
  BY <1>1, <1>4, AddsAppend
<1>7. Mem(m3, held, s3)
  <2> HIDE DEF s2, s3
  <2> QED
    BY <1>1, <1>5, <1>6, MakeMem
<1> HIDE DEF m3
<1>8. Adds(s3, "name", s4)
  BY <1>1, <1>6, AddsAppend
<1>9. Mem(m4, held, s4)
  <2> HIDE DEF s3, s4
  <2> QED
    BY <1>7, <1>8, PushNameMem
<1> HIDE DEF m4
<1>10. /\ Len(s4) = 9 /\ \A i \in 1..5 : s4[i] = Braces[i]
       /\ s4[6] = "vartype" /\ s4[7] = "array" /\ s4[8] = "align" /\ s4[9] = "name"
  <2>1. Adds(Braces, "vartype", s1)
    BY <1>1, <1>2, AddsAppend
  <2>2. Len(Braces) = 5
    BY DEF Braces
  <2> HIDE DEF s1, s2, s3, s4
  <2>3. Len(s1) = 6 /\ \A i \in 1..5 : s1[i] = Braces[i]
    BY <2>1, <2>2 DEF Adds
  <2>4. s1[6] = "vartype"
    BY <2>1, <2>3 DEF Adds
  <2>5. Len(s2) = 7 /\ \A i \in 1..6 : s2[i] = s1[i]
    BY <1>4, <2>3 DEF Adds
  <2>6. s2[7] = "array"
    BY <1>4, <2>5 DEF Adds
  <2>7. Len(s3) = 8 /\ \A i \in 1..7 : s3[i] = s2[i]
    BY <1>6, <2>5 DEF Adds
  <2>8. s3[8] = "align"
    BY <1>6, <2>7 DEF Adds
  <2>9. Len(s4) = 9 /\ \A i \in 1..8 : s4[i] = s3[i]
    BY <1>8, <2>7 DEF Adds
  <2>10. s4[9] = "name"
    BY <1>8, <2>9 DEF Adds
  <2> QED
    BY <2>3, <2>4, <2>5, <2>6, <2>7, <2>8, <2>9, <2>10
<1>11. Cuts(s4, 4, Braces) /\ TopHolds(s4, Braces, Frees["variable"]) /\ Adds(Braces, "variable", s5)
  <2>1. Len(Braces) = 5
    BY DEF Braces
  <2> HIDE DEF s4
  <2>2. Cuts(s4, 4, Braces)
    BY <1>10, <2>1 DEF Cuts
  <2>3. \A j \in 6..9 : s4[j] \in {"vartype", "array", "align", "name"}
    BY <1>10
  <2>4. \A x \in {"vartype", "array", "align", "name"} : Holds[x] \subseteq Frees["variable"]
    BY DEF Holds, Frees, HeapKinds, Symbols
  <2>5. TopHolds(s4, Braces, Frees["variable"])
    BY <1>10, <2>1, <2>3, <2>4 DEF TopHolds
  <2> QED
    BY <1>1, <1>2, <2>2, <2>5, AddsAppend
<1>12. Mem(m5, held, s5)
  <2> HIDE DEF s4, s5
  <2> QED
    BY <1>1, <1>9, <1>11, MakeMem
<1> HIDE DEF m5
<1>13. Cuts(s5, 2, Titled) /\ TopHolds(s5, Titled, Holds["variables"]) /\ Adds(Titled, "variables", Braces)
  BY DEF Cuts, TopHolds, Adds, Braces, Titled, Holds, HeapKinds, Symbols
<1>14. Mem(Gather(m5, 2, "variables"), held, Braces)
  <2> HIDE DEF s5
  <2> QED
    BY <1>1, <1>12, <1>13, GatherMem
<1> QED
  BY <1>14 DEF NewVariable, m1, m2, m3, m4, m5

\* The end of a line: one variable for each of its names, and the values of
\* the line are freed.
LEMMA LineReducedMem ==
  ASSUME IInv, NEW m, Mem(m, {}, Padded)
  PROVE  Mem(LineReduced(m), {}, Braces)
<1> DEFINE last == Len(line.names)
           ids == Owned(m, 4)
           first == Popped(m, 4)
           More(x) == Gather(NewVariable(x), 2, "variables")
           Rec(f) == [n \in 0..last |-> IF n = 0 THEN first ELSE More(f[n - 1])]
           more == CHOOSE f : f = Rec(f)
<1>1. last \in Nat
  BY DEF IInv, TypeOK, LineType
<1>2. LineReduced(m) = Free(more[last], ids)
  BY DEF LineReduced
<1>3. Mem(first, ids, Braces) /\ {} \cap ids = {} /\ {} \cup ids = ids
  <2>1. Cuts(Padded, 4, Braces) /\ {} \cup ids = ids
    BY DEF Cuts, Padded, Braces
  <2>2. Mem(first, {} \cup ids, Braces)
    BY <2>1, PopMem
  <2> QED
    BY <2>1, <2>2
<1>4. \A x : Mem(x, ids, Braces) => Mem(More(x), ids, Braces)
  BY NewVariableMem
<1> HIDE DEF More, first, ids, last
<1>5. \E f : f = Rec(f)
  <2> DEFINE Solves(k, f) == /\ DOMAIN f = 0..k /\ f = [n \in 0..k |-> f[n]]
                             /\ f[0] = first
                             /\ \A j \in 1..k : f[j] = More(f[j - 1])
             Good == {k \in 0..last : \E f : Solves(k, f)}
  <2>1. 0 \in Good
    <3>1. Solves(0, [n \in 0..0 |-> first])
      OBVIOUS
    <3> HIDE DEF Solves
    <3> QED
      BY <1>1, <3>1
  <2>2. ASSUME NEW k \in 1..last, k - 1 \in Good PROVE k \in Good
    <3>1. PICK f : Solves(k - 1, f)
      BY <2>2
    <3> DEFINE g == [n \in 0..k |-> IF n = k THEN More(f[k - 1]) ELSE f[n]]
    <3>2. /\ DOMAIN g = 0..k /\ g = [n \in 0..k |-> g[n]] /\ g[0] = first
          /\ g[k] = More(f[k - 1]) /\ \A j \in 0..k - 1 : g[j] = f[j]
      BY <1>1, <3>1
    <3> HIDE DEF g
    <3>3. \A j \in 1..k : g[j] = More(g[j - 1])
      <4> SUFFICES ASSUME NEW j \in 1..k PROVE g[j] = More(g[j - 1])
        OBVIOUS
      <4>1. CASE j = k
        BY <1>1, <3>2, <4>1
      <4>2. CASE j # k
        <5>1. j \in 1..k - 1 /\ j \in 0..k - 1 /\ j - 1 \in 0..k - 1
          BY <1>1, <4>2
        <5> QED
          BY <3>1, <3>2, <5>1
      <4> QED
        BY <4>1, <4>2
    <3>4. Solves(k, g)
      BY <3>2, <3>3
    <3> HIDE DEF Solves
    <3> QED
      BY <1>1, <3>4
  <2> HIDE DEF Good
  <2>3. last \in Good
    BY <1>1, <2>1, <2>2, SegmentInduction
  <2>4. PICK f : Solves(last, f)
    BY <2>3 DEF Good
  <2>5. \A n \in 0..last : f[n] = IF n = 0 THEN first ELSE More(f[n - 1])
    <3> SUFFICES ASSUME NEW n \in 0..last, n # 0 PROVE f[n] = More(f[n - 1])
      BY <2>4
    <3>1. n \in 1..last
      BY <1>1
    <3> QED
      BY <2>4, <3>1
  <2>6. f = [n \in 0..last |-> f[n]]
    BY <2>4
  <2>7. f = Rec(f)
    BY <2>5, <2>6
  <2> QED
    BY <2>7
<1> HIDE DEF Rec
<1>6. more = Rec(more)
  BY <1>5
<1> HIDE DEF more
<1>7. more[0] = first /\ \A k \in 1..last : more[k] = More(more[k - 1])
  <2>1. \A k \in 1..last : k \in 0..last /\ k # 0
    BY <1>1
  <2>2. 0 \in 0..last
    BY <1>1
  <2>3. DOMAIN more = 0..last /\ \A n \in 0..last : more[n] = IF n = 0 THEN first ELSE More(more[n - 1])
    BY <1>6 DEF Rec
  <2> QED
    BY <2>1, <2>2, <2>3
<1>8. Mem(more[last], ids, Braces)
  <2> DEFINE Good == {k \in 0..last : Mem(more[k], ids, Braces)}
  <2>1. 0 \in Good
    BY <1>1, <1>3, <1>7
  <2>2. ASSUME NEW k \in 1..last, k - 1 \in Good PROVE k \in Good
    BY <1>1, <1>4, <1>7, <2>2
  <2> HIDE DEF Good
  <2>3. last \in Good
    BY <1>1, <2>1, <2>2, SegmentInduction
  <2> QED
    BY <2>3 DEF Good
<1>9. Sound(more[last], {} \cup ids)
  BY <1>3, <1>8 DEF Mem
<1>10. Sound(Free(more[last], ids), {}) /\ Free(more[last], ids).stack = more[last].stack
  BY <1>3, <1>9, FreeSound
<1> QED
  BY <1>2, <1>8, <1>10 DEF Mem, Shaped

\* A refusal in a line drops k values and destroys the rest of the line.
LEMMA LineRefusedMem ==
  ASSUME NEW m, NEW s, Mem(m, {}, s), NEW k, NEW t, Cuts(s, k, t), Uncovers(t, "variables", Braces)
  PROVE  Mem(LineRefused(m, k), {}, Braces)
<1>1. Mem(Drop(m, k), {}, t)
  BY DestroyMem
<1> QED
  BY <1>1, UnwindMem DEF LineRefused

\* The type of a line.
LEMMA FieldTypeMemStep ==
  ASSUME StackInv, NEW t \in Types \cup Names, FieldType1(t)
  PROVE  MemInv'
<1> DEFINE m == IF pc' = "array" THEN Make(NewType(Now, line'.type), 0, "array")
                                 ELSE LineRefused(PushName(Now), 1)
<1>1. FieldType(t) /\ Settles(m)
  BY DEF FieldType1, Does, Settles
<1>2. pc = "fields" /\ Mem(Now, {}, Braces) /\ pc' \in {"array", "fields", "fieldsError"}
  BY <1>1 DEF FieldType, UnwindToFields, StackInv, Stack
<1>3. CASE pc' = "array"
  <2> DEFINE s == Append(Braces, "vartype")
  <2>1. Mem(NewType(Now, line'.type), {}, s)
    BY <1>2, BracesSymbols, NewTypeMem
  <2>2. Cuts(s, 0, s) /\ TopHolds(s, s, Frees["array"]) /\ Adds(s, "array", Typed)
        /\ "array" \in HeapKinds
    BY DEF Cuts, TopHolds, Adds, Braces, Typed, HeapKinds
  <2> HIDE DEF s
  <2>3. Mem(Make(NewType(Now, line'.type), 0, "array"), {}, Typed)
    BY <2>1, <2>2, MakeMem
  <2>4. After(Typed)
    BY <1>1, <1>3, <2>3, SettlesMem
  <2> QED
    BY <1>3, <2>4 DEF MemInv, StackInv, Stack, After
<1>4. CASE pc' # "array"
  <2> DEFINE s == <<"chain", "body", "modifier", "name", "variables", "name">>
  <2>1. Adds(Braces, "name", s) /\ Cuts(s, 1, Braces) /\ Uncovers(Braces, "variables", Braces)
    BY DEF Adds, Cuts, Uncovers, Braces
  <2> HIDE DEF s
  <2>2. Mem(PushName(Now), {}, s)
    BY <1>2, <2>1, PushNameMem
  <2>3. Mem(LineRefused(PushName(Now), 1), {}, Braces)
    BY <2>1, <2>2, LineRefusedMem
  <2>4. After(Braces)
    BY <1>1, <1>4, <2>3, SettlesMem
  <2> QED
    BY <1>2, <1>4, <2>4 DEF MemInv, StackInv, Stack, After
<1> QED
  BY <1>3, <1>4

\* The array modifiers of a line.
LEMMA FieldArrayMemStep ==
  ASSUME StackInv, FieldArray1
  PROVE  MemInv'
<1> DEFINE m == IF pc' = "array" THEN Now ELSE LineRefused(Now, 1)
<1>1. (FieldList \/ \E n \in TupleNumbers : FieldTuple(n)) /\ Settles(m)
  BY DEF FieldArray1, Does, Settles
<1>2. pc = "array" /\ Mem(Now, {}, Typed) /\ pc' \in {"array", "fields", "fieldsError"}
  BY <1>1 DEF FieldList, FieldTuple, SetArray, UnwindToFields, StackInv, Stack
<1>3. CASE pc' = "array"
  <2>1. After(Typed)
    BY <1>1, <1>2, <1>3, SettlesMem
  <2> QED
    BY <1>3, <2>1 DEF MemInv, StackInv, Stack, After
<1>4. CASE pc' # "array"
  <2> DEFINE s == <<"chain", "body", "modifier", "name", "variables", "vartype">>
  <2>1. Cuts(Typed, 1, s) /\ Uncovers(s, "variables", Braces)
    BY DEF Cuts, Uncovers, Braces, Typed
  <2>2. Mem(LineRefused(Now, 1), {}, Braces)
    BY <1>2, <2>1, LineRefusedMem
  <2>3. After(Braces)
    BY <1>1, <1>4, <2>2, SettlesMem
  <2> QED
    BY <1>2, <1>4, <2>3 DEF MemInv, StackInv, Stack, After
<1> QED
  BY <1>3, <1>4

\* A name of a line.
LEMMA FieldNameMemStep ==
  ASSUME StackInv, NEW n \in Names, FieldName1(n)
  PROVE  MemInv'
<1> DEFINE k == IF pc = "array" THEN 1 ELSE 2
           m == IF pc' = "declNext"
                  THEN AddKey(Gather(PushName(Now), k, "declarators"), "variables")
                  ELSE LineRefused(PushName(Now), k)
           s1 == <<"chain", "body", "modifier", "name", "variables", "vartype", "array", "name">>
           s2 == <<"chain", "body", "modifier", "name", "variables", "vartype", "array",
                   "declarators", "name">>
<1>1. FieldName(n) /\ Settles(m)
  BY DEF FieldName1, Does, Settles
<1>2. pc \in {"array", "declarator"} /\ pc' \in {"declNext", "fields", "fieldsError"}
  BY <1>1 DEF FieldName, UnwindToFields
<1>3. \E s : /\ Mem(PushName(Now), {}, s) /\ Cuts(s, k, Typed)
             /\ TopHolds(s, Typed, Holds["declarators"])
  <2>1. CASE pc = "array"
    <3>1. Mem(Now, {}, Typed) /\ k = 1
      BY <2>1 DEF StackInv, Stack
    <3>2. Adds(Typed, "name", s1) /\ Cuts(s1, 1, Typed)
      BY DEF Adds, Cuts, Typed
    <3>3. TopHolds(s1, Typed, Holds["declarators"])
      BY DEF TopHolds, Typed, Holds, HeapKinds, Symbols
    <3> HIDE DEF s1, k
    <3>4. Mem(PushName(Now), {}, s1)
      BY <3>1, <3>2, PushNameMem
    <3> QED
      BY <3>1, <3>2, <3>3, <3>4
  <2>2. CASE pc = "declarator"
    <3>1. Mem(Now, {}, Lined) /\ k = 2
      BY <2>2 DEF StackInv, Stack
    <3>2. Adds(Lined, "name", s2) /\ Cuts(s2, 2, Typed)
      BY DEF Adds, Cuts, Typed, Lined
    <3>3. TopHolds(s2, Typed, Holds["declarators"])
      BY DEF TopHolds, Typed, Holds, HeapKinds, Symbols
    <3> HIDE DEF s2, k
    <3>4. Mem(PushName(Now), {}, s2)
      BY <3>1, <3>2, PushNameMem
    <3> QED
      BY <3>1, <3>2, <3>3, <3>4
  <2> QED
    BY <1>2, <2>1, <2>2
<1>4. PICK s : /\ Mem(PushName(Now), {}, s) /\ Cuts(s, k, Typed)
               /\ TopHolds(s, Typed, Holds["declarators"])
  BY <1>3
<1> HIDE DEF k
<1>5. CASE pc' = "declNext"
  <2>1. Adds(Typed, "declarators", Lined) /\ "declarators" \in Symbols
    BY DEF Adds, Typed, Lined, Symbols
  <2>2. Mem(Gather(PushName(Now), k, "declarators"), {}, Lined)
    BY <1>4, <2>1, GatherMem
  <2>3. Mem(AddKey(Gather(PushName(Now), k, "declarators"), "variables"), {}, Lined)
    BY <2>2, KeyMem DEF Tables
  <2>4. After(Lined)
    BY <1>1, <1>5, <2>3, SettlesMem
  <2> QED
    BY <1>5, <2>4 DEF MemInv, StackInv, Stack, After
<1>6. CASE pc' # "declNext"
  <2>1. Uncovers(Typed, "variables", Braces)
    BY DEF Uncovers, Typed, Braces
  <2>2. Mem(LineRefused(PushName(Now), k), {}, Braces)
    BY <1>4, <2>1, LineRefusedMem
  <2>3. After(Braces)
    BY <1>1, <1>6, <2>2, SettlesMem
  <2> QED
    BY <1>2, <1>6, <2>3 DEF MemInv, StackInv, Stack, After
<1> QED
  BY <1>5, <1>6

\* The padding of a line, and its end.
LEMMA FieldEndMemStep ==
  ASSUME IInv, StackInv, FieldEnd1 \/ \E n \in AlignNumbers : FieldAlign1(n)
  PROVE  MemInv'
<1>1. /\ Cuts(Lined, 0, Lined) /\ TopHolds(Lined, Lined, Frees["align"])
      /\ Adds(Lined, "align", Padded) /\ "align" \in HeapKinds
  BY DEF Cuts, TopHolds, Adds, Lined, Padded, HeapKinds
<1>2. Mem(Now, {}, Lined) => Mem(Make(Now, 0, "align"), {}, Padded)
  BY <1>1, MakeMem
<1>3. ASSUME NEW n \in AlignNumbers, FieldAlign1(n) PROVE MemInv'
  <2> DEFINE m == IF pc' = "fieldSemi" THEN Make(Now, 0, "align") ELSE LineRefused(Now, 0)
  <2>1. FieldAlign(n) /\ Settles(m)
    BY <1>3 DEF FieldAlign1, Does, Settles
  <2>2. pc = "declNext" /\ Mem(Now, {}, Lined) /\ pc' \in {"fieldSemi", "fields", "fieldsError"}
    BY <2>1 DEF FieldAlign, UnwindToFields, StackInv, Stack
  <2>3. CASE pc' = "fieldSemi"
    <3>1. After(Padded)
      BY <1>2, <2>1, <2>2, <2>3, SettlesMem
    <3> QED
      BY <2>3, <3>1 DEF MemInv, StackInv, Stack, After
  <2>4. CASE pc' # "fieldSemi"
    <3>1. Uncovers(Lined, "variables", Braces)
      BY DEF Uncovers, Lined, Braces
    <3>2. Mem(LineRefused(Now, 0), {}, Braces)
      BY <1>1, <2>2, <3>1, LineRefusedMem
    <3>3. After(Braces)
      BY <2>1, <2>4, <3>2, SettlesMem
    <3> QED
      BY <2>2, <2>4, <3>3 DEF MemInv, StackInv, Stack, After
  <2> QED
    BY <2>3, <2>4
<1>4. CASE FieldEnd1
  <2> DEFINE m == IF pc = "declNext" THEN Make(Now, 0, "align") ELSE Now
  <2>1. FieldEnd /\ Settles(LineReduced(m))
    BY <1>4 DEF FieldEnd1, Does, Settles
  <2>2. pc \in {"declNext", "fieldSemi"} /\ pc' = "fields"
    BY <2>1 DEF FieldEnd
  <2>3. Mem(m, {}, Padded)
    BY <1>2, <2>2 DEF StackInv, Stack
  <2> HIDE DEF m
  <2>4. Mem(LineReduced(m), {}, Braces)
    BY <2>3, LineReducedMem
  <2>5. After(Braces)
    BY <2>1, <2>4, SettlesMem
  <2> QED
    BY <2>2, <2>5 DEF MemInv, StackInv, Stack, After
<1> QED
  BY <1>3, <1>4

\* A syntax error in a line destroys the line.
LEMMA LineErrorMemStep ==
  ASSUME StackInv, SyntaxErrorInFields1
  PROVE  MemInv'
<1>1. SyntaxErrorInFields /\ Settles(Unwind(Now, "variables"))
  BY DEF SyntaxErrorInFields1, Does, Settles
<1>2. pc \in FieldStates /\ pc' \in {"fields", "fieldsError"}
  BY <1>1 DEF SyntaxErrorInFields, UnwindToFields
<1>3. \/ Mem(Now, {}, Braces) \/ Mem(Now, {}, Typed) \/ Mem(Now, {}, Lined) \/ Mem(Now, {}, Padded)
  BY <1>2 DEF StackInv, Stack, FieldStates
<1>4. /\ Uncovers(Braces, "variables", Braces) /\ Uncovers(Typed, "variables", Braces)
      /\ Uncovers(Lined, "variables", Braces) /\ Uncovers(Padded, "variables", Braces)
  BY DEF Uncovers, Braces, Typed, Lined, Padded
<1>5. Mem(Unwind(Now, "variables"), {}, Braces)
  BY <1>3, <1>4, UnwindMem
<1>6. After(Braces)
  BY <1>1, <1>5, SettlesMem
<1> QED
  BY <1>2, <1>6 DEF MemInv, StackInv, Stack, After

\* Everything that is left on the stack is destroyed.
LEMMA EmptyMem ==
  ASSUME NEW m, NEW s, Mem(m, {}, s), Len(s) \in Nat
  PROVE  Mem(Destroy(m, Len(m.stack)), {}, <<>>)
<1>1. Len(m.stack) = Len(s)
  BY DEF Mem, Shaped
<1>2. Cuts(s, Len(s), <<>>)
  BY DEF Cuts
<1>3. Mem(Destroy(m, Len(s)), {}, <<>>)
  BY <1>2, DestroyMem
<1> QED
  BY <1>1, <1>3

\* In every state the stack has some shape; a member that waits makes no
\* difference.
LEMMA SomeStack ==
  ASSUME StackInv, pc \in States
  PROVE  /\ \E s : Mem(Now, {}, s) /\ Len(s) \in Nat
         /\ \E s : Mem(Pending(Now), {}, s) /\ Len(s) \in Nat
<1>1. \E s \in {<<>>, Chain, Plain, Named, Members0, Members1, Listed, Headed, Titled,
                Braces, Typed, Lined, Padded} : Mem(Now, {}, s)
  BY DEF StackInv, Stack, States, HeadStates, DeclStates, FieldStates, ErrorStates, Final
<1>2. \A s \in {<<>>, Chain, Plain, Named, Members0, Members1, Listed, Headed, Titled,
                Braces, Typed, Lined, Padded} : Len(s) \in Nat
  BY DEF Chain, Plain, Named, Members0, Members1, Listed, Headed, Titled, Braces, Typed, Lined,
         Padded
<1>3. \E s : Mem(Now, {}, s) /\ Len(s) \in Nat
  BY <1>1, <1>2
<1>4. \E s : Mem(Pending(Now), {}, s) /\ Len(s) \in Nat
  <2>1. CASE pc # "memberNext"
    BY <1>3, <2>1 DEF Pending
  <2>2. CASE pc = "memberNext"
    BY <1>2, <2>2, PendingMem
  <2> QED
    BY <2>1, <2>2
<1> QED
  BY <1>3, <1>4

\* The ends of a file.
LEMMA EndMemStep ==
  ASSUME IInv, StackInv, HeadError1 \/ EndOfFile1
  PROVE  MemInv'
<1>1. pc \in States
  BY DEF IInv, TypeOK, States
<1>2. pc' \in {"accepted", "aborted"}
  BY DEF HeadError1, EndOfFile1, Does, HeadError, EndOfFile, Accept, Abort
<1>3. \E m : Settles(m) /\ Mem(m, {}, <<>>)
  <2>1. CASE HeadError1
    <3>1. Settles(Destroy(Now, Len(Now.stack)))
      BY <2>1 DEF HeadError1, Does, Settles
    <3>2. Mem(Destroy(Now, Len(Now.stack)), {}, <<>>)
      BY <1>1, SomeStack, EmptyMem
    <3> QED
      BY <3>1, <3>2
  <2>2. CASE EndOfFile1 /\ pc = "body"
    <3> DEFINE d == Make(Now, 2, "document")
               s == <<"document">>
    <3>1. Settles(Destroy(ResetTable(d, "idents"), 1))
      BY <2>2 DEF EndOfFile1, Does, Settles
    <3>2. Mem(Now, {}, Plain)
      BY <2>2 DEF StackInv, Stack
    <3>3. Cuts(Plain, 2, <<>>) /\ Adds(<<>>, "document", s) /\ Cuts(s, 1, <<>>)
          /\ "document" \in HeapKinds
      BY DEF Cuts, Adds, Plain, HeapKinds
    <3>4. TopHolds(Plain, <<>>, Frees["document"])
      BY DEF TopHolds, Plain, Holds, Frees, HeapKinds, Symbols
    <3> HIDE DEF s
    <3>5. Mem(d, {}, s)
      BY <3>2, <3>3, <3>4, MakeMem
    <3> HIDE DEF d
    <3>6. Mem(ResetTable(d, "idents"), {}, s)
      BY <3>5, KeyMem DEF Tables
    <3>7. Mem(Destroy(ResetTable(d, "idents"), 1), {}, <<>>)
      BY <3>3, <3>6, DestroyMem
    <3> QED
      BY <3>1, <3>7
  <2>3. CASE EndOfFile1 /\ pc # "body"
    <3>1. Settles(Destroy(Pending(Now), Len(Pending(Now).stack)))
      BY <2>3 DEF EndOfFile1, Does, Settles
    <3>2. Mem(Destroy(Pending(Now), Len(Pending(Now).stack)), {}, <<>>)
      BY <1>1, SomeStack, EmptyMem
    <3> QED
      BY <3>1, <3>2
  <2> QED
    BY <2>1, <2>2, <2>3
<1>4. After(<<>>)
  BY <1>3, SettlesMem
<1> QED
  BY <1>2, <1>4 DEF MemInv, StackInv, Stack, After
-----------------------------------------------------------------------------
(* The invariant.                                                          *)

\* The parser starts with nothing.
LEMMA InitMem == Init1 => MemInv
<1> SUFFICES ASSUME Init1 PROVE MemInv
  OBVIOUS
<1>1. pc = "version" /\ mem.lost = mem.dropped
  BY DEF Init1, Init
<1>2. Now = [heap |-> <<>>, stack |-> <<>>, keys |-> [idents |-> {}, variables |-> {}],
             lost |-> {}, dropped |-> {}]
  <2> DEFINE none == <<>>
             empty == [idents |-> {}, variables |-> {}]
  <2>1. mem = [heap |-> none, stack |-> none, keys |-> empty, lost |-> {}, dropped |-> {}]
    BY DEF Init1
  <2> HIDE DEF none, empty
  <2>2. Now = [[mem EXCEPT !.lost = {}] EXCEPT !.dropped = {}]
    BY DEF Now
  <2>3. [mem EXCEPT !.lost = {}] =
          [heap |-> none, stack |-> none, keys |-> empty, lost |-> {}, dropped |-> {}]
    BY <2>1
  <2>4. Now = [heap |-> none, stack |-> none, keys |-> empty, lost |-> {}, dropped |-> {}]
    BY <2>2, <2>3
  <2> QED
    BY <2>4 DEF none, empty
<1>3. IsMem(Now) /\ Len(Now.stack) = 0 /\ DOMAIN Now.heap = {}
      /\ Tabled(Now) = {} /\ Now.dropped = {} /\ Now.keys.idents \cap Now.keys.variables = {}
  BY <1>2 DEF IsMem, Tabled
<1>4. Stacked(Now) = {} /\ PartsIn(Now.heap) = {}
  BY <1>3 DEF Stacked, PartsIn
<1>5. HeapOK(Now.heap)
  BY <1>3, FS_EmptySet DEF HeapOK
<1>6. Forest(Now.heap, Stacked(Now) \cup Tabled(Now) \cup {}, Now.dropped)
  BY <1>3, <1>4, <1>5 DEF Forest
<1>7. StackOK(Now) /\ TablesOK(Now)
  BY <1>3 DEF StackOK, TablesOK
<1>8. Stack(<<>>)
  BY <1>3, <1>4, <1>6, <1>7 DEF Stack, Mem, Shaped, Sound
<1> QED
  BY <1>1, <1>8 DEF MemInv, StackInv

\* Each step with memory is a step of the parser.
LEMMA Next1IsNext == Next1 => Next
<1> SUFFICES ASSUME Next1 PROVE Next
  OBVIOUS
<1>1. CASE HeadToken1 \/ VersionNumber1 \/ HeadEnd1 \/ HeadError1
  BY <1>1 DEF HeadToken1, VersionNumber1, HeadEnd1, HeadError1, Does, Next
<1>2. CASE \E kind \in {"alias", "enum", "struct", "msg"} : Keyword1(kind)
  BY <1>2 DEF Keyword1, Does, Next
<1>3. CASE \E n \in Names : DeclName1(n) \/ MemberName1(n) \/ FieldName1(n)
  BY <1>3 DEF DeclName1, MemberName1, FieldName1, Does, Next
<1>4. CASE \E t \in Types : DeclType1(t)
  BY <1>4 DEF DeclType1, Does, Next
<1>5. CASE LeftBrace1 \/ AliasEnd1 \/ MemberEqual1 \/ MemberComma1 \/ EnumEnd1
  BY <1>5 DEF LeftBrace1, AliasEnd1, MemberEqual1, MemberComma1, EnumEnd1, Does, Next
<1>6. CASE \E v \in EnumNumbers : MemberNumber1(v)
  BY <1>6 DEF MemberNumber1, Does, Next
<1>7. CASE Modifier1
  <2>1. (\E r \in Reliabilities : Reliability(r)) \/ (\E l \in Layouts : FieldLayout(l))
    BY <1>7 DEF Modifier1, Does
  <2> QED
    BY <2>1 DEF Next
<1>8. CASE StructEnd1 \/ MsgEnd1 \/ FieldComma1 \/ FieldEnd1
  BY <1>8 DEF StructEnd1, MsgEnd1, FieldComma1, FieldEnd1, Does, Next
<1>9. CASE \E t \in Types \cup Names : FieldType1(t)
  BY <1>9 DEF FieldType1, Does, Next
<1>10. CASE FieldArray1
  <2>1. FieldList \/ \E n \in TupleNumbers : FieldTuple(n)
    BY <1>10 DEF FieldArray1, Does
  <2> QED
    BY <2>1 DEF Next
<1>11. CASE \E n \in AlignNumbers : FieldAlign1(n)
  BY <1>11 DEF FieldAlign1, Does, Next
<1>12. CASE SyntaxErrorInDecl1 \/ SyntaxErrorInFields1 \/ Recovery1 \/ LexError1 \/ EndOfFile1
  BY <1>12 DEF SyntaxErrorInDecl1, SyntaxErrorInFields1, Recovery1, LexError1, EndOfFile1,
               Does, Next
<1> QED
  BY <1>1, <1>2, <1>3, <1>4, <1>5, <1>6, <1>7, <1>8, <1>9, <1>10, <1>11, <1>12 DEF Next1

\* A step keeps the stack in the shape of the parser's state, with one owner
\* for each object.
LEMMA NextMem == IInv /\ MemInv /\ [Next1]_allVars => MemInv'
<1> SUFFICES ASSUME IInv, MemInv, [Next1]_allVars PROVE MemInv'
  OBVIOUS
<1>0. StackInv
  BY DEF MemInv
<1>1. CASE HeadToken1 \/ HeadEnd1
  BY <1>0, <1>1, HeadMemStep
<1>2. CASE HeadError1 \/ EndOfFile1
  BY <1>0, <1>2, EndMemStep
<1>3. CASE LeftBrace1 \/ \E kind \in {"alias", "enum", "struct", "msg"} : Keyword1(kind)
  BY <1>0, <1>3, OpenMemStep
<1>4. CASE \E n \in Names : DeclName1(n) \/ MemberName1(n)
  BY <1>0, <1>4, NameStep
<1>5. CASE \E n \in Names : FieldName1(n)
  BY <1>0, <1>5, FieldNameMemStep
<1>6. CASE \/ VersionNumber1 \/ MemberEqual1 \/ FieldComma1 \/ Recovery1 \/ LexError1
           \/ \E t \in Types : DeclType1(t)
  BY <1>0, <1>6, QuietMemStep
<1>7. CASE AliasEnd1 \/ StructEnd1 \/ MsgEnd1
  BY <1>0, <1>7, DeclEndMemStep
<1>8. CASE MemberComma1 \/ EnumEnd1 \/ \E v \in EnumNumbers : MemberNumber1(v)
  BY <1>0, <1>8, MemberMemStep
<1>9. CASE Modifier1
  BY <1>0, <1>9, ModifierMemStep
<1>10. CASE \E t \in Types \cup Names : FieldType1(t)
  BY <1>0, <1>10, FieldTypeMemStep
<1>11. CASE FieldArray1
  BY <1>0, <1>11, FieldArrayMemStep
<1>12. CASE FieldEnd1 \/ \E n \in AlignNumbers : FieldAlign1(n)
  BY <1>0, <1>12, FieldEndMemStep
<1>13. CASE SyntaxErrorInDecl1
  BY <1>0, <1>13, DeclErrorMemStep
<1>14. CASE SyntaxErrorInFields1
  BY <1>0, <1>14, LineErrorMemStep
<1>15. CASE UNCHANGED allVars
  <2>1. pc' = pc /\ mem' = mem /\ decl' = decl
    BY <1>15 DEF allVars
  <2>2. Now' = Now /\ Members0' = Members0 /\ Members1' = Members1
    BY <2>1 DEF Now, Members0, Members1
  <2> QED
    BY <2>1, <2>2 DEF MemInv, StackInv, Stack
<1> QED
  BY <1>1, <1>2, <1>3, <1>4, <1>5, <1>6, <1>7, <1>8, <1>9, <1>10, <1>11, <1>12, <1>13, <1>14,
     <1>15 DEF Next1

\* The step of the conjunction with the parser's own invariant.
LEMMA NextBoth == IInv /\ MemInv /\ [Next1]_allVars => IInv' /\ MemInv' /\ [Next]_vars
<1> SUFFICES ASSUME IInv, MemInv, [Next1]_allVars PROVE IInv' /\ MemInv' /\ [Next]_vars
  OBVIOUS
<1>1. [Next]_vars
  BY Next1IsNext DEF allVars, vars
<1> QED
  BY <1>1, NextIInv, NextMem

\* In every state yyvs has the shape the automaton's state stands for, the
\* stack, the registries and the objects on them own each object once
\* (compiler.y:36, bpc_semantic_values.c:104-275).
THEOREM MemInvariance == MemSpec => [](IInv /\ MemInv)
<1>1. Init1 => IInv /\ MemInv
  BY InitIInv, InitMem DEF Init1
<1> QED
  BY <1>1, NextBoth, PTL DEF MemSpec

\* Who owns what changes nothing about what the parser does: what is proved
\* of BpcParser holds of the parser with its memory.
THEOREM MemoryIsTransparent == MemSpec => Init /\ [][Next]_vars
<1>1. Init1 => Init
  BY DEF Init1
<1>2. Init1 => IInv /\ MemInv
  BY InitIInv, InitMem DEF Init1
<1> QED
  BY <1>1, <1>2, NextBoth, PTL DEF MemSpec
-----------------------------------------------------------------------------
(* What the runs check.                                                    *)

\* The invariant's forest, in the words of the state.
LEMMA StateForest ==
  ASSUME IInv, MemInv
  PROVE  /\ Sound(Now, {})
         /\ Now.heap = mem.heap /\ Now.stack = mem.stack /\ Now.keys = mem.keys
         /\ DOMAIN mem.stack = 1..Len(mem.stack)
         /\ DOMAIN mem.keys = {"idents", "variables"}
         /\ Forest(mem.heap, Stacked(mem) \cup Tabled(mem), {})
         /\ Stacked(mem) \cap Tabled(mem) = {}
<1>1. pc \in States
  BY DEF IInv, TypeOK, States
<1>2. Sound(Now, {})
  BY <1>1, SomeStack DEF MemInv, Mem
<1>3. IsMem(Now)
  BY <1>2 DEF Sound
<1>4. /\ DOMAIN Now = {"heap", "stack", "keys", "lost", "dropped"}
      /\ Now.stack \in Seq(Entry)
      /\ Now.keys \in [idents : SUBSET Nat, variables : SUBSET Nat]
  BY <1>3 DEF IsMem
<1>5. /\ DOMAIN Now = DOMAIN mem /\ Now.heap = mem.heap /\ Now.stack = mem.stack
      /\ Now.keys = mem.keys /\ Now.dropped = {}
  BY <1>4 DEF Now
<1>6. Stacked(Now) = Stacked(mem) /\ Tabled(Now) = Tabled(mem)
  BY <1>5 DEF Stacked, Tabled
<1>7. Stacked(mem) \cup Tabled(mem) \cup {} = Stacked(mem) \cup Tabled(mem)
  OBVIOUS
<1>8. /\ Forest(mem.heap, Stacked(mem) \cup Tabled(mem), {})
      /\ Stacked(mem) \cap Tabled(mem) = {}
  BY <1>2, <1>5, <1>6, <1>7 DEF Sound
<1>9. DOMAIN mem.stack = 1..Len(mem.stack) /\ DOMAIN mem.keys = {"idents", "variables"}
  BY <1>4, <1>5
<1> QED
  BY <1>2, <1>5, <1>8, <1>9

\* In a forest of roots alone, what is pointed to is what is alive.
LEMMA PointedIsAlive ==
  ASSUME IInv, MemInv
  PROVE  Pointed(mem) = DOMAIN mem.heap
<1>1. /\ Sound(Now, {}) /\ Now.stack = mem.stack
      /\ Forest(mem.heap, Stacked(mem) \cup Tabled(mem), {})
  BY StateForest
<1>2. Len(mem.stack) \in Nat
  BY <1>1 DEF Sound, IsMem
<1>3. Len(mem.stack) - Len(mem.stack) + 1 = 1
  BY <1>2
<1>4. Owned(mem, Len(mem.stack)) = Stacked(mem)
  BY <1>3 DEF Owned, Stacked
<1>5. Pointed(mem) = Stacked(mem) \cup Tabled(mem) \cup PartsIn(mem.heap)
  BY <1>4 DEF Pointed, PartsIn, Tabled
<1>6. PartsIn(mem.heap) \subseteq DOMAIN mem.heap
  BY <1>1 DEF Forest, HeapOK, PartsIn
<1> QED
  BY <1>1, <1>5, <1>6 DEF Forest

\* Two pointers never lead to one object.
LEMMA OnePointerEach ==
  ASSUME IInv, MemInv
  PROVE  Cardinality(Pointers) = Cardinality(DOMAIN mem.heap)
<1> DEFINE st == mem.stack
           h == mem.heap
           tab == mem.keys
           onStack(k, i) == k \in 1..Len(st) /\ i \in st[k].owns
           inHeap(k, i) == k \in DOMAIN h /\ i \in h[k].parts
           inTable(k, i) == k \in Tables /\ i \in tab[k]
           leads(tag, k, i) == \/ tag = "stack" /\ onStack(k, i)
                               \/ tag = "object" /\ inHeap(k, i)
                               \/ tag = "table" /\ inTable(k, i)
           f == [p \in Pointers |-> p[3]]
<1>1. /\ Sound(Now, {}) /\ Now.heap = h /\ Now.stack = st /\ Now.keys = tab
      /\ DOMAIN st = 1..Len(st) /\ DOMAIN tab = Tables
      /\ Forest(h, Stacked(mem) \cup Tabled(mem), {})
      /\ Stacked(mem) \cap Tabled(mem) = {}
  BY StateForest DEF Tables
<1>2. ASSUME NEW p
      PROVE  p \in Pointers <=> \E tag, k, i : leads(tag, k, i) /\ p = <<tag, k, i>>
  <2>1. p \in Pointers <=> \/ \E k \in DOMAIN st : \E i \in st[k].owns : p = <<"stack", k, i>>
                           \/ \E k \in DOMAIN h : \E i \in h[k].parts : p = <<"object", k, i>>
                           \/ \E k \in DOMAIN tab : \E i \in tab[k] : p = <<"table", k, i>>
    BY DEF Pointers
  <2>2. (\E tag, k, i : leads(tag, k, i) /\ p = <<tag, k, i>>)
          <=> \/ \E k, i : onStack(k, i) /\ p = <<"stack", k, i>>
              \/ \E k, i : inHeap(k, i) /\ p = <<"object", k, i>>
              \/ \E k, i : inTable(k, i) /\ p = <<"table", k, i>>
    OBVIOUS
  <2> HIDE DEF leads
  <2> QED
    BY <1>1, <2>1, <2>2
<1>3. /\ \A k, i : onStack(k, i) => i \in Stacked(mem)
      /\ \A k, i : inHeap(k, i) => i \in PartsIn(h)
      /\ \A k, i : inTable(k, i) => i \in Tabled(mem)
  BY DEF Stacked, Tabled, PartsIn, Tables
<1>4. /\ PartsIn(h) \subseteq DOMAIN h
      /\ (Stacked(mem) \cup Tabled(mem)) \cap PartsIn(h) = {}
      /\ DOMAIN h = Stacked(mem) \cup Tabled(mem) \cup PartsIn(h)
  <2>1. PartsIn(h) \subseteq DOMAIN h
    BY <1>1 DEF Forest, HeapOK, PartsIn
  <2> QED
    BY <1>1, <2>1 DEF Forest
<1>5. \A i : /\ i \in Stacked(mem) => \E k : onStack(k, i)
             /\ i \in PartsIn(h) => \E k : inHeap(k, i)
             /\ i \in Tabled(mem) => \E k : inTable(k, i)
  BY DEF Stacked, Tabled, PartsIn, Tables
<1>6. \A k, l, i : /\ onStack(k, i) /\ onStack(l, i) => k = l
                   /\ inHeap(k, i) /\ inHeap(l, i) => k = l
                   /\ inTable(k, i) /\ inTable(l, i) => k = l
  <2>1. \A j, k \in 1..Len(st) : j # k => st[j].owns \cap st[k].owns = {}
    BY <1>1 DEF Sound, StackOK
  <2>2. \A j, k \in DOMAIN h : j # k => h[j].parts \cap h[k].parts = {}
    BY <1>1 DEF Forest, HeapOK
  <2>3. tab.idents \cap tab.variables = {}
    BY <1>1 DEF Sound, TablesOK
  <2> QED
    BY <2>1, <2>2, <2>3 DEF Tables
<1> HIDE DEF onStack, inHeap, inTable
<1>7. \A tag, k, i : leads(tag, k, i) => i \in DOMAIN h
  BY <1>3, <1>4
<1>8. \A tag, tag2, k, l, i : leads(tag, k, i) /\ leads(tag2, l, i) => tag = tag2 /\ k = l
  BY <1>1, <1>3, <1>4, <1>6, ZenonT(60)
<1>9. \A i \in DOMAIN h : \E tag, k : leads(tag, k, i)
  BY <1>4, <1>5
<1> HIDE DEF leads
<1>10. f \in Bijection(Pointers, DOMAIN h)
  <2>1. \A tag, k, i : leads(tag, k, i) => <<tag, k, i>> \in Pointers /\ f[<<tag, k, i>>] = i
    BY <1>2
  <2>2. \A p \in Pointers : f[p] \in DOMAIN h
    BY <1>2, <1>7, <2>1
  <2>3. ASSUME NEW p \in Pointers, NEW q \in Pointers, f[p] = f[q] PROVE p = q
    <3>1. PICK tag, k, i : leads(tag, k, i) /\ p = <<tag, k, i>>
      BY <1>2
    <3>2. PICK tag2, l, j : leads(tag2, l, j) /\ q = <<tag2, l, j>>
      BY <1>2
    <3>3. i = j
      BY <2>1, <2>3, <3>1, <3>2
    <3> QED
      BY <1>8, <3>1, <3>2, <3>3
  <2>4. \A i \in DOMAIN h : \E p \in Pointers : f[p] = i
    BY <1>9, <2>1
  <2>5. f \in [Pointers -> DOMAIN h] /\ DOMAIN f = Pointers
    BY <2>2
  <2> HIDE DEF f
  <2> QED
    BY <2>3, <2>4, <2>5 DEF Bijection, Injection, Surjection, IsInjective
<1>11. IsFiniteSet(DOMAIN h)
  BY <1>1 DEF Forest, HeapOK
<1>12. ExistsBijection(DOMAIN h, Pointers)
  BY <1>10, Fun_ExistsBijSymmetric DEF ExistsBijection
<1> QED
  BY <1>11, <1>12, FS_Bijection

\* Nothing is freed twice or used after it was freed, whatever the file says
\* and wherever it goes wrong: each object has one owner, and what somebody
\* owns is alive.
THEOREM OneOwnerHolds == MemSpec => []OneOwner
<1>1. IInv /\ MemInv => OneOwner
  BY PointedIsAlive, OnePointerEach DEF OneOwner
<1> QED
  BY <1>1, MemInvariance, PTL

\* When the parser has returned, only the keys of the tables are alive.
LEMMA OnlyKeysAtTheEnd ==
  ASSUME IInv, MemInv, pc \in Final
  PROVE  DOMAIN mem.heap = mem.keys.idents \cup mem.keys.variables
<1> DEFINE h == mem.heap
           R == Tabled(mem)
           D == DOMAIN h \ R
<1>1. Mem(Now, {}, <<>>)
  BY DEF MemInv, StackInv, Stack, Final
<1>2. /\ Sound(Now, {}) /\ Now.heap = h /\ Now.stack = mem.stack /\ Now.keys = mem.keys
      /\ Forest(h, Stacked(mem) \cup R, {})
  BY StateForest
<1>3. Stacked(mem) = {}
  BY <1>1, <1>2 DEF Mem, Shaped, Stacked
<1>4. Forest(h, R, {})
  <2>1. {} \cup R = R
    OBVIOUS
  <2> QED
    BY <1>2, <1>3, <2>1
<1>5. \A i \in R : h[i].parts = {}
  <2>1. \A i \in R : h[i].kind = "key" /\ i \in DOMAIN h
    BY <1>2 DEF Sound, TablesOK, Tabled, Forest
  <2>2. Frees["key"] = {}
    BY DEF Frees, HeapKinds
  <2> QED
    BY <1>4, <2>1, <2>2 DEF Forest, HeapOK
<1>6. Forest(h, R, D)
  <2>1. \A i \in DOMAIN h : \A p \in h[i].parts : p \in D /\ i \in D
    BY <1>4, <1>5 DEF Forest, HeapOK, PartsIn
  <2> QED
    BY <1>4, <2>1 DEF Forest
<1> DEFINE X == Reached(h, DOMAIN h \ (R \cup PartsIn(h)), AllParts)
<1>7. X = {}
  BY <1>4, SettleForest
<1> HIDE DEF D
<1>8. X = D
  BY <1>6, SettleForest
<1>9. D = {}
  BY <1>7, <1>8
<1> QED
  BY <1>4, <1>9 DEF D, Forest, Tabled

\* What a step leaves to nobody is what YYERROR popped, and a parser that has
\* returned has freed everything but the keys.
THEOREM OnlyRefusedIsLostHolds == MemSpec => []OnlyRefusedIsLost
<1>1. IInv /\ MemInv => OnlyRefusedIsLost
  BY OnlyKeysAtTheEnd DEF OnlyRefusedIsLost, MemInv
<1> QED
  BY <1>1, MemInvariance, PTL
=============================================================================
