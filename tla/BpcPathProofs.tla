--------------------------- MODULE BpcPathProofs ---------------------------
(***************************************************************************)
(* Theorems about the include of the C++ source, for paths of any length   *)
(* and any names.                                                          *)
(***************************************************************************)
EXTENDS BpcPath, BpcRulesProofs, SequenceTheorems

\* The pieces between dots.  (The provers do not know the members of STRING.)
Piece == STRING \cup {"", "hpp"}

\* A separator or a name, and sequences of them: paths, names, places.
Token == Seq(Piece)
Tokens == Seq(Token)
-----------------------------------------------------------------------------
(* The loops along a path *)

\* The tokens with a name of their own.
LEMMA TokenFacts ==
  /\ Slash \in Token /\ Dot \in Token /\ DotDot \in Token /\ NoName \in Token
  /\ DotDot \notin {Dot, NoName, Slash} /\ Slash # NoName /\ Slash # Dot /\ Dot # NoName
<1>1. \A S : \A s \in S : /\ <<>> \in Seq(S) /\ <<s>> \in Seq(S)
                           /\ <<s, s>> \in Seq(S) /\ <<s, s, s>> \in Seq(S)
  OBVIOUS
<1>2. "" \in Piece
  BY DEF Piece
<1>3. Slash \in Token /\ Dot \in Token /\ DotDot \in Token /\ NoName \in Token
  BY <1>1, <1>2 DEF Slash, Dot, DotDot, NoName, Token
<1>4. \A s : Len(<<>>) = 0 /\ Len(<<s>>) = 1 /\ Len(<<s, s>>) = 2 /\ Len(<<s, s, s>>) = 3
  OBVIOUS
<1>5. DotDot \notin {Dot, NoName, Slash} /\ Slash # NoName /\ Slash # Dot /\ Dot # NoName
  BY <1>4 DEF Slash, Dot, DotDot, NoName
<1> QED
  BY <1>3, <1>5

\* A piece of a sequence.
LEMMA PieceFacts ==
  ASSUME NEW S, NEW s \in Seq(S), NEW m \in 1..(Len(s) + 1), NEW n \in (m - 1)..Len(s)
  PROVE  /\ SubSeq(s, m, n) \in Seq(S) /\ Len(SubSeq(s, m, n)) = n - m + 1
         /\ \A k \in 1..(n - m + 1) : SubSeq(s, m, n)[k] = s[m + k - 1]
<1>1. Len(s) \in Nat /\ m \in Int /\ n \in Int /\ (m <= n \/ n - m + 1 = 0)
  OBVIOUS
<1>2. \A i \in m..n : s[i] \in S
  OBVIOUS
<1> QED
  BY <1>1, <1>2, SubSeqProperties

LEMMA JoinFacts ==
  ASSUME NEW p \in Tokens, NEW q \in Tokens
  PROVE  /\ p \o q \in Tokens /\ Len(p \o q) = Len(p) + Len(q)
         /\ \A k \in 1..Len(p) : (p \o q)[k] = p[k]
         /\ \A k \in 1..Len(q) : (p \o q)[Len(p) + k] = q[k]
BY DEF Tokens

LEMMA JoinAssociative ==
  ASSUME NEW p \in Tokens, NEW q \in Tokens, NEW r \in Tokens
  PROVE  (p \o q) \o r = p \o (q \o r)
<1>1. \A s, t, u \in Seq(Token) : (s \o t) \o u = s \o (t \o u)
  BY ConcatAssociative
<1> QED
  BY <1>1 DEF Tokens

LEMMA FrontFacts ==
  ASSUME NEW S, NEW s \in Seq(S), s # <<>>
  PROVE  /\ Front(s) \in Seq(S) /\ Len(Front(s)) = Len(s) - 1
         /\ \A k \in 1..(Len(s) - 1) : Front(s)[k] = s[k]
<1>1. Len(s) \in Nat /\ Len(s) # 0 /\ 1 \in 1..(Len(s) + 1) /\ Len(s) - 1 \in (1 - 1)..Len(s)
  OBVIOUS
<1> DEFINE n == Len(s) - 1
<1>2. Front(s) = SubSeq(s, 1, n) /\ n - 1 + 1 = n /\ \A k \in 1..n : 1 + k - 1 = k
  BY <1>1 DEF Front
<1> QED
  BY <1>1, <1>2, PieceFacts

LEMMA StepTyped ==
  ASSUME NEW at \in Tokens, NEW name \in Token
  PROVE  Step(at, name) \in Tokens
<1>1. at # <<>> => Front(at) \in Tokens
  BY FrontFacts DEF Tokens
<1>2. Append(at, name) \in Tokens
  BY DEF Tokens
<1> QED
  BY <1>1, <1>2 DEF Step

\* u goes along the path, from at on.
Walks(u, at, path) ==
  /\ u[0] = at
  /\ \A k \in 1..Len(path) : u[k] = Step(u[k - 1], path[k])

LEMMA WalkRecursion ==
  ASSUME NEW at \in Tokens, NEW path \in Tokens
  PROVE  \E u \in [0..Len(path) -> Tokens] :
           Walks(u, at, path) /\ Walk(at, path) = u[Len(path)]
<1> DEFINE n == Len(path)
           step == [k \in 1..n |-> [s \in Tokens |-> Step(s, path[k])]]
           Rec(f) == [k \in 0..n |-> IF k = 0 THEN at ELSE Step(f[k - 1], path[k])]
           to == CHOOSE f : f = Rec(f)
<1>1. Walk(at, path) = to[n]
  BY DEF Walk
<1>2. n \in Nat /\ \A k \in 1..n : path[k] \in Token
  BY DEF Tokens
<1> HIDE DEF n
<1>3. step \in [1..n -> [Tokens -> Tokens]]
  BY <1>2, StepTyped
<1>4. PICK f \in [0..n -> Tokens] : Follows(f, n, at, step)
  <2> HIDE DEF step
  <2> QED
    BY <1>2, <1>3, SegmentRecursion
<1>5. f[0] = at /\ \A k \in 1..n : f[k] = Step(f[k - 1], path[k])
  <2>1. ASSUME NEW k \in 1..n PROVE f[k] = Step(f[k - 1], path[k])
    <3>1. k - 1 \in 0..n /\ f[k - 1] \in Tokens
      BY <1>2, <1>4
    <3>2. f[k] = step[k][f[k - 1]]
      BY <1>4 DEF Follows
    <3> QED
      BY <3>1, <3>2
  <2> QED
    BY <1>4, <2>1 DEF Follows
<1>6. f = Rec(f)
  <2>1. ASSUME NEW k \in 0..n PROVE f[k] = Rec(f)[k]
    BY <1>2, <1>5
  <2> QED
    BY <2>1
<1> HIDE DEF Rec
<1>7. to = Rec(to)
  BY <1>6
<1> HIDE DEF to
<1>8. to[0] = at /\ \A k \in 1..n : to[k] = Step(to[k - 1], path[k])
  BY <1>2, <1>7 DEF Rec
<1> DEFINE Same == {k \in 0..n : to[k] = f[k]}
<1>9. 0 \in Same /\ \A k \in 1..n : k - 1 \in Same => k \in Same
  BY <1>2, <1>5, <1>8
<1>10. n \in Same
  <2> HIDE DEF Same
  <2>1. 0..n \subseteq Same
    BY <1>2, <1>9, SegmentInduction
  <2> QED
    BY <1>2, <2>1
<1>11. Walks(f, at, path) /\ Walk(at, path) = f[Len(path)]
  BY <1>1, <1>5, <1>10 DEF Walks, n
<1> QED
  BY <1>4, <1>11 DEF n

\* There is one way along a path.
LEMMA OneWalk ==
  ASSUME NEW at \in Tokens, NEW path \in Tokens,
         NEW u, Walks(u, at, path), NEW v, Walks(v, at, path)
  PROVE  \A k \in 0..Len(path) : u[k] = v[k]
<1> DEFINE n == Len(path)
           Same == {k \in 0..n : u[k] = v[k]}
<1>1. n \in Nat
  BY DEF Tokens
<1>2. 0 \in Same /\ \A k \in 1..n : k - 1 \in Same => k \in Same
  BY <1>1 DEF Walks
<1> HIDE DEF Same, n
<1>3. 0..n \subseteq Same
  BY <1>1, <1>2, SegmentInduction
<1> QED
  BY <1>3 DEF Same, n

LEMMA WalkTyped ==
  ASSUME NEW at \in Tokens, NEW path \in Tokens
  PROVE  Walk(at, path) \in Tokens
<1>1. PICK u \in [0..Len(path) -> Tokens] : Walk(at, path) = u[Len(path)]
  BY WalkRecursion
<1> QED
  BY <1>1 DEF Tokens

LEMMA WalkNowhere ==
  ASSUME NEW at \in Tokens
  PROVE  Walk(at, <<>>) = at
<1>1. <<>> \in Tokens /\ Len(<<>>) = 0
  BY DEF Tokens
<1>2. PICK u : Walks(u, at, <<>>) /\ Walk(at, <<>>) = u[0]
  BY <1>1, WalkRecursion
<1> QED
  BY <1>2 DEF Walks

\* The way along two paths is the way along the first and then the second.
LEMMA WalkJoin ==
  ASSUME NEW at \in Tokens, NEW p \in Tokens, NEW q \in Tokens
  PROVE  Walk(at, p \o q) = Walk(Walk(at, p), q)
<1> DEFINE r == p \o q
           m == Len(p)
           n == Len(q)
<1>1. /\ r \in Tokens /\ Len(r) = m + n /\ m \in Nat /\ n \in Nat
      /\ \A k \in 1..m : r[k] = p[k]
      /\ \A k \in 1..n : r[m + k] = q[k]
  BY DEF Tokens
<1>2. PICK u \in [0..Len(r) -> Tokens] : Walks(u, at, r) /\ Walk(at, r) = u[Len(r)]
  BY <1>1, WalkRecursion
<1>3. PICK v \in [0..m -> Tokens] : Walks(v, at, p) /\ Walk(at, p) = v[m]
  BY WalkRecursion
<1>4. Walks(u, at, p)
  BY <1>1, <1>2 DEF Walks
<1>5. v[m] = u[m] /\ v[m] \in Tokens
  BY <1>1, <1>3, <1>4, OneWalk
<1>6. PICK w \in [0..n -> Tokens] : Walks(w, v[m], q) /\ Walk(v[m], q) = w[n]
  BY <1>5, WalkRecursion
<1> DEFINE x == [k \in 0..n |-> u[m + k]]
<1> HIDE DEF r, m, n
<1>7. Walks(x, v[m], q)
  <2>1. x[0] = v[m]
    BY <1>1, <1>5
  <2>2. ASSUME NEW k \in 1..n PROVE x[k] = Step(x[k - 1], q[k])
    <3>1. m + k \in 1..Len(r) /\ k - 1 \in 0..n /\ k \in 0..n /\ (m + k) - 1 = m + (k - 1)
      BY <1>1
    <3>2. u[m + k] = Step(u[(m + k) - 1], r[m + k])
      BY <1>2, <3>1 DEF Walks
    <3>3. x[k] = u[m + k] /\ x[k - 1] = u[m + (k - 1)] /\ r[m + k] = q[k]
      BY <1>1, <3>1
    <3> QED
      BY <3>1, <3>2, <3>3
  <2> HIDE DEF x
  <2> QED
    BY <2>1, <2>2 DEF Walks, n
<1>8. n \in 0..n /\ x[n] = u[m + n]
  BY <1>1
<1> HIDE DEF x
<1>9. x[n] = w[n]
  BY <1>5, <1>6, <1>7, <1>8, OneWalk DEF n
<1> QED
  BY <1>1, <1>2, <1>3, <1>6, <1>8, <1>9 DEF r

\* One step more.
LEMMA WalkStep ==
  ASSUME NEW at \in Tokens, NEW p \in Tokens, NEW name \in Token
  PROVE  Walk(at, p \o <<name>>) = Step(Walk(at, p), name)
<1> DEFINE q == <<name>>
<1>1. q \in Tokens /\ Len(q) = 1 /\ q[1] = name
  BY DEF Tokens
<1> HIDE DEF q
<1>2. Walk(at, p) \in Tokens
  BY WalkTyped
<1>3. PICK u : Walks(u, Walk(at, p), q) /\ Walk(Walk(at, p), q) = u[1]
  BY <1>1, <1>2, WalkRecursion
<1>4. u[1] = Step(u[0], q[1]) /\ u[0] = Walk(at, p)
  <2>1. 1 \in 1..Len(q) /\ 1 - 1 = 0
    BY <1>1
  <2> QED
    BY <1>3, <2>1 DEF Walks
<1> QED
  BY <1>1, <1>3, <1>4, WalkJoin DEF q

Ups(n) == [k \in 1..n |-> DotDot]

\* Steps up take away the last names.
LEMMA WalkUps ==
  ASSUME NEW at \in Tokens, NEW n \in 0..Len(at)
  PROVE  Walk(at, Ups(n)) = SubSeq(at, 1, Len(at) - n)
<1> DEFINE path == Ups(n)
           l == Len(at)
<1>1. l \in Nat /\ n \in Nat /\ n <= l
  BY DEF Tokens
<1>2. path \in Tokens /\ Len(path) = n /\ \A k \in 1..n : path[k] = DotDot
  <2>1. DotDot \in Token
    BY TokenFacts
  <2>2. path = [k \in 1..n |-> DotDot]
    BY DEF Ups
  <2> HIDE DEF path
  <2> QED
    BY <1>1, <2>1, <2>2 DEF Tokens
<1>3. PICK u \in [0..n -> Tokens] : Walks(u, at, path) /\ Walk(at, path) = u[n]
  BY <1>2, WalkRecursion
<1> HIDE DEF path, l
<1>4. \A k \in 1..n : u[k] = Step(u[k - 1], DotDot)
  BY <1>2, <1>3 DEF Walks
<1>5. \A p \in Tokens : p # <<>> => Step(p, DotDot) = Front(p)
  BY DEF Step, DotDot, Dot, NoName, Slash
<1> DEFINE Good == {k \in 0..n : /\ u[k] \in Tokens /\ Len(u[k]) = l - k
                                 /\ \A j \in 1..(l - k) : u[k][j] = at[j]}
<1>6. 0 \in Good
  BY <1>1, <1>3 DEF Walks, l
<1>7. ASSUME NEW k \in 1..n, k - 1 \in Good PROVE k \in Good
  <2> DEFINE p == u[k - 1]
  <2>1. /\ p \in Tokens /\ Len(p) = l - k + 1 /\ l - k \in Nat /\ l - k + 1 # 0
        /\ \A j \in 1..(l - k + 1) : p[j] = at[j]
    BY <1>1, <1>7
  <2> HIDE DEF p
  <2>2. p # <<>>
    BY <2>1
  <2>3. u[k] = Front(p)
    BY <1>4, <1>5, <2>1, <2>2 DEF p
  <2>4. Front(p) \in Tokens /\ Len(Front(p)) = l - k /\ \A j \in 1..(l - k) : Front(p)[j] = p[j]
    <3>1. /\ Front(p) \in Tokens /\ Len(Front(p)) = Len(p) - 1
          /\ \A j \in 1..(Len(p) - 1) : Front(p)[j] = p[j]
      BY <2>1, <2>2, FrontFacts DEF Tokens
    <3>2. Len(p) - 1 = l - k
      BY <1>1, <2>1
    <3> QED
      BY <3>1, <3>2
  <2> QED
    BY <1>1, <2>1, <2>3, <2>4
<1>8. n \in Good
  <2> HIDE DEF Good
  <2>1. 0..n \subseteq Good
    BY <1>1, <1>6, <1>7, SegmentInduction
  <2> QED
    BY <1>1, <2>1
<1> DEFINE q == SubSeq(at, 1, l - n)
<1>9. q \in Tokens /\ Len(q) = l - n /\ \A j \in 1..(l - n) : q[j] = at[j]
  <2>1. 1 \in 1..(l + 1) /\ l - n \in (1 - 1)..l
    BY <1>1
  <2>2. /\ q \in Tokens /\ Len(q) = (l - n) - 1 + 1
        /\ \A j \in 1..((l - n) - 1 + 1) : q[j] = at[1 + j - 1]
    BY <2>1, PieceFacts DEF Tokens, l
  <2> HIDE DEF q
  <2> QED
    BY <1>1, <2>2
<1> HIDE DEF q
<1>10. u[n] = q
  BY <1>8, <1>9 DEF Tokens
<1> QED
  BY <1>3, <1>10 DEF path, q, l
-----------------------------------------------------------------------------
(* Steps up from the base *)

LEMMA AscentTyped == \A name \in Token : Ascent(name) \in Int
BY DEF Ascent

\* u counts the steps of base from position i on.
Climbs(u, base, i) ==
  /\ u[0] = 0
  /\ \A k \in 1..Len(base) : u[k] = IF k < i THEN 0 ELSE u[k - 1] + Ascent(base[k])

LEMMA StepsUpRecursion ==
  ASSUME NEW base \in Tokens, NEW i \in Nat \ {0}
  PROVE  \E u \in [0..Len(base) -> Int] :
           Climbs(u, base, i) /\ StepsUp(base, i) = u[Len(base)]
<1> DEFINE n == Len(base)
           Next1(k, x) == IF k < i THEN 0 ELSE x + Ascent(base[k])
           step == [k \in 1..n |-> [x \in Int |-> Next1(k, x)]]
           Rec(f) == [k \in 0..n |-> IF k < i THEN 0 ELSE f[k - 1] + Ascent(base[k])]
           up == CHOOSE f : f = Rec(f)
<1>1. StepsUp(base, i) = up[n]
  BY DEF StepsUp
<1>2. n \in Nat /\ \A k \in 1..n : base[k] \in Token
  BY DEF Tokens
<1> HIDE DEF n
<1>3. step \in [1..n -> [Int -> Int]]
  BY <1>2, AscentTyped
<1>4. PICK f \in [0..n -> Int] : Follows(f, n, 0, step)
  <2> DEFINE T == Int
  <2>1. 0 \in T /\ step \in [1..n -> [T -> T]]
    BY <1>3
  <2> HIDE DEF step, T
  <2>2. \E f \in [0..n -> T] : Follows(f, n, 0, step)
    BY <1>2, <2>1, SegmentRecursion
  <2> QED
    BY <2>2 DEF T
<1>5. f[0] = 0 /\ \A k \in 1..n : f[k] = Next1(k, f[k - 1])
  <2>1. ASSUME NEW k \in 1..n PROVE f[k] = Next1(k, f[k - 1])
    <3>1. k - 1 \in 0..n /\ f[k - 1] \in Int
      BY <1>2, <1>4
    <3>2. f[k] = step[k][f[k - 1]]
      BY <1>4 DEF Follows
    <3> QED
      BY <3>1, <3>2
  <2> QED
    BY <1>4, <2>1 DEF Follows
<1>6. f = Rec(f)
  <2>1. ASSUME NEW k \in 0..n PROVE f[k] = Rec(f)[k]
    BY <1>2, <1>5
  <2> QED
    BY <2>1
<1> HIDE DEF Rec
<1>7. up = Rec(up)
  BY <1>6
<1> HIDE DEF up
<1>8. up[0] = 0 /\ \A k \in 1..n : up[k] = Next1(k, up[k - 1])
  BY <1>2, <1>7 DEF Rec
<1> DEFINE Same == {k \in 0..n : up[k] = f[k]}
<1>9. 0 \in Same /\ \A k \in 1..n : k - 1 \in Same => k \in Same
  BY <1>2, <1>5, <1>8
<1>10. n \in Same
  <2> HIDE DEF Same
  <2>1. 0..n \subseteq Same
    BY <1>2, <1>9, SegmentInduction
  <2> QED
    BY <1>2, <2>1
<1>11. Climbs(f, base, i) /\ StepsUp(base, i) = f[Len(base)]
  BY <1>1, <1>5, <1>10 DEF Climbs, n
<1> QED
  BY <1>4, <1>11 DEF n

\* What is above c is not touched on the way to place, depth names below it.
Below(c, place, depth) ==
  /\ place \in Tokens /\ depth \in Nat /\ Len(place) = Len(c) + depth
  /\ \A j \in 1..Len(c) : place[j] = c[j]

LEMMA StepBelow ==
  ASSUME NEW c \in Tokens, NEW place, NEW depth, Below(c, place, depth),
         NEW name \in Token, name \notin {DotDot, Slash}
  PROVE  Below(c, Step(place, name), depth + Ascent(name))
<1>1. Len(c) \in Nat /\ place \in Tokens /\ depth \in Nat
  BY DEF Below, Tokens
<1>2. CASE name \in {Dot, NoName}
  <2>1. Step(place, name) = place /\ Ascent(name) = 0
    BY <1>2 DEF Step, Ascent
  <2> QED
    BY <1>1, <2>1 DEF Below
<1>3. CASE name \notin {Dot, NoName}
  <2> DEFINE q == Append(place, name)
  <2>1. Step(place, name) = q /\ Ascent(name) = 1
    BY <1>3 DEF Step, Ascent
  <2>2. q \in Tokens /\ Len(q) = Len(place) + 1 /\ \A j \in 1..Len(place) : q[j] = place[j]
    BY <1>1 DEF Tokens
  <2> HIDE DEF q
  <2>3. Len(place) = Len(c) + depth /\ \A j \in 1..Len(c) : j \in 1..Len(place) /\ place[j] = c[j]
    BY <1>1 DEF Below
  <2> QED
    BY <1>1, <2>1, <2>2, <2>3 DEF Below
<1> QED
  BY <1>2, <1>3

\* As many steps up as the base has names behind i lead back to its part before i.
LEMMA BackUp ==
  ASSUME NEW at \in Tokens, NEW base \in Tokens, NEW i \in 1..(Len(base) + 1),
         \A k \in 1..Len(base) : base[k] \notin {DotDot, Slash}
  PROVE  /\ StepsUp(base, i) \in Nat
         /\ Walk(Walk(at, base), Ups(StepsUp(base, i))) = Walk(at, SubSeq(base, 1, i - 1))
         /\ Len(Walk(at, base)) = Len(Walk(at, SubSeq(base, 1, i - 1))) + StepsUp(base, i)
<1> DEFINE n == Len(base)
           front == SubSeq(base, 1, i - 1)
<1>1. /\ n \in Nat /\ i \in Nat \ {0} /\ i - 1 \in 0..n /\ i <= n + 1
      /\ \A k \in 1..n : base[k] \in Token
  BY DEF Tokens
<1>2. /\ front \in Tokens /\ Len(front) = i - 1
      /\ \A k \in 1..(i - 1) : front[k] = base[k]
  <2> DEFINE m == i - 1
  <2>1. 1 \in 1..(n + 1) /\ m \in (1 - 1)..n
    BY <1>1
  <2>2. /\ front \in Tokens /\ Len(front) = m - 1 + 1
        /\ \A k \in 1..(m - 1 + 1) : front[k] = base[1 + k - 1]
    BY <2>1, PieceFacts DEF Tokens
  <2> HIDE DEF front
  <2> QED
    BY <1>1, <2>2
<1> HIDE DEF front
<1>3. PICK u \in [0..n -> Tokens] : Walks(u, at, base) /\ Walk(at, base) = u[n]
  BY WalkRecursion
<1>4. PICK v \in [0..n -> Int] : Climbs(v, base, i) /\ StepsUp(base, i) = v[n]
  BY <1>1, StepsUpRecursion
<1> DEFINE c == u[i - 1]
<1>5. Walk(at, front) = c
  <2>1. PICK w \in [0..Len(front) -> Tokens] : Walks(w, at, front) /\ Walk(at, front) = w[Len(front)]
    BY <1>2, WalkRecursion
  <2>2. Walks(u, at, front)
    <3>1. \A k \in 1..(i - 1) : k \in 1..n
      BY <1>1
    <3> QED
      BY <1>2, <1>3, <3>1 DEF Walks
  <2>3. w[i - 1] = u[i - 1]
    <3>1. i - 1 \in 0..Len(front)
      BY <1>1, <1>2
    <3> QED
      BY <1>2, <2>1, <2>2, <3>1, OneWalk
  <2> QED
    BY <1>2, <2>1, <2>3
<1>6. c \in Tokens
  BY <1>1, <1>3
<1>7. /\ \A k \in 1..n : u[k] = Step(u[k - 1], base[k])
      /\ v[0] = 0 /\ \A k \in 1..n : v[k] = IF k < i THEN 0 ELSE v[k - 1] + Ascent(base[k])
  BY <1>3, <1>4 DEF Walks, Climbs
<1> HIDE DEF n
<1> DEFINE Good == {k \in 0..n : k >= i - 1 => Below(c, u[k], v[k])}
<1>8. Below(c, c, 0)
  BY <1>6 DEF Below, Tokens
<1>9. 0 \in Good
  <2>1. 0 >= i - 1 => i - 1 = 0
    BY <1>1
  <2> QED
    BY <1>1, <1>7, <1>8, <2>1
<1>10. ASSUME NEW k \in 1..n, k - 1 \in Good PROVE k \in Good
  <2>0. k \in Int
    OBVIOUS
  <2>1. CASE k < i - 1
    BY <1>1, <2>1
  <2>2. CASE k = i - 1
    <3>1. v[k] = 0
      BY <1>1, <1>7, <2>2
    <3> QED
      BY <1>8, <2>2, <3>1
  <2>3. CASE k > i - 1
    <3>1. k - 1 >= i - 1 /\ ~(k < i)
      BY <1>1, <2>0, <2>3
    <3>2. Below(c, u[k - 1], v[k - 1])
      BY <1>10, <3>1
    <3>3. Below(c, Step(u[k - 1], base[k]), v[k - 1] + Ascent(base[k]))
      <4>1. base[k] \in Token /\ base[k] \notin {DotDot, Slash}
        BY <1>1 DEF n
      <4> HIDE DEF c
      <4> QED
        BY <1>6, <3>2, <4>1, StepBelow
    <3>4. u[k] = Step(u[k - 1], base[k]) /\ v[k] = v[k - 1] + Ascent(base[k])
      BY <1>7, <3>1
    <3> QED
      BY <3>3, <3>4
  <2> QED
    BY <1>1, <2>0, <2>1, <2>2, <2>3
<1>11. n \in Good
  <2> HIDE DEF Good
  <2>1. 0..n \subseteq Good
    BY <1>1, <1>9, <1>10, SegmentInduction
  <2> QED
    BY <1>1, <2>1
<1> DEFINE w == u[n]
           d == v[n]
<1>12. Below(c, w, d)
  BY <1>1, <1>11
<1> HIDE DEF c, w, d, Good
<1>13. /\ w \in Tokens /\ d \in Nat /\ Len(c) \in Nat /\ Len(w) = Len(c) + d
       /\ \A j \in 1..Len(c) : w[j] = c[j]
  BY <1>6, <1>12 DEF Below, Tokens
<1>14. d \in 0..Len(w) /\ Len(w) - d = Len(c)
  BY <1>13
<1>15. Walk(w, Ups(d)) = SubSeq(w, 1, Len(c))
  BY <1>13, <1>14, WalkUps
<1>16. SubSeq(w, 1, Len(c)) = c
  <2> DEFINE m == Len(c)
             q == SubSeq(w, 1, m)
  <2>1. 1 \in 1..(Len(w) + 1) /\ m \in (1 - 1)..Len(w) /\ m - 1 + 1 = m /\ m \in Nat
    BY <1>13
  <2>2. q \in Tokens /\ Len(q) = m - 1 + 1 /\ \A k \in 1..(m - 1 + 1) : q[k] = w[1 + k - 1]
    BY <1>13, <2>1, PieceFacts DEF Tokens
  <2> HIDE DEF q
  <2>3. Len(q) = Len(c) /\ \A k \in 1..Len(c) : q[k] = c[k]
    BY <1>13, <2>1, <2>2
  <2> QED
    BY <1>6, <2>2, <2>3 DEF Tokens, q
<1> QED
  BY <1>3, <1>4, <1>5, <1>13, <1>15, <1>16 DEF w, d, n, front
-----------------------------------------------------------------------------
(* A path without some of its tokens *)

\* u keeps what is not among the tokens.
Keeps(u, path, tokens) ==
  /\ u[0] = <<>>
  /\ \A k \in 1..Len(path) :
       u[k] = IF path[k] \in tokens THEN u[k - 1] ELSE Append(u[k - 1], path[k])

LEMMA WithoutRecursion ==
  ASSUME NEW path \in Tokens, NEW tokens
  PROVE  \E u \in [0..Len(path) -> Tokens] :
           Keeps(u, path, tokens) /\ Without(path, tokens) = u[Len(path)]
<1> DEFINE n == Len(path)
           Keep(k, s) == IF path[k] \in tokens THEN s ELSE Append(s, path[k])
           step == [k \in 1..n |-> [s \in Tokens |-> Keep(k, s)]]
           Rec(f) == [k \in 0..n |-> IF k = 0 THEN <<>>
                                     ELSE IF path[k] \in tokens THEN f[k - 1]
                                     ELSE Append(f[k - 1], path[k])]
           kept == CHOOSE f : f = Rec(f)
<1>1. Without(path, tokens) = kept[n]
  BY DEF Without
<1>2. n \in Nat /\ (\A k \in 1..n : path[k] \in Token) /\ <<>> \in Tokens
  BY DEF Tokens
<1>3. \A k \in 1..n : \A s \in Tokens : Keep(k, s) \in Tokens
  BY <1>2 DEF Tokens
<1> HIDE DEF n, Keep
<1>4. step \in [1..n -> [Tokens -> Tokens]]
  BY <1>3
<1>5. PICK f \in [0..n -> Tokens] : Follows(f, n, <<>>, step)
  <2> HIDE DEF step
  <2> QED
    BY <1>2, <1>4, SegmentRecursion
<1>6. f[0] = <<>> /\ \A k \in 1..n : f[k] = Keep(k, f[k - 1])
  <2>1. ASSUME NEW k \in 1..n PROVE f[k] = Keep(k, f[k - 1])
    <3>1. k - 1 \in 0..n /\ f[k - 1] \in Tokens
      BY <1>2, <1>5
    <3>2. f[k] = step[k][f[k - 1]]
      BY <1>5 DEF Follows
    <3> QED
      BY <3>1, <3>2
  <2> QED
    BY <1>5, <2>1 DEF Follows
<1>7. f = Rec(f)
  <2>1. ASSUME NEW k \in 0..n PROVE f[k] = Rec(f)[k]
    <3>1. CASE k = 0
      BY <1>6, <3>1
    <3>2. CASE k # 0
      <4>1. k \in 1..n
        BY <1>2, <3>2
      <4>2. f[k] = Keep(k, f[k - 1])
        BY <1>6, <4>1
      <4> QED
        BY <3>2, <4>2 DEF Keep
    <3> QED
      BY <3>1, <3>2
  <2> QED
    BY <2>1
<1> HIDE DEF Rec
<1>8. kept = Rec(kept)
  BY <1>7
<1> HIDE DEF kept
<1>9. kept[0] = <<>> /\ \A k \in 1..n : kept[k] = Keep(k, kept[k - 1])
  <2>1. kept = [k \in 0..n |-> IF k = 0 THEN <<>>
                              ELSE IF path[k] \in tokens THEN kept[k - 1]
                              ELSE Append(kept[k - 1], path[k])]
    BY <1>8 DEF Rec
  <2>2. 0 \in 0..n /\ \A k \in 1..n : k \in 0..n /\ k # 0
    BY <1>2
  <2> QED
    BY <2>1, <2>2 DEF Keep
<1> DEFINE Same == {k \in 0..n : kept[k] = f[k]}
<1>10. 0 \in Same /\ \A k \in 1..n : k - 1 \in Same => k \in Same
  BY <1>2, <1>6, <1>9
<1>11. n \in Same
  <2> HIDE DEF Same
  <2>1. 0..n \subseteq Same
    BY <1>2, <1>10, SegmentInduction
  <2> QED
    BY <1>2, <2>1
<1>12. Keeps(f, path, tokens) /\ Without(path, tokens) = f[Len(path)]
  BY <1>1, <1>6, <1>11 DEF Keeps, Keep, n
<1> QED
  BY <1>5, <1>12 DEF n

\* The elements of s are tokens of path that were to be kept.
AreOf(s, path, tokens) ==
  \A j \in 1..Len(s) : s[j] \notin tokens /\ \E k \in 1..Len(path) : s[j] = path[k]

\* What is left are tokens of the path, and it leads to the same place if what
\* was left out is no step.
LEMMA WithoutFacts ==
  ASSUME NEW path \in Tokens, NEW tokens, NEW at \in Tokens
  PROVE  /\ Without(path, tokens) \in Tokens
         /\ AreOf(Without(path, tokens), path, tokens)
         /\ tokens \subseteq {Dot, NoName, Slash} =>
              Walk(at, Without(path, tokens)) = Walk(at, path)
<1> DEFINE n == Len(path)
<1>1. n \in Nat /\ \A k \in 1..n : path[k] \in Token
  BY DEF Tokens
<1>2. PICK u \in [0..n -> Tokens] : Keeps(u, path, tokens) /\ Without(path, tokens) = u[n]
  BY WithoutRecursion
<1>3. PICK w \in [0..n -> Tokens] : Walks(w, at, path) /\ Walk(at, path) = w[n]
  BY WalkRecursion
<1>4. /\ u[0] = <<>> /\ w[0] = at
      /\ \A k \in 1..n : u[k] = IF path[k] \in tokens THEN u[k - 1] ELSE Append(u[k - 1], path[k])
      /\ \A k \in 1..n : w[k] = Step(w[k - 1], path[k])
  BY <1>2, <1>3 DEF Keeps, Walks
<1> HIDE DEF n
<1> DEFINE Good == {k \in 0..n : /\ AreOf(u[k], path, tokens)
                                 /\ tokens \subseteq {Dot, NoName, Slash} => Walk(at, u[k]) = w[k]}
<1>5. 0 \in Good
  <2>1. AreOf(<<>>, path, tokens) /\ Walk(at, <<>>) = at
    BY WalkNowhere DEF AreOf
  <2> QED
    BY <1>1, <1>4, <2>1
<1>6. ASSUME NEW k \in 1..n, k - 1 \in Good PROVE k \in Good
  <2> DEFINE s == u[k - 1]
  <2>1. s \in Tokens /\ path[k] \in Token /\ k \in 1..Len(path)
    BY <1>1, <1>2 DEF n
  <2>2. AreOf(s, path, tokens) /\ (tokens \subseteq {Dot, NoName, Slash} => Walk(at, s) = w[k - 1])
    BY <1>6
  <2> HIDE DEF s
  <2>3. CASE path[k] \in tokens
    <3>1. u[k] = s
      BY <1>4, <2>3 DEF s
    <3>2. tokens \subseteq {Dot, NoName, Slash} => w[k] = w[k - 1]
      BY <1>4, <2>3 DEF Step
    <3> QED
      BY <1>1, <2>2, <3>1, <3>2
  <2>4. CASE path[k] \notin tokens
    <3> DEFINE t == Append(s, path[k])
    <3>1. u[k] = t
      BY <1>4, <2>4 DEF s
    <3>2. t = s \o <<path[k]>> /\ Len(t) = Len(s) + 1 /\ t[Len(s) + 1] = path[k]
          /\ (\A j \in 1..Len(s) : t[j] = s[j]) /\ Len(s) \in Nat
      BY <2>1 DEF Tokens
    <3> HIDE DEF t
    <3>3. AreOf(t, path, tokens)
      <4> SUFFICES ASSUME NEW j \in 1..Len(t)
                   PROVE  t[j] \notin tokens /\ \E m \in 1..Len(path) : t[j] = path[m]
        BY DEF AreOf
      <4>1. j \in 1..Len(s) \/ j = Len(s) + 1
        BY <3>2
      <4> QED
        BY <2>1, <2>2, <2>4, <3>2, <4>1 DEF AreOf
    <3>4. Walk(at, t) = Step(Walk(at, s), path[k])
      BY <2>1, <3>2, WalkStep
    <3> QED
      BY <1>1, <1>4, <2>2, <3>1, <3>3, <3>4
  <2> QED
    BY <2>3, <2>4
<1>7. n \in Good
  <2> HIDE DEF Good
  <2>1. 0..n \subseteq Good
    BY <1>1, <1>5, <1>6, SegmentInduction
  <2> QED
    BY <1>1, <2>1
<1> QED
  BY <1>1, <1>2, <1>3, <1>7
-----------------------------------------------------------------------------
(* A path and its parts *)

LEMMA RootNameFacts ==
  ASSUME NEW path \in Tokens
  PROVE  RootNameLength(path) \in 0..Len(path)
<1> DEFINE S == FindSeparator(path, 2)
           j == CHOOSE k \in S : TRUE
<1>1. Len(path) \in Nat
  BY DEF Tokens
<1>2. S # {} => j \in S
  OBVIOUS
<1>3. \A k \in S : k \in (2 + 1)..Len(path)
  BY DEF FindSeparator
<1>4. RootNameLength(path) \in {0} \cup (IF Len(path) < 2 THEN {} ELSE IF S = {} THEN {2} ELSE {j - 1})
  BY DEF RootNameLength
<1> HIDE DEF j, S
<1> QED
  BY <1>1, <1>2, <1>3, <1>4

\* A path is what comes before a position and what comes behind.
LEMMA CutFacts ==
  ASSUME NEW path \in Tokens, NEW i \in 0..Len(path)
  PROVE  /\ SubSeq(path, 1, i) \in Tokens /\ SubSeq(path, i + 1, Len(path)) \in Tokens
         /\ Len(SubSeq(path, 1, i)) = i /\ Len(SubSeq(path, i + 1, Len(path))) = Len(path) - i
         /\ \A k \in 1..i : SubSeq(path, 1, i)[k] = path[k]
         /\ \A k \in 1..(Len(path) - i) : SubSeq(path, i + 1, Len(path))[k] = path[i + k]
         /\ path = SubSeq(path, 1, i) \o SubSeq(path, i + 1, Len(path))
<1> DEFINE n == Len(path)
           p == SubSeq(path, 1, i)
           q == SubSeq(path, i + 1, n)
<1>1. /\ n \in Nat /\ i \in Nat /\ i <= n /\ 1 \in 1..(n + 1) /\ i \in (1 - 1)..n
      /\ i + 1 \in 1..(n + 1) /\ n \in ((i + 1) - 1)..n /\ i - 1 + 1 = i /\ n - (i + 1) + 1 = n - i
      /\ (\A k \in 1..i : 1 + k - 1 = k) /\ \A k \in 1..(n - i) : (i + 1) + k - 1 = i + k
  BY DEF Tokens
<1>2. p \in Tokens /\ Len(p) = i - 1 + 1 /\ \A k \in 1..(i - 1 + 1) : p[k] = path[1 + k - 1]
  BY <1>1, PieceFacts DEF Tokens
<1>3. /\ q \in Tokens /\ Len(q) = n - (i + 1) + 1
      /\ \A k \in 1..(n - (i + 1) + 1) : q[k] = path[(i + 1) + k - 1]
  BY <1>1, PieceFacts, ZenonT(60) DEF Tokens
<1> HIDE DEF p, q, n
<1>4. /\ p \in Tokens /\ Len(p) = i /\ \A k \in 1..i : p[k] = path[k]
      /\ q \in Tokens /\ Len(q) = n - i /\ \A k \in 1..(n - i) : q[k] = path[i + k]
  BY <1>1, <1>2, <1>3
<1> DEFINE r == p \o q
<1>5. /\ r \in Tokens /\ Len(r) = n
      /\ \A k \in 1..i : r[k] = p[k]
      /\ \A k \in 1..(n - i) : r[i + k] = q[k]
  <2>1. /\ r \in Tokens /\ Len(r) = Len(p) + Len(q)
        /\ \A k \in 1..Len(p) : r[k] = p[k]
        /\ \A k \in 1..Len(q) : r[Len(p) + k] = q[k]
    BY <1>4, JoinFacts
  <2> HIDE DEF r
  <2>2. i + (n - i) = n
    BY <1>1
  <2> QED
    BY <1>4, <2>1, <2>2
<1> HIDE DEF r
<1>6. \A k \in 1..n : r[k] = path[k]
  <2> SUFFICES ASSUME NEW k \in 1..n PROVE r[k] = path[k]
    OBVIOUS
  <2>1. CASE k <= i
    BY <1>1, <1>4, <1>5, <2>1
  <2>2. CASE k > i
    <3>1. k - i \in 1..(n - i) /\ i + (k - i) = k
      BY <1>1, <2>2
    <3> QED
      BY <1>4, <1>5, <3>1
  <2> QED
    BY <1>1, <2>1, <2>2
<1>7. r = path
  BY <1>5, <1>6 DEF Tokens, n
<1> QED
  BY <1>4, <1>7 DEF p, q, n, r

\* A token that is no step.
LEMMA IdleStep ==
  ASSUME NEW at \in Tokens, NEW p \in Tokens, NEW name \in {Dot, NoName, Slash}
  PROVE  /\ Walk(at, <<name>>) = at /\ Walk(at, <<name>> \o p) = Walk(at, p)
         /\ Walk(at, Append(p, name)) = Walk(at, p)
<1>1. name \in Token /\ <<>> \in Tokens /\ <<name>> \in Tokens
  BY TokenFacts DEF Tokens
<1>2. \A q \in Tokens : Step(q, name) = q
  BY DEF Step
<1>3. <<>> \o <<name>> = <<name>> /\ Append(p, name) = p \o <<name>>
  BY <1>1 DEF Tokens
<1>4. Walk(at, <<name>>) = at
  <2>1. Walk(at, <<>> \o <<name>>) = Step(Walk(at, <<>>), name)
    BY <1>1, WalkStep
  <2>2. Walk(at, <<>>) = at
    BY WalkNowhere
  <2> QED
    BY <1>2, <1>3, <2>1, <2>2
<1>5. Walk(at, <<name>> \o p) = Walk(at, p)
  BY <1>1, <1>4, WalkJoin
<1>6. Walk(at, Append(p, name)) = Walk(at, p)
  BY <1>1, <1>2, <1>3, WalkStep, WalkTyped
<1> QED
  BY <1>4, <1>5, <1>6

\* File names as split: no separator, an empty one at most at the end, and
\* the others are in the path.
ProperNames(names, path) ==
  \A k \in 1..Len(names) :
    /\ names[k] # Slash
    /\ names[k] = NoName => k = Len(names)
    /\ names[k] # NoName => \E j \in 1..Len(path) : names[k] = path[j]

LEMMA FileNamesFacts ==
  ASSUME NEW path \in Tokens, \A k \in 1..Len(path) : path[k] # NoName,
         NEW i \in 0..Len(path), NEW at \in Tokens
  PROVE  /\ FileNames(path, i) \in Tokens
         /\ Walk(at, FileNames(path, i)) = Walk(at, SubSeq(path, i + 1, Len(path)))
         /\ ProperNames(FileNames(path, i), path)
<1> DEFINE n == Len(path)
           q == SubSeq(path, i + 1, n)
           names == Without(q, {Slash})
<1>1. /\ n \in Nat /\ i \in Nat /\ i <= n
      /\ q \in Tokens /\ Len(q) = n - i /\ \A k \in 1..(n - i) : q[k] = path[i + k]
  BY CutFacts DEF Tokens
<1>2. FileNames(path, i) = IF i >= n THEN <<>>
                           ELSE IF Last(path) = Slash THEN Append(names, NoName) ELSE names
  BY DEF FileNames
<1> HIDE DEF n, q
<1>3. names \in Tokens /\ AreOf(names, q, {Slash}) /\ Walk(at, names) = Walk(at, q)
  BY <1>1, WithoutFacts
<1> HIDE DEF names
<1>4. ASSUME NEW k \in 1..Len(names)
      PROVE  names[k] # Slash /\ names[k] # NoName /\ \E j \in 1..n : names[k] = path[j]
  <2>1. PICK m \in 1..(n - i) : names[k] = q[m]
    BY <1>1, <1>3 DEF AreOf
  <2>2. i + m \in 1..n /\ names[k] = path[i + m]
    BY <1>1, <2>1
  <2> QED
    BY <1>3, <2>2 DEF AreOf, n
<1>5. CASE i >= n
  <2>1. q = <<>> /\ FileNames(path, i) = <<>>
    BY <1>1, <1>2, <1>5 DEF Tokens
  <2>2. <<>> \in Tokens /\ ProperNames(<<>>, path)
    BY DEF Tokens, ProperNames
  <2> QED
    BY <2>1, <2>2 DEF q, n
<1>6. CASE ~(i >= n) /\ Last(path) # Slash
  <2>1. FileNames(path, i) = names
    BY <1>2, <1>6
  <2>2. ProperNames(names, path)
    BY <1>4 DEF ProperNames, n
  <2> QED
    BY <1>3, <2>1, <2>2 DEF q, n
<1>7. CASE ~(i >= n) /\ Last(path) = Slash
  <2> DEFINE r == Append(names, NoName)
  <2>1. FileNames(path, i) = r
    BY <1>2, <1>7
  <2>2. /\ r \in Tokens /\ Len(r) = Len(names) + 1 /\ Len(names) \in Nat
        /\ r[Len(names) + 1] = NoName /\ \A k \in 1..Len(names) : r[k] = names[k]
    BY <1>3, TokenFacts DEF Tokens
  <2>3. Walk(at, r) = Walk(at, names)
    BY <1>3, IdleStep
  <2> HIDE DEF r
  <2>4. ProperNames(r, path)
    <3> SUFFICES ASSUME NEW k \in 1..Len(r)
                 PROVE  /\ r[k] # Slash
                        /\ r[k] = NoName => k = Len(r)
                        /\ r[k] # NoName => \E j \in 1..Len(path) : r[k] = path[j]
      BY DEF ProperNames
    <3>1. CASE k = Len(r)
      BY <2>2, <3>1, TokenFacts
    <3>2. CASE k # Len(r)
      <4>1. k \in 1..Len(names)
        BY <2>2, <3>2
      <4> QED
        BY <1>4, <2>2, <4>1 DEF n
    <3> QED
      BY <3>1, <3>2
  <2> QED
    BY <1>3, <2>1, <2>2, <2>3, <2>4 DEF q, n
<1> QED
  BY <1>5, <1>6, <1>7

\* The parts of a path lead, one after the other, where the path leads.
LEMMA SplitFacts ==
  ASSUME NEW path \in Tokens, \A k \in 1..Len(path) : path[k] # NoName
  PROVE  /\ SplitPath(path).root_name \in Tokens /\ SplitPath(path).filenames \in Tokens
         /\ \A at \in Tokens :
              Walk(at, path) = Walk(Walk(at, SplitPath(path).root_name), SplitPath(path).filenames)
         /\ ProperNames(SplitPath(path).filenames, path)
<1> DEFINE n == Len(path)
           root == RootNameLength(path)
           dir == root < n /\ path[root + 1] = Slash
           i == IF dir THEN root + 1 ELSE root
           p == SubSeq(path, 1, root)
           q == SubSeq(path, root + 1, n)
           rest == SubSeq(path, i + 1, n)
<1>1. SplitPath(path).root_name = p /\ SplitPath(path).filenames = FileNames(path, i)
  BY DEF SplitPath
<1>2. n \in Nat /\ root \in 0..n /\ root \in Nat /\ i \in 0..n
  BY RootNameFacts DEF Tokens
<1> HIDE DEF root, i, n
<1>3. p \in Tokens /\ q \in Tokens /\ path = p \o q
  BY <1>2, CutFacts DEF n
<1>4. rest \in Tokens
  BY <1>2, CutFacts DEF n
<1>5. \A at \in Tokens : Walk(at, q) = Walk(at, rest)
  <2>1. CASE dir
    <3>1. i = root + 1 /\ Len(q) = n - root /\ \A k \in 1..(n - root) : q[k] = path[root + k]
      BY <1>2, <2>1, CutFacts DEF i, n
    <3>2. Len(rest) = n - i /\ \A k \in 1..(n - i) : rest[k] = path[i + k]
      BY <1>2, CutFacts DEF n
    <3> DEFINE r == <<Slash>> \o rest
    <3>3. /\ r \in Tokens /\ Len(r) = 1 + Len(rest) /\ r[1] = Slash
          /\ \A k \in 1..Len(rest) : r[1 + k] = rest[k]
      BY <1>4, TokenFacts DEF Tokens
    <3> HIDE DEF r, p, q, rest
    <3>4. \A k \in 1..(n - root) : q[k] = r[k]
      <4> SUFFICES ASSUME NEW k \in 1..(n - root) PROVE q[k] = r[k]
        OBVIOUS
      <4>1. CASE k = 1
        BY <2>1, <3>1, <3>3, <4>1
      <4>2. CASE k # 1
        <5>1. k - 1 \in 1..(n - i) /\ 1 + (k - 1) = k /\ i + (k - 1) = root + k
          BY <1>2, <3>1, <4>2
        <5> QED
          BY <3>1, <3>2, <3>3, <5>1
      <4> QED
        BY <4>1, <4>2
    <3>5. Len(q) = Len(r)
      BY <1>2, <3>1, <3>2, <3>3
    <3>6. q = r
      BY <1>3, <3>1, <3>3, <3>4, <3>5 DEF Tokens
    <3> QED
      BY <1>4, <3>6, IdleStep DEF r
  <2>2. CASE ~dir
    BY <2>2 DEF i
  <2> QED
    BY <2>1, <2>2
<1>6. FileNames(path, i) \in Tokens /\ ProperNames(FileNames(path, i), path)
  <2>1. <<>> \in Tokens
    BY DEF Tokens
  <2> QED
    BY <1>2, <2>1, FileNamesFacts DEF n
<1> HIDE DEF p, q, rest
<1>7. ASSUME NEW at \in Tokens
      PROVE  Walk(at, path) = Walk(Walk(at, p), FileNames(path, i))
  <2>1. Walk(at, path) = Walk(Walk(at, p), q) /\ Walk(at, p) \in Tokens
    BY <1>3, WalkJoin, WalkTyped
  <2>2. Walk(Walk(at, p), FileNames(path, i)) = Walk(Walk(at, p), rest)
    BY <1>2, <2>1, FileNamesFacts DEF n, rest
  <2> QED
    BY <1>5, <2>1, <2>2
<1> QED
  BY <1>1, <1>3, <1>6, <1>7
-----------------------------------------------------------------------------
(* A relative path from its names *)

Relative(names) ==
  [root_name |-> EmptyPath, root_directory |-> FALSE, filenames |-> names]

Between(k) == IF k = 1 THEN <<>> ELSE <<Slash>>

Written(name) == IF name = NoName THEN <<>> ELSE <<name>>

\* u writes one name after the other.
Writes(u, names) ==
  /\ u[0] = <<>>
  /\ \A k \in 1..Len(names) : u[k] = (u[k - 1] \o Between(k)) \o Written(names[k])

LEMMA WrittenTyped ==
  \A k, name : name \in Token => Between(k) \in Tokens /\ Written(name) \in Tokens
<1>1. <<>> \in Tokens /\ \A t \in Token : <<t>> \in Tokens
  BY DEF Tokens
<1> QED
  BY <1>1, TokenFacts DEF Between, Written

LEMMA JoinRecursion ==
  ASSUME NEW names \in Tokens
  PROVE  \E u \in [0..Len(names) -> Tokens] :
           Writes(u, names) /\ JoinPath(Relative(names)) = u[Len(names)]
<1> DEFINE n == Len(names)
           Add(k, s) == (s \o Between(k)) \o Written(names[k])
           step == [k \in 1..n |-> [s \in Tokens |-> Add(k, s)]]
           r == Relative(names)
           Rec(f) == [k \in 0..Len(r.filenames) |->
                        IF k = 0 THEN r.root_name \o (IF r.root_directory THEN <<Slash>> ELSE <<>>)
                        ELSE (f[k - 1] \o (IF k = 1 THEN <<>> ELSE <<Slash>>))
                               \o (IF r.filenames[k] = NoName THEN <<>> ELSE <<r.filenames[k]>>)]
           url == CHOOSE f : f = Rec(f)
           Rec1(f) == [k \in 0..n |-> IF k = 0 THEN <<>> ELSE Add(k, f[k - 1])]
<1>1. JoinPath(r) = url[Len(r.filenames)]
  BY DEF JoinPath
<1>2. n \in Nat /\ (\A k \in 1..n : names[k] \in Token) /\ <<>> \in Tokens
  BY DEF Tokens
<1>3. Len(r.filenames) = n
  BY DEF Relative
<1>4. \A f : Rec(f) = Rec1(f)
  <2>1. /\ r.filenames = names /\ r.root_directory = FALSE /\ r.root_name = <<>>
        /\ <<>> \o <<>> = <<>>
    BY DEF Relative, EmptyPath
  <2> HIDE DEF r
  <2> QED
    BY <2>1 DEF Between, Written
<1> HIDE DEF n, r, Rec, Add
<1>5. \A k \in 1..n : \A s \in Tokens : Add(k, s) \in Tokens
  BY <1>2, WrittenTyped, JoinFacts DEF Add
<1>6. step \in [1..n -> [Tokens -> Tokens]]
  BY <1>5
<1>7. PICK f \in [0..n -> Tokens] : Follows(f, n, <<>>, step)
  <2> HIDE DEF step
  <2> QED
    BY <1>2, <1>6, SegmentRecursion
<1>8. f[0] = <<>> /\ \A k \in 1..n : f[k] = Add(k, f[k - 1])
  <2>1. ASSUME NEW k \in 1..n PROVE f[k] = Add(k, f[k - 1])
    <3>1. k - 1 \in 0..n /\ f[k - 1] \in Tokens
      BY <1>2, <1>7
    <3>2. f[k] = step[k][f[k - 1]]
      BY <1>7 DEF Follows
    <3> QED
      BY <3>1, <3>2
  <2> QED
    BY <1>7, <2>1 DEF Follows
<1>9. f = Rec(f)
  <2>1. ASSUME NEW k \in 0..n PROVE f[k] = Rec1(f)[k]
    BY <1>2, <1>8
  <2>2. f = Rec1(f)
    BY <2>1
  <2> QED
    BY <1>4, <2>2
<1>10. url = Rec(url)
  BY <1>9
<1> HIDE DEF url
<1>11. url[0] = <<>> /\ \A k \in 1..n : url[k] = Add(k, url[k - 1])
  <2>1. url = Rec1(url)
    BY <1>4, <1>10
  <2> QED
    BY <1>2, <2>1
<1> DEFINE Same == {k \in 0..n : url[k] = f[k]}
<1>12. 0 \in Same /\ \A k \in 1..n : k - 1 \in Same => k \in Same
  BY <1>2, <1>8, <1>11
<1>13. n \in Same
  <2> HIDE DEF Same
  <2>1. 0..n \subseteq Same
    BY <1>2, <1>12, SegmentInduction
  <2> QED
    BY <1>2, <2>1
<1>14. Writes(f, names) /\ JoinPath(Relative(names)) = f[Len(names)]
  BY <1>1, <1>3, <1>8, <1>13 DEF Writes, Add, n, r
<1> QED
  BY <1>7, <1>14 DEF n

\* The joined path leads where the names lead, and is a relative one if it
\* begins with a name.
LEMMA JoinPathFacts ==
  ASSUME NEW names \in Tokens
  PROVE  /\ JoinPath(Relative(names)) \in Tokens
         /\ \A at \in Tokens : Walk(at, JoinPath(Relative(names))) = Walk(at, names)
         /\ Len(names) > 0 /\ names[1] \notin {NoName, Slash} =>
              /\ JoinPath(Relative(names)) # EmptyPath
              /\ ~IsAbsolute(JoinPath(Relative(names)))
<1> DEFINE n == Len(names)
<1>1. n \in Nat /\ \A k \in 1..n : names[k] \in Token
  BY DEF Tokens
<1>2. PICK u \in [0..n -> Tokens] :
        Writes(u, names) /\ JoinPath(Relative(names)) = u[n]
  BY JoinRecursion
<1>3. u[0] = <<>> /\ \A k \in 1..n : u[k] = (u[k - 1] \o Between(k)) \o Written(names[k])
  BY <1>2 DEF Writes
<1>4. ASSUME NEW at \in Tokens PROVE Walk(at, u[n]) = Walk(at, names)
  <2>1. PICK w \in [0..n -> Tokens] : Walks(w, at, names) /\ Walk(at, names) = w[n]
    BY WalkRecursion
  <2>2. w[0] = at /\ \A k \in 1..n : w[k] = Step(w[k - 1], names[k])
    BY <2>1 DEF Walks
  <2> HIDE DEF n
  <2> DEFINE Good == {k \in 0..n : Walk(at, u[k]) = w[k]}
  <2>3. 0 \in Good
    BY <1>1, <1>3, <2>2, WalkNowhere
  <2>4. ASSUME NEW k \in 1..n, k - 1 \in Good PROVE k \in Good
    <3> DEFINE s == u[k - 1]
               b == Between(k)
               t == Written(names[k])
    <3>1. /\ s \in Tokens /\ b \in Tokens /\ t \in Tokens /\ names[k] \in Token
          /\ Walk(at, s) = w[k - 1] /\ w[k - 1] \in Tokens /\ u[k] = (s \o b) \o t
      BY <1>1, <1>3, <2>1, <2>4, WrittenTyped
    <3> HIDE DEF s
    <3>2. s \o b \in Tokens /\ Walk(at, s \o b) = w[k - 1]
      <4>1. \A x \in Tokens : Walk(x, b) = x
        BY WalkNowhere, IdleStep, TokenFacts DEF Between, Tokens
      <4> HIDE DEF b
      <4> QED
        BY <3>1, <4>1, WalkJoin, JoinFacts, ZenonT(60)
    <3>3. Walk(w[k - 1], t) = Step(w[k - 1], names[k])
      <4>1. CASE names[k] = NoName
        <5>1. t = <<>> /\ Step(w[k - 1], names[k]) = w[k - 1]
          BY <4>1 DEF Written, Step
        <5> QED
          BY <3>1, <5>1, WalkNowhere
      <4>2. CASE names[k] # NoName
        <5>1. t = <<>> \o <<names[k]>> /\ <<>> \in Tokens
          BY <3>1, <4>2 DEF Written, Tokens
        <5> HIDE DEF t
        <5>2. Walk(w[k - 1], <<>> \o <<names[k]>>) = Step(Walk(w[k - 1], <<>>), names[k])
          BY <3>1, <5>1, WalkStep
        <5> QED
          BY <3>1, <5>1, <5>2, WalkNowhere
      <4> QED
        BY <4>1, <4>2
    <3> HIDE DEF b, t
    <3>4. Walk(at, u[k]) = Walk(Walk(at, s \o b), t)
      BY <3>1, <3>2, WalkJoin
    <3> QED
      BY <1>1, <2>2, <3>2, <3>3, <3>4
  <2>5. n \in Good
    <3> HIDE DEF Good
    <3>1. 0..n \subseteq Good
      BY <1>1, <2>3, <2>4, SegmentInduction
    <3> QED
      BY <1>1, <3>1
  <2> QED
    BY <2>1, <2>5 DEF n
<1>5. ASSUME n > 0, names[1] \notin {NoName, Slash}
      PROVE  u[n] # <<>> /\ u[n][1] = names[1]
  <2> HIDE DEF n
  <2> DEFINE Good == {k \in 0..n : k > 0 => Len(u[k]) > 0 /\ u[k][1] = names[1]}
  <2>1. 0 \in Good
    BY <1>1
  <2>2. ASSUME NEW k \in 1..n, k - 1 \in Good PROVE k \in Good
    <3> DEFINE s == u[k - 1]
               b == Between(k)
               t == Written(names[k])
    <3>1. s \in Tokens /\ b \in Tokens /\ t \in Tokens /\ u[k] = (s \o b) \o t /\ k \in Nat
      <4>1. k \in Nat /\ k - 1 \in 0..n /\ names[k] \in Token
        BY <1>1
      <4>2. s \in Tokens
        BY <1>2, <4>1
      <4>3. b \in Tokens /\ t \in Tokens
        BY <4>1, WrittenTyped
      <4> QED
        BY <1>3, <4>1, <4>2, <4>3
    <3>2. CASE k = 1
      <4>1. s = <<>> /\ b = <<>> /\ t = <<names[1]>>
        BY <1>3, <1>5, <3>2 DEF Between, Written
      <4>2. (<<>> \o <<>>) \o <<names[1]>> = <<names[1]>>
        OBVIOUS
      <4>3. u[k] = <<names[1]>>
        BY <3>1, <4>1, <4>2
      <4> QED
        BY <1>1, <4>3
    <3>3. CASE k # 1
      <4>1. Len(s) > 0 /\ s[1] = names[1]
        BY <1>1, <2>2, <3>3
      <4> HIDE DEF s, b, t
      <4>2. s \o b \in Tokens /\ Len(s \o b) > 0 /\ (s \o b)[1] = names[1]
        <5>1. Len(s) \in Nat /\ Len(b) \in Nat /\ 1 \in 1..Len(s)
          BY <3>1, <4>1 DEF Tokens
        <5> QED
          BY <3>1, <4>1, <5>1, JoinFacts
      <4> DEFINE c == s \o b
      <4>3. Len(c \o t) > 0 /\ (c \o t)[1] = names[1]
        <5>1. Len(c) \in Nat /\ Len(t) \in Nat /\ 1 \in 1..Len(c)
          BY <3>1, <4>2 DEF Tokens
        <5> HIDE DEF c
        <5>2. c \in Tokens /\ c[1] = names[1]
          BY <4>2 DEF c
        <5> QED
          BY <3>1, <5>1, <5>2, JoinFacts
      <4> QED
        BY <1>1, <3>1, <4>3
    <3> QED
      BY <3>2, <3>3
  <2>3. n \in Good
    <3> HIDE DEF Good
    <3>1. 0..n \subseteq Good
      BY <1>1, <2>1, <2>2, SegmentInduction
    <3> QED
      BY <1>1, <3>1
  <2>4. Len(u[n]) > 0 /\ u[n][1] = names[1]
    BY <1>5, <2>3
  <2> QED
    BY <2>4
<1>6. u[n] \in Tokens
  BY <1>1, <1>2
<1> QED
  BY <1>2, <1>4, <1>5, <1>6 DEF IsAbsolute, EmptyPath
-----------------------------------------------------------------------------
(* The relative path *)

\* Up to where two sequences differ they agree.
LEMMA MismatchFacts ==
  ASSUME NEW this \in Tokens, NEW base \in Tokens
  PROVE  /\ Mismatch(this, base) \in 1..(Len(this) + 1)
         /\ Mismatch(this, base) \in 1..(Len(base) + 1)
         /\ SubSeq(this, 1, Mismatch(this, base) - 1) = SubSeq(base, 1, Mismatch(this, base) - 1)
         /\ \/ Mismatch(this, base) > Len(this) \/ Mismatch(this, base) > Len(base)
            \/ this[Mismatch(this, base)] # base[Mismatch(this, base)]
<1> DEFINE Differ(i) == i > Len(this) \/ i > Len(base) \/ this[i] # base[i]
           Agree(i) == \A k \in 1..(i - 1) : k <= Len(base) /\ this[k] = base[k]
           i == Mismatch(this, base)
<1>1. Len(this) \in Nat /\ Len(base) \in Nat
  BY DEF Tokens
<1>2. \E j \in 1..(Len(this) + 1) : Agree(j) /\ Differ(j)
  <2> DEFINE T == {j \in 1..(Len(this) + 1) : Differ(j)}
  <2>1. T \in SUBSET Nat /\ Len(this) + 1 \in T
    BY <1>1
  <2>2. PICK x \in T : \A y \in T : x <= y
    <3> HIDE DEF T
    <3> QED
      BY <2>1, LeastNat
  <2>3. ASSUME NEW k \in 1..(x - 1) PROVE k <= Len(base) /\ this[k] = base[k]
    <3>1. k \in 1..Len(this) /\ ~(x <= k) /\ k <= Len(this)
      BY <1>1, <2>2
    <3>2. k \notin T
      BY <2>2, <3>1
    <3> QED
      BY <1>1, <3>1, <3>2
  <2> QED
    BY <2>2, <2>3
<1>3. i \in 1..(Len(this) + 1) /\ Agree(i) /\ Differ(i)
  <2>1. i = CHOOSE j \in 1..(Len(this) + 1) : Agree(j) /\ Differ(j)
    BY DEF Mismatch
  <2> HIDE DEF i, Agree, Differ
  <2> QED
    BY <1>2, <2>1
<1> HIDE DEF i
<1>4. i \in 1..(Len(base) + 1)
  <2>1. CASE i = 1
    BY <1>1, <2>1
  <2>2. CASE i # 1
    <3>1. i - 1 \in 1..(i - 1) /\ i \in Nat
      BY <1>1, <1>3, <2>2
    <3>2. i - 1 <= Len(base)
      BY <1>3, <3>1
    <3> QED
      BY <1>1, <1>3, <3>1, <3>2
  <2> QED
    BY <2>1, <2>2
<1>5. SubSeq(this, 1, i - 1) = SubSeq(base, 1, i - 1)
  <2> DEFINE a == SubSeq(this, 1, i - 1)
             b == SubSeq(base, 1, i - 1)
  <2>1. i - 1 \in 0..Len(this) /\ i - 1 \in 0..Len(base)
    BY <1>1, <1>3, <1>4
  <2>2. /\ a \in Tokens /\ Len(a) = i - 1 /\ \A k \in 1..(i - 1) : a[k] = this[k]
        /\ b \in Tokens /\ Len(b) = i - 1 /\ \A k \in 1..(i - 1) : b[k] = base[k]
    <3> DEFINE j == i - 1
    <3>1. j \in 0..Len(this) /\ j \in 0..Len(base)
      BY <2>1
    <3> HIDE DEF j
    <3>2. /\ SubSeq(this, 1, j) \in Tokens /\ Len(SubSeq(this, 1, j)) = j
          /\ \A k \in 1..j : SubSeq(this, 1, j)[k] = this[k]
      BY <3>1, CutFacts
    <3>3. /\ SubSeq(base, 1, j) \in Tokens /\ Len(SubSeq(base, 1, j)) = j
          /\ \A k \in 1..j : SubSeq(base, 1, j)[k] = base[k]
      BY <3>1, CutFacts
    <3> QED
      BY <3>2, <3>3 DEF j
  <2>3. \A k \in 1..(i - 1) : this[k] = base[k]
    BY <1>3
  <2> HIDE DEF a, b
  <2>4. \A k \in 1..Len(a) : a[k] = b[k]
    BY <2>2, <2>3
  <2>5. a = b
    BY <2>2, <2>4 DEF Tokens
  <2> QED
    BY <2>5 DEF a, b
<1> QED
  BY <1>3, <1>4, <1>5 DEF i

\* What lies behind a position.
LEMMA RestFacts ==
  ASSUME NEW names \in Tokens, NEW i \in 1..(Len(names) + 1)
  PROVE  /\ SubSeq(names, 1, i - 1) \in Tokens /\ SubSeq(names, i, Len(names)) \in Tokens
         /\ names = SubSeq(names, 1, i - 1) \o SubSeq(names, i, Len(names))
         /\ \A k \in 1..Len(SubSeq(names, i, Len(names))) :
              SubSeq(names, i, Len(names))[k] = names[(i - 1) + k]
         /\ i > Len(names) => SubSeq(names, i, Len(names)) = <<>>
         /\ i <= Len(names) => /\ SubSeq(names, i, Len(names)) # <<>>
                               /\ SubSeq(names, i, Len(names))[1] = names[i]
                               /\ Head(SubSeq(names, i, Len(names))) = names[i]
         /\ i = Len(names) => SubSeq(names, i, Len(names)) = <<names[i]>>
<1> DEFINE n == Len(names)
           j == i - 1
           rest == SubSeq(names, i, n)
<1>1. n \in Nat /\ i \in Nat /\ j \in 0..n /\ j + 1 = i
  BY DEF Tokens
<1> HIDE DEF j
<1>2. /\ SubSeq(names, 1, j) \in Tokens /\ SubSeq(names, j + 1, n) \in Tokens
      /\ Len(SubSeq(names, j + 1, n)) = n - j
      /\ \A k \in 1..(n - j) : SubSeq(names, j + 1, n)[k] = names[j + k]
      /\ names = SubSeq(names, 1, j) \o SubSeq(names, j + 1, n)
  BY <1>1, CutFacts DEF n
<1> HIDE DEF n
<1>3. /\ SubSeq(names, 1, j) \in Tokens /\ rest \in Tokens /\ names = SubSeq(names, 1, j) \o rest
      /\ Len(rest) = n - j /\ \A k \in 1..(n - j) : rest[k] = names[j + k]
  BY <1>1, <1>2
<1> HIDE DEF rest
<1>4. \A s \in Tokens : /\ Len(s) = 0 => s = <<>>
                        /\ s # <<>> => Head(s) = s[1]
                        /\ Len(s) = 1 => s = <<s[1]>>
  BY DEF Tokens
<1>5. i > n => rest = <<>>
  BY <1>1, <1>3, <1>4
<1>6. ASSUME i <= n PROVE rest # <<>> /\ rest[1] = names[i] /\ Head(rest) = names[i]
  <2>1. 1 \in 1..(n - j) /\ Len(rest) # 0
    BY <1>1, <1>3, <1>6
  <2>2. rest # <<>> /\ rest[1] = names[i]
    BY <1>1, <1>3, <2>1
  <2> QED
    BY <1>3, <1>4, <2>2
<1>7. i = n => rest = <<names[i]>>
  <2>1. i = n => Len(rest) = 1 /\ i <= n
    BY <1>1, <1>3
  <2> QED
    BY <1>3, <1>4, <1>6, <2>1
<1> QED
  BY <1>3, <1>5, <1>6, <1>7 DEF j, rest, n

\* What the relative path is, from the names of the file and of the folder.
Led(this, base, r) ==
  LET i == Mismatch(this, base)
      n == StepsUp(base, i)
      rest == SubSeq(this, i, Len(this))
  IN  \/ rest = <<>> /\ i > Len(base) /\ r = <<Dot>>
      \/ n = 0 /\ (rest = <<>> \/ Head(rest) = NoName) /\ r = <<Dot>>
      \/ ~(n = 0 /\ (rest = <<>> \/ Head(rest) = NoName)) /\ r = JoinPath(Relative(Ups(n) \o rest))

\* If there is one, both names start at the same place.
LEMMA Compared ==
  ASSUME NEW path \in Tokens, \A k \in 1..Len(path) : path[k] # NoName,
         NEW folder \in Tokens, \A k \in 1..Len(folder) : folder[k] # NoName,
         LexicallyRelative(path, folder) # EmptyPath
  PROVE  \E this \in Tokens, base \in Tokens, start \in Tokens :
           /\ this = SplitPath(path).filenames /\ ProperNames(this, path)
           /\ base = SplitPath(folder).filenames /\ ProperNames(base, folder)
           /\ Walk(<<>>, path) = Walk(start, this) /\ Walk(<<>>, folder) = Walk(start, base)
           /\ Led(this, base, LexicallyRelative(path, folder))
<1> DEFINE this == SplitPath(path).filenames
           base == SplitPath(folder).filenames
           root == SplitPath(folder).root_name
           start == Walk(<<>>, root)
           i == Mismatch(this, base)
           n == StepsUp(base, i)
           rest == SubSeq(this, i, Len(this))
           r == LexicallyRelative(path, folder)
<1>1. /\ r # EmptyPath
      /\ r = IF \/ SplitPath(path).root_name # root
                \/ SplitPath(path).root_directory # SplitPath(folder).root_directory
                \/ i = 1 /\ ~SplitPath(path).root_directory
               THEN EmptyPath
             ELSE IF rest = <<>> /\ i > Len(base) THEN <<Dot>>
             ELSE IF n < 0 THEN EmptyPath
             ELSE IF n = 0 /\ (rest = <<>> \/ Head(rest) = NoName) THEN <<Dot>>
             ELSE JoinPath(Relative(Ups(n) \o rest))
  BY Zenon DEF LexicallyRelative, Relative, Ups
<1> HIDE DEF r
<1>2. SplitPath(path).root_name = root /\ Led(this, base, r)
  <2>1. /\ SplitPath(path).root_name = root
        /\ \/ rest = <<>> /\ i > Len(base) /\ r = <<Dot>>
           \/ n = 0 /\ (rest = <<>> \/ Head(rest) = NoName) /\ r = <<Dot>>
           \/ ~(n = 0 /\ (rest = <<>> \/ Head(rest) = NoName)) /\ r = JoinPath(Relative(Ups(n) \o rest))
    <3> HIDE DEF this, base, root, i, n, rest
    <3> QED
      BY <1>1
  <2> HIDE DEF this, base, root
  <2> QED
    BY <2>1 DEF Led
<1>3. /\ this \in Tokens /\ ProperNames(this, path)
      /\ base \in Tokens /\ root \in Tokens /\ ProperNames(base, folder)
      /\ Walk(<<>>, path) = Walk(Walk(<<>>, SplitPath(path).root_name), this)
      /\ Walk(<<>>, folder) = Walk(Walk(<<>>, root), base)
      /\ <<>> \in Tokens
  <2>1. <<>> \in Tokens
    BY DEF Tokens
  <2>2. /\ this \in Tokens /\ ProperNames(this, path)
        /\ \A at \in Tokens : Walk(at, path) = Walk(Walk(at, SplitPath(path).root_name), this)
    BY SplitFacts
  <2>3. /\ base \in Tokens /\ root \in Tokens /\ ProperNames(base, folder)
        /\ \A at \in Tokens : Walk(at, folder) = Walk(Walk(at, root), base)
    BY SplitFacts
  <2> HIDE DEF this, base, root
  <2> QED
    BY <2>1, <2>2, <2>3
<1>4. start \in Tokens /\ Walk(<<>>, path) = Walk(start, this) /\ Walk(<<>>, folder) = Walk(start, base)
  <2> HIDE DEF this, base, root
  <2> QED
    BY <1>2, <1>3, WalkTyped
<1> HIDE DEF start
<1>5. /\ this = SplitPath(path).filenames /\ base = SplitPath(folder).filenames
      /\ Led(this, base, LexicallyRelative(path, folder))
  BY <1>2 DEF r
<1> HIDE DEF this, base, root
<1> QED
  BY <1>3, <1>4, <1>5

\* The relative path leads from the folder to where path leads.
LEMMA RelativeLeads ==
  ASSUME NEW path \in Tokens, \A k \in 1..Len(path) : path[k] # NoName,
         NEW folder \in Tokens, \A k \in 1..Len(folder) : folder[k] \notin {NoName, DotDot},
         LexicallyRelative(path, folder) # EmptyPath
  PROVE  /\ LexicallyRelative(path, folder) \in Tokens
         /\ ~IsAbsolute(LexicallyRelative(path, folder))
         /\ Walk(Walk(<<>>, folder), LexicallyRelative(path, folder)) = Walk(<<>>, path)
<1> DEFINE r == LexicallyRelative(path, folder)
<1>1. PICK this \in Tokens, base \in Tokens, start \in Tokens :
        /\ ProperNames(this, path) /\ ProperNames(base, folder)
        /\ Walk(<<>>, path) = Walk(start, this) /\ Walk(<<>>, folder) = Walk(start, base)
        /\ Led(this, base, r)
  BY Compared
<1> HIDE DEF r
<1> DEFINE i == Mismatch(this, base)
           n == StepsUp(base, i)
           rest == SubSeq(this, i, Len(this))
<1>2. \/ rest = <<>> /\ i > Len(base) /\ r = <<Dot>>
      \/ n = 0 /\ (rest = <<>> \/ Head(rest) = NoName) /\ r = <<Dot>>
      \/ ~(n = 0 /\ (rest = <<>> \/ Head(rest) = NoName)) /\ r = JoinPath(Relative(Ups(n) \o rest))
  BY <1>1 DEF Led
<1>3. this \in Tokens /\ ProperNames(this, path) /\ base \in Tokens /\ ProperNames(base, folder)
  BY <1>1
<1>4. start \in Tokens /\ Walk(<<>>, path) = Walk(start, this) /\ Walk(<<>>, folder) = Walk(start, base)
  BY <1>1
<1>5. /\ i \in 1..(Len(this) + 1) /\ i \in 1..(Len(base) + 1)
      /\ SubSeq(this, 1, i - 1) = SubSeq(base, 1, i - 1)
  BY <1>3, MismatchFacts
<1>6. Len(this) \in Nat /\ Len(base) \in Nat /\ i \in Nat
  <2>1. Len(this) \in Nat /\ Len(base) \in Nat
    BY <1>3 DEF Tokens
  <2> HIDE DEF i
  <2> QED
    BY <1>5, <2>1
<1>7. \A k \in 1..Len(base) : base[k] \notin {DotDot, Slash}
  BY <1>3, TokenFacts DEF ProperNames
<1> DEFINE up == Ups(n)
           at == Walk(start, base)
           shared == SubSeq(this, 1, i - 1)
<1>8. n \in Nat /\ Walk(at, up) = Walk(start, shared)
  <2> HIDE DEF i
  <2>1. StepsUp(base, i) \in Nat /\ Walk(Walk(start, base), Ups(StepsUp(base, i))) = Walk(start, SubSeq(base, 1, i - 1))
    BY <1>3, <1>4, <1>5, <1>7, BackUp
  <2> QED
    BY <1>5, <2>1
<1>9. /\ shared \in Tokens /\ rest \in Tokens /\ this = shared \o rest
      /\ i > Len(this) => rest = <<>>
      /\ rest # <<>> => i \in 1..Len(this) /\ rest[1] = this[i] /\ Head(rest) = this[i]
      /\ i = Len(this) => rest = <<this[i]>>
  <2> HIDE DEF i
  <2>1. /\ shared \in Tokens /\ rest \in Tokens /\ this = shared \o rest
        /\ i > Len(this) => rest = <<>>
        /\ i <= Len(this) => rest[1] = this[i] /\ Head(rest) = this[i]
        /\ i = Len(this) => rest = <<this[i]>>
    BY <1>3, <1>5, RestFacts
  <2>2. i <= Len(this) => i \in 1..Len(this)
    BY <1>5, <1>6
  <2>3. i <= Len(this) \/ i > Len(this)
    BY <1>6
  <2> HIDE DEF shared, rest
  <2> QED
    BY <2>1, <2>2, <2>3
<1>10. at \in Tokens /\ up \in Tokens /\ Len(up) = n /\ \A k \in 1..n : up[k] = DotDot
  <2>1. at \in Tokens
    BY <1>3, <1>4, WalkTyped
  <2> HIDE DEF n
  <2> QED
    BY <1>8, <2>1, TokenFacts DEF Ups, Tokens
<1> HIDE DEF i, n
<1>11. Walk(start, this) = Walk(Walk(at, up), rest)
  <2> HIDE DEF shared, rest, up, at
  <2> QED
    BY <1>4, <1>8, <1>9, WalkJoin
<1>12. Walk(at, <<Dot>>) = at /\ <<Dot>> \in Tokens /\ ~IsAbsolute(<<Dot>>)
  <2>1. Walk(at, <<Dot>>) = at
    BY <1>3, <1>10, IdleStep
  <2>2. <<Dot>> \in Tokens
    BY TokenFacts DEF Tokens
  <2>3. <<Dot>>[1] = Dot
    OBVIOUS
  <2> QED
    BY <2>1, <2>2, <2>3, TokenFacts DEF IsAbsolute
<1>13. CASE rest = <<>> /\ i > Len(base) /\ r = <<Dot>>
  <2>1. i - 1 = Len(base) /\ i - 1 = Len(this)
    <3> HIDE DEF rest
    <3> QED
      BY <1>5, <1>6, <1>9, <1>13
  <2>2. SubSeq(base, 1, Len(base)) = base /\ SubSeq(this, 1, Len(this)) = this
    BY <1>3 DEF Tokens
  <2>3. this = base
    BY <1>5, <2>1, <2>2
  <2> QED
    BY <1>4, <1>12, <1>13, <2>3 DEF r
<1>14. CASE n = 0 /\ (rest = <<>> \/ Head(rest) = NoName) /\ r = <<Dot>>
  <2>1. up = <<>>
    BY <1>10, <1>14 DEF Tokens
  <2>2. Walk(at, up) = at
    BY <1>10, <2>1, WalkNowhere
  <2>3. Walk(at, rest) = at
    <3>1. CASE rest = <<>>
      BY <1>10, <3>1, WalkNowhere
    <3>2. CASE rest # <<>>
      <4> HIDE DEF rest
      <4>1. i \in 1..Len(this) /\ this[i] = NoName
        BY <1>9, <1>14, <3>2
      <4>2. rest = <<NoName>>
        BY <1>3, <1>9, <4>1 DEF ProperNames
      <4> QED
        BY <1>3, <1>10, <4>2, IdleStep
    <3> QED
      BY <3>1, <3>2
  <2> QED
    BY <1>4, <1>11, <1>12, <1>14, <2>2, <2>3 DEF r
<1>15. CASE ~(n = 0 /\ (rest = <<>> \/ Head(rest) = NoName)) /\ r = JoinPath(Relative(Ups(n) \o rest))
  <2> DEFINE names == up \o rest
  <2>1. /\ names \in Tokens /\ Len(names) = n + Len(rest)
        /\ \A k \in 1..n : names[k] = up[k]
        /\ \A k \in 1..Len(rest) : names[n + k] = rest[k]
    <3> HIDE DEF up, rest, shared
    <3>1. up \in Tokens /\ rest \in Tokens
      BY <1>9, <1>10
    <3>2. /\ names \in Tokens /\ Len(names) = Len(up) + Len(rest)
          /\ \A k \in 1..Len(up) : names[k] = up[k]
          /\ \A k \in 1..Len(rest) : names[Len(up) + k] = rest[k]
      BY <3>1, JoinFacts
    <3> HIDE DEF names
    <3> QED
      BY <1>10, <3>2
  <2>2. Walk(at, names) = Walk(Walk(at, up), rest)
    <3> HIDE DEF up, rest, at
    <3> QED
      BY <1>9, <1>10, WalkJoin
  <2>3. Len(names) > 0 /\ names[1] \notin {NoName, Slash}
    <3> HIDE DEF names, up
    <3>1. CASE n # 0
      <4>1. 1 \in 1..n /\ Len(rest) \in Nat
        BY <1>8, <1>9, <3>1 DEF Tokens
      <4>2. names[1] = DotDot
        BY <1>10, <2>1, <4>1
      <4> HIDE DEF rest
      <4> QED
        BY <1>8, <2>1, <3>1, <4>1, <4>2, TokenFacts
    <3>2. CASE n = 0
      <4> HIDE DEF rest
      <4>1. rest # <<>> /\ Head(rest) # NoName
        BY <1>15, <3>2
      <4>2. i \in 1..Len(this) /\ rest[1] = this[i] /\ rest[1] # NoName
        BY <1>9, <4>1
      <4>3. rest[1] # Slash
        BY <1>3, <4>2 DEF ProperNames
      <4>4. Len(rest) \in Nat /\ Len(rest) # 0
        BY <1>9, <4>1 DEF Tokens
      <4>5. 1 \in 1..Len(rest) /\ names[1] = rest[1]
        BY <2>1, <3>2, <4>4
      <4> QED
        BY <2>1, <3>2, <4>2, <4>3, <4>4, <4>5
    <3> QED
      BY <3>1, <3>2
  <2> DEFINE j == JoinPath(Relative(names))
  <2>4. j \in Tokens /\ ~IsAbsolute(j) /\ Walk(at, j) = Walk(at, names)
    <3> HIDE DEF names, at
    <3> QED
      BY <1>10, <2>1, <2>3, JoinPathFacts
  <2>5. r = j
    BY <1>15
  <2> HIDE DEF j, names
  <2> QED
    BY <1>4, <1>11, <2>2, <2>4, <2>5 DEF r
<1> QED
  <2>1. \/ rest = <<>> /\ i > Len(base) /\ r = <<Dot>>
        \/ n = 0 /\ (rest = <<>> \/ Head(rest) = NoName) /\ r = <<Dot>>
        \/ ~(n = 0 /\ (rest = <<>> \/ Head(rest) = NoName)) /\ r = JoinPath(Relative(Ups(n) \o rest))
    BY <1>2 DEF i, n
  <2> QED
    BY <1>13, <1>14, <1>15, <2>1
-----------------------------------------------------------------------------
(* The command line *)

\* A path as the file system takes it.
LEMMA PathFacts ==
  ASSUME NEW path, IsPath(path)
  PROVE  path \in Tokens /\ \A k \in 1..Len(path) : path[k] # NoName
<1>1. \A S, T : S \subseteq T => Seq(S) \subseteq Seq(T)
  OBVIOUS
<1>2. STRING \subseteq Piece
  BY DEF Piece
<1>3. Seq(STRING) \subseteq Token
  BY <1>1, <1>2 DEF Token
<1>4. path \in Seq(Seq(STRING)) /\ \A k \in DOMAIN path : path[k] # NoName
  BY DEF IsPath
<1>5. path \in Tokens
  BY <1>1, <1>3, <1>4 DEF Tokens
<1>6. DOMAIN path = 1..Len(path)
  BY <1>4
<1> QED
  BY <1>4, <1>5, <1>6

\* A path made absolute leads where it leads from the current directory.
LEMMA AbsoluteLeads ==
  ASSUME NEW w \in Tokens, IsAbsolute(w), NEW path \in Tokens
  PROVE  /\ Absolute(w, path) \in Tokens /\ IsAbsolute(Absolute(w, path))
         /\ Walk(<<>>, Absolute(w, path)) = Resolve(Resolve(<<>>, w), path)
         /\ \A k \in 1..Len(Absolute(w, path)) :
              \/ Absolute(w, path)[k] = Slash
              \/ \E j \in 1..Len(w) : Absolute(w, path)[k] = w[j]
              \/ \E j \in 1..Len(path) : /\ Absolute(w, path)[k] = path[j]
                                          /\ Len(Absolute(w, path)) - k = Len(path) - j
<1>1. <<>> \in Tokens /\ <<Slash>> \in Tokens /\ Len(<<Slash>>) = 1 /\ <<Slash>>[1] = Slash
  BY TokenFacts DEF Tokens
<1>2. Resolve(<<>>, w) = Walk(<<>>, w) /\ Walk(<<>>, w) \in Tokens
  BY <1>1, WalkTyped DEF Resolve
<1>3. CASE IsAbsolute(path)
  <2>1. Absolute(w, path) = path
    BY <1>3 DEF Absolute
  <2>2. Resolve(Resolve(<<>>, w), path) = Walk(<<>>, path)
    BY <1>3 DEF Resolve
  <2> QED
    BY <1>3, <2>1, <2>2
<1>4. CASE ~IsAbsolute(path)
  <2> DEFINE a == IF Last(w) = Slash THEN w ELSE w \o <<Slash>>
             b == a \o path
  <2>1. Absolute(w, path) = b
    BY <1>4 DEF Absolute, BuildFilename
  <2>2. Resolve(Resolve(<<>>, w), path) = Walk(Walk(<<>>, w), path)
    BY <1>2, <1>4 DEF Resolve
  <2>3. Len(w) \in Nat /\ Len(path) \in Nat /\ Len(w) # 0 /\ w[1] = Slash
    BY DEF IsAbsolute, EmptyPath, Tokens
  <2>4. /\ a \in Tokens /\ Len(a) \in Nat /\ Len(a) # 0 /\ a[1] = Slash
        /\ Walk(<<>>, a) = Walk(<<>>, w)
        /\ \A k \in 1..Len(a) : a[k] = Slash \/ \E j \in 1..Len(w) : a[k] = w[j]
    <3>1. CASE Last(w) = Slash
      BY <2>3, <3>1
    <3>2. CASE Last(w) # Slash
      <4> DEFINE s == <<Slash>>
                 c == w \o s
      <4>1. s \in Tokens /\ Len(s) = 1 /\ s[1] = Slash /\ \A at \in Tokens : Walk(at, s) = at
        BY <1>1, IdleStep
      <4> HIDE DEF s
      <4>2. /\ c \in Tokens /\ Len(c) = Len(w) + Len(s)
            /\ \A k \in 1..Len(w) : c[k] = w[k]
            /\ \A k \in 1..Len(s) : c[Len(w) + k] = s[k]
        BY <4>1, JoinFacts
      <4>3. Walk(<<>>, c) = Walk(<<>>, w)
        BY <1>1, <1>2, <4>1, WalkJoin
      <4> HIDE DEF c
      <4>4. Len(c) = Len(w) + 1 /\ c[1] = Slash
        <5>1. 1 \in 1..Len(w)
          BY <2>3
        <5> QED
          BY <2>3, <4>1, <4>2, <5>1
      <4>5. ASSUME NEW k \in 1..Len(c)
            PROVE  c[k] = Slash \/ \E j \in 1..Len(w) : c[k] = w[j]
        <5>1. CASE k \in 1..Len(w)
          BY <4>2, <5>1
        <5>2. CASE k \notin 1..Len(w)
          <6>1. k = Len(w) + 1 /\ 1 \in 1..Len(s)
            BY <2>3, <4>1, <4>4, <5>2
          <6> QED
            BY <4>1, <4>2, <6>1
        <5> QED
          BY <5>1, <5>2
      <4>6. a = c
        BY <3>2 DEF c, s
      <4> HIDE DEF a
      <4>7. Len(c) \in Nat /\ Len(c) # 0
        BY <2>3, <4>4
      <4> QED
        BY <4>2, <4>3, <4>4, <4>5, <4>6, <4>7
    <3> QED
      BY <3>1, <3>2
  <2> HIDE DEF a
  <2>5. /\ b \in Tokens /\ Len(b) = Len(a) + Len(path)
        /\ \A k \in 1..Len(a) : b[k] = a[k]
        /\ \A k \in 1..Len(path) : b[Len(a) + k] = path[k]
    BY <2>4, JoinFacts
  <2>6. Walk(<<>>, b) = Walk(Walk(<<>>, a), path)
    BY <1>1, <2>4, WalkJoin
  <2> HIDE DEF b
  <2>7. IsAbsolute(b)
    <3>1. 1 \in 1..Len(a) /\ b # <<>>
      BY <2>3, <2>4, <2>5
    <3> QED
      BY <2>4, <2>5, <3>1 DEF IsAbsolute, EmptyPath
  <2>8. ASSUME NEW k \in 1..Len(b)
        PROVE  \/ b[k] = Slash
               \/ \E j \in 1..Len(w) : b[k] = w[j]
               \/ \E j \in 1..Len(path) : b[k] = path[j] /\ Len(b) - k = Len(path) - j
    <3>1. CASE k \in 1..Len(a)
      BY <2>4, <2>5, <3>1
    <3>2. CASE k \notin 1..Len(a)
      <4>1. k - Len(a) \in 1..Len(path) /\ Len(a) + (k - Len(a)) = k
        BY <2>3, <2>4, <2>5, <3>2
      <4>2. b[Len(a) + (k - Len(a))] = path[k - Len(a)] /\ Len(b) - k = Len(path) - (k - Len(a))
        BY <2>3, <2>4, <2>5, <4>1
      <4> QED
        BY <4>1, <4>2
    <3> QED
      BY <3>1, <3>2
  <2> QED
    BY <2>1, <2>2, <2>4, <2>5, <2>6, <2>7, <2>8
<1> QED
  BY <1>3, <1>4

\* There is a last name before the file's own.
LEMMA LastName ==
  ASSUME NEW path \in Tokens, {k \in 1..(Len(path) - 1) : path[k] # Slash} # {}
  PROVE  LET names == {k \in 1..(Len(path) - 1) : path[k] # Slash}
         IN  (CHOOSE k \in names : \A j \in names : j <= k) \in 0..Len(path)
<1> DEFINE names == {k \in 1..(Len(path) - 1) : path[k] # Slash}
           T == {Len(path) - k : k \in names}
<1>1. Len(path) \in Nat
  BY DEF Tokens
<1>2. T \in SUBSET Nat /\ T # {}
  BY <1>1
<1>3. PICK x \in T : \A y \in T : x <= y
  <2> HIDE DEF T
  <2> QED
    BY <1>2, LeastNat
<1>4. PICK k \in names : x = Len(path) - k
  BY <1>3
<1>5. ASSUME NEW j \in names PROVE j <= k
  <2>1. Len(path) - k <= Len(path) - j
    BY <1>3, <1>4
  <2> QED
    BY <1>1, <1>4, <2>1
<1> DEFINE last == CHOOSE m \in names : \A j \in names : j <= m
<1>6. last \in names
  <2> HIDE DEF names
  <2> QED
    BY <1>5
<1> HIDE DEF last
<1>7. last \in 0..Len(path)
  BY <1>1, <1>6
<1> QED
  BY <1>7 DEF last

\* The folder of a file is named by a part of the file's path.
LEMMA DirNameFacts ==
  ASSUME NEW path \in Tokens, path # <<>>
  PROVE  /\ DirName(path) \in Tokens
         /\ \A k \in 1..Len(DirName(path)) :
              \/ DirName(path)[k] \in {Dot, Slash}
              \/ \E j \in 1..Len(path) : DirName(path)[k] = path[j]
<1> DEFINE names == {k \in 1..(Len(path) - 1) : path[k] # Slash}
           last == CHOOSE k \in names : \A j \in names : j <= k
<1>1. Len(path) \in Nat
  BY DEF Tokens
<1>2. DirName(path) = IF Len(path) = 1 THEN <<Dot>>
                      ELSE IF names = {} THEN <<Slash>> ELSE SubSeq(path, 1, last)
  BY DEF DirName
<1>3. ASSUME NEW name \in {Dot, Slash}
      PROVE  <<name>> \in Tokens /\ \A k \in 1..Len(<<name>>) : <<name>>[k] = name
  BY TokenFacts DEF Tokens
<1>4. CASE Len(path) = 1
  BY <1>2, <1>3, <1>4
<1>5. CASE Len(path) # 1 /\ names = {}
  BY <1>2, <1>3, <1>5
<1>6. CASE Len(path) # 1 /\ names # {}
  <2>1. last \in 0..Len(path)
    BY <1>6, LastName
  <2> HIDE DEF last
  <2>3. last \in 0..Len(path) /\ last \in Nat /\ last <= Len(path)
    BY <1>1, <2>1
  <2>4. /\ SubSeq(path, 1, last) \in Tokens /\ Len(SubSeq(path, 1, last)) = last
        /\ \A k \in 1..last : SubSeq(path, 1, last)[k] = path[k]
    BY <2>3, CutFacts
  <2>5. \A k \in 1..last : k \in 1..Len(path)
    BY <1>1, <2>3
  <2> QED
    BY <1>2, <1>6, <2>4, <2>5
<1> QED
  BY <1>4, <1>5, <1>6

\* The name of the header next to a source.
HeaderName(name) == (IF Len(name) = 1 THEN name ELSE Front(name)) \o <<"hpp">>

LEMMA HeaderNameFacts ==
  ASSUME NEW name \in Token, name # Slash
  PROVE  HeaderName(name) \in Token /\ HeaderName(name) \notin {Slash, Dot, DotDot, NoName}
<1> DEFINE stem == IF Len(name) = 1 THEN name ELSE Front(name)
           h == stem \o <<"hpp">>
<1>1. Len(name) \in Nat /\ Len(name) # 0
  BY DEF Token, Slash
<1>2. stem \in Token /\ Len(stem) \in Nat /\ Len(stem) # 0
  <2>1. CASE Len(name) = 1
    BY <1>1, <2>1
  <2>2. CASE Len(name) # 1
    <3>1. Front(name) \in Token /\ Len(Front(name)) = Len(name) - 1
      BY <1>1, FrontFacts DEF Token, Slash
    <3> QED
      BY <1>1, <2>2, <3>1
  <2> QED
    BY <2>1, <2>2
<1> HIDE DEF stem
<1>3. "hpp" \in Piece
  BY DEF Piece
<1>4. h \in Token /\ Len(h) = Len(stem) + 1 /\ h[Len(stem) + 1] = "hpp"
  BY <1>2, <1>3 DEF Token
<1> HIDE DEF h
<1>5. h[Len(h)] = "hpp" /\ Len(h) \in Nat /\ Len(h) > 1
  BY <1>2, <1>4
<1>6. "hpp" # ""
  OBVIOUS
<1>7. /\ Len(<<>>) = 0 /\ Len(<<"">>) = 1
      /\ Len(<<"", "">>) = 2 /\ <<"", "">>[2] = ""
      /\ Len(<<"", "", "">>) = 3 /\ <<"", "", "">>[3] = ""
  OBVIOUS
<1>8. h \notin {Slash, Dot, DotDot, NoName}
  <2>1. h # Slash /\ h # NoName
    <3>1. Len(Slash) = 0 /\ Len(NoName) = 1
      BY <1>7 DEF Slash, NoName
    <3> QED
      BY <1>5, <3>1
  <2>2. h # Dot
    <3> SUFFICES ASSUME h = <<"", "">> PROVE FALSE
      BY DEF Dot
    <3>1. Len(h) = 2 /\ h[2] = ""
      BY <1>7
    <3> QED
      BY <1>5, <1>6, <3>1
  <2>3. h # DotDot
    <3> SUFFICES ASSUME h = <<"", "", "">> PROVE FALSE
      BY DEF DotDot
    <3>1. Len(h) = 3 /\ h[3] = ""
      BY <1>7
    <3> QED
      BY <1>5, <1>6, <3>1
  <2> QED
    BY <2>1, <2>2, <2>3
<1>9. HeaderName(name) = h
  BY DEF HeaderName, h, stem
<1> QED
  BY <1>4, <1>8, <1>9

\* The name of a source with its extension replaced is the header's name.
LEMMA ReplaceExtensionFacts ==
  ASSUME NEW name \in Token, name \notin {Slash, Dot, DotDot, NoName}
  PROVE  ReplaceExtension(<<name>>, <<"hpp">>) = <<HeaderName(name)>>
<1> DEFINE path == <<name>>
           p == SplitPath(path)
           kept == Without(path, {Slash})
           h == HeaderName(name)
<1>1. path \in Tokens /\ Len(path) = 1 /\ path[1] = name /\ path = <<name>>
  BY DEF Tokens
<1> HIDE DEF path
<1>2. kept = path
  <2>1. PICK u \in [0..Len(path) -> Tokens] : Keeps(u, path, {Slash}) /\ kept = u[Len(path)]
    BY <1>1, WithoutRecursion
  <2>2. u[0] = <<>> /\ u[1] = Append(u[0], path[1])
    BY <1>1, <2>1 DEF Keeps
  <2>3. Append(<<>>, name) = <<name>>
    OBVIOUS
  <2> QED
    BY <1>1, <2>1, <2>2, <2>3
<1>3. RootNameLength(path) = 0
  BY <1>1 DEF RootNameLength
<1>4. SubSeq(path, 1, 0) = <<>> /\ SubSeq(path, 1, 1) = path /\ Last(path) = name
  <2>1. SubSeq(path, 1, 0) = <<>>
    BY <1>1 DEF Tokens
  <2>2. SubSeq(path, 1, Len(path)) = path
    <3>1. \A s \in Tokens : SubSeq(s, 1, Len(s)) = s
      BY DEF Tokens
    <3> QED
      BY <1>1, <3>1
  <2>3. Last(path) = name
    BY <1>1 DEF Last
  <2> QED
    BY <1>1, <2>1, <2>2, <2>3
<1>5. FileNames(path, 0) = path
  <2>1. /\ ~(0 >= Len(path)) /\ Last(path) # Slash
        /\ SubSeq(path, 0 + 1, Len(path)) = path
    BY <1>1, <1>4
  <2>2. FileNames(path, 0) = Without(SubSeq(path, 0 + 1, Len(path)), {Slash})
    BY <2>1 DEF FileNames
  <2> QED
    BY <1>2, <2>1, <2>2
<1>6. p = Relative(path)
  <2>1. p = [root_name |-> SubSeq(path, 1, 0), root_directory |-> FALSE, filenames |-> FileNames(path, 0)]
    <3>1. (0 < Len(path) /\ path[0 + 1] = Slash) = FALSE
      BY <1>1
    <3> QED
      BY <1>3, <3>1 DEF SplitPath
  <2> QED
    BY <1>4, <1>5, <2>1 DEF Relative, EmptyPath
<1>7. ReplaceExtension(path, <<"hpp">>) = JoinPath(Relative(<<h>>))
  <2> DEFINE stem == IF Len(name) = 1 THEN name ELSE Front(name)
  <2>1. p.filenames = path
    BY <1>6 DEF Relative
  <2> HIDE DEF p
  <2> DEFINE With(names) == JoinPath([p EXCEPT !.filenames = names])
  <2>2. ReplaceExtension(path, <<"hpp">>) = With(Append(SubSeq(p.filenames, 1, 0), stem \o <<"hpp">>))
    <3>1. <<"hpp">> # <<>>
      OBVIOUS
    <3>2. ReplaceExtension(path, <<"hpp">>) =
            LET n == Len(p.filenames)
                old == IF n = 0 THEN NoName ELSE p.filenames[n]
                root == IF old \in {Dot, DotDot} \/ Len(old) = 1 THEN old ELSE Front(old)
            IN  With(Append(SubSeq(p.filenames, 1, n - 1),
                            IF <<"hpp">> = <<>> THEN root ELSE root \o <<"hpp">>))
      BY DEF ReplaceExtension, p
    <3> HIDE DEF With
    <3>3. Len(p.filenames) = 1 /\ p.filenames[1] = name /\ 1 - 1 = 0
      BY <1>1, <2>1
    <3> QED
      BY <3>1, <3>2, <3>3
  <2>3. \A names : With(names) = JoinPath(Relative(names))
    <3>1. \A a, b, x, y : [[root_name |-> a, root_directory |-> b, filenames |-> x] EXCEPT !.filenames = y] =
                           [root_name |-> a, root_directory |-> b, filenames |-> y]
      OBVIOUS
    <3> QED
      BY <1>6, <3>1 DEF Relative
  <2>4. Append(<<>>, stem \o <<"hpp">>) = <<stem \o <<"hpp">>>>
    OBVIOUS
  <2>5. stem \o <<"hpp">> = h
    BY DEF HeaderName
  <2> HIDE DEF stem, With
  <2> QED
    BY <1>4, <2>1, <2>2, <2>3, <2>4, <2>5
<1>8. JoinPath(Relative(<<h>>)) = <<h>>
  <2> DEFINE names == <<h>>
  <2>1. h \in Token /\ h # NoName
    BY HeaderNameFacts
  <2> HIDE DEF h
  <2>2. names \in Tokens /\ Len(names) = 1 /\ names[1] = h
    BY <2>1 DEF Tokens
  <2>3. PICK u \in [0..Len(names) -> Tokens] :
          Writes(u, names) /\ JoinPath(Relative(names)) = u[Len(names)]
    <3> HIDE DEF names
    <3> QED
      BY <2>2, JoinRecursion
  <2> HIDE DEF names
  <2>4. u[0] = <<>> /\ u[1] = (u[0] \o Between(1)) \o Written(h)
    <3>1. 1 \in 1..Len(names) /\ 1 - 1 = 0
      BY <2>2
    <3>2. u[0] = <<>> /\ u[1] = (u[1 - 1] \o Between(1)) \o Written(names[1])
      BY <2>3, <3>1 DEF Writes
    <3> QED
      BY <2>2, <3>1, <3>2
  <2>5. Between(1) = <<>> /\ Written(h) = <<h>>
    BY <2>1 DEF Between, Written
  <2>6. (<<>> \o <<>>) \o <<h>> = <<h>>
    OBVIOUS
  <2> QED
    BY <2>2, <2>3, <2>4, <2>5, <2>6 DEF names
<1> QED
  BY <1>1, <1>7, <1>8
-----------------------------------------------------------------------------
(* The include *)

\* The options are among those given, the include is theirs, and the header is
\* not a folder on the way to the source.
OfCommand ==
  /\ wd \in WorkDirs /\ cpp \in CppPaths /\ hpp \in HppPaths
  /\ include # Unknown => include = RelativeHeader(wd, cpp, hpp)
  /\ ~IsPrefix(Header, CppFolder)

LEMMA OfCommandHolds == Spec => []OfCommand
<1>1. Init => OfCommand
  BY DEF Init, OfCommand
<1>2. OfCommand /\ [Next]_vars => OfCommand'
  <2> SUFFICES ASSUME OfCommand, [Next]_vars PROVE OfCommand'
    OBVIOUS
  <2>1. wd' = wd /\ cpp' = cpp /\ hpp' = hpp
    BY DEF Next, GetHeader, vars
  <2>2. include' # Unknown => include' = RelativeHeader(wd, cpp, hpp)
    BY DEF OfCommand, Next, GetHeader, vars
  <2>3. CppFolder' = CppFolder
    BY <2>1 DEF CppFolder
  <2>4. Header' = Header
    BY <2>1, <2>3 DEF Header
  <2> QED
    BY <2>1, <2>2, <2>3, <2>4 DEF OfCommand
<1> QED
  BY <1>1, <1>2, PTL DEF Spec

\* What the command names, as tokens.
LEMMA CommandFacts ==
  ASSUME OfCommand
  PROVE  /\ wd \in Tokens /\ IsAbsolute(wd)
         /\ \A k \in 1..Len(wd) : wd[k] \notin {NoName, DotDot}
         /\ cpp \in Tokens /\ cpp # <<>> /\ Last(cpp) \in Token
         /\ Last(cpp) \notin {Slash, Dot, DotDot, NoName}
         /\ \A k \in 1..Len(cpp) : cpp[k] # NoName
         /\ ~GoesUp(cpp) => \A k \in 1..Len(cpp) : cpp[k] # DotDot
         /\ hpp \in Tokens /\ \A k \in 1..Len(hpp) : hpp[k] # NoName
<1>1. /\ IsPath(wd) /\ IsAbsolute(wd) /\ ~GoesUp(wd)
      /\ IsPath(cpp) /\ cpp # EmptyPath /\ Last(cpp) \notin {Slash, Dot, DotDot}
      /\ IsPath(hpp)
  BY PathsAssumption DEF OfCommand
<1>2. /\ wd \in Tokens /\ \A k \in 1..Len(wd) : wd[k] # NoName
      /\ cpp \in Tokens /\ \A k \in 1..Len(cpp) : cpp[k] # NoName
      /\ hpp \in Tokens /\ \A k \in 1..Len(hpp) : hpp[k] # NoName
  BY <1>1, PathFacts
<1>3. DOMAIN wd = 1..Len(wd) /\ DOMAIN cpp = 1..Len(cpp)
  BY <1>2 DEF Tokens
<1>4. cpp # <<>>
  BY <1>1 DEF EmptyPath
<1>5. Last(cpp) = cpp[Len(cpp)] /\ Len(cpp) \in 1..Len(cpp)
  BY <1>2, <1>4 DEF Tokens, Last
<1>6. Last(cpp) \in Token /\ Last(cpp) # NoName
  BY <1>2, <1>5 DEF Tokens
<1> QED
  BY <1>1, <1>2, <1>3, <1>4, <1>6 DEF GoesUp

\* The folder of the source as it stands in the comparison of the paths.
LEMMA FolderFacts ==
  ASSUME OfCommand
  PROVE  /\ Absolute(wd, DirName(cpp)) \in Tokens
         /\ Walk(<<>>, Absolute(wd, DirName(cpp))) = CppFolder /\ CppFolder \in Tokens
         /\ ~GoesUp(cpp) => \A k \in 1..Len(Absolute(wd, DirName(cpp))) :
                              Absolute(wd, DirName(cpp))[k] \notin {NoName, DotDot}
<1> DEFINE d == DirName(cpp)
           f == Absolute(wd, d)
<1>1. /\ d \in Tokens
      /\ \A k \in 1..Len(d) : d[k] \in {Dot, Slash} \/ \E j \in 1..Len(cpp) : d[k] = cpp[j]
  BY CommandFacts, DirNameFacts
<1> HIDE DEF d
<1>2. /\ f \in Tokens /\ Walk(<<>>, f) = Resolve(Resolve(<<>>, wd), d)
      /\ \A k \in 1..Len(f) : \/ f[k] = Slash
                              \/ \E j \in 1..Len(wd) : f[k] = wd[j]
                              \/ \E j \in 1..Len(d) : f[k] = d[j]
  BY <1>1, CommandFacts, AbsoluteLeads
<1> HIDE DEF f
<1>3. CppFolder = Walk(<<>>, f)
  BY <1>2 DEF CppFolder, d
<1>4. CppFolder \in Tokens
  <2>1. <<>> \in Tokens
    BY DEF Tokens
  <2> QED
    BY <1>2, <1>3, <2>1, WalkTyped
<1>5. ASSUME ~GoesUp(cpp), NEW k \in 1..Len(f) PROVE f[k] \notin {NoName, DotDot}
  <2>1. \A j \in 1..Len(d) : d[j] \notin {NoName, DotDot}
    BY <1>1, <1>5, CommandFacts, TokenFacts
  <2> QED
    BY <1>2, <2>1, CommandFacts, TokenFacts
<1> QED
  BY <1>2, <1>3, <1>4, <1>5 DEF f, d

\* The include leads to the header, whether the command names one or not.
LEMMA HeaderReached ==
  ASSUME OfCommand, include # Unknown, ~GoesUp(cpp)
  PROVE  Reaches
<1>1. include = RelativeHeader(wd, cpp, hpp)
  BY DEF OfCommand
<1>2. CASE hpp = EmptyPath
  <2> DEFINE h == HeaderName(Last(cpp))
  <2>1. include = <<h>>
    <3>1. include = ReplaceExtension(<<Last(cpp)>>, <<"hpp">>)
      BY <1>1, <1>2 DEF RelativeHeader, BaseName
    <3> QED
      BY <3>1, CommandFacts, ReplaceExtensionFacts
  <2>2. h \in Token /\ h \notin {Slash, Dot, DotDot, NoName}
    BY CommandFacts, HeaderNameFacts
  <2>3. Header = Append(CppFolder, h)
    BY <1>2 DEF Header, HeaderName
  <2> HIDE DEF h
  <2>4. <<h>> \in Tokens /\ <<h>> = <<>> \o <<h>> /\ <<>> \in Tokens /\ <<h>>[1] = h
    BY <2>2 DEF Tokens
  <2>5. Resolve(CppFolder, include) = Walk(CppFolder, <<h>>)
    BY <2>1, <2>2, <2>4 DEF Resolve, IsAbsolute
  <2>6. Walk(CppFolder, <<h>>) = Step(Walk(CppFolder, <<>>), h)
    <3>1. Walk(CppFolder, <<>> \o <<h>>) = Step(Walk(CppFolder, <<>>), h)
      BY <2>2, <2>4, FolderFacts, WalkStep
    <3> QED
      BY <2>4, <3>1
  <2>7. Step(Walk(CppFolder, <<>>), h) = Append(CppFolder, h)
    BY <2>2, FolderFacts, WalkNowhere DEF Step
  <2> QED
    BY <2>3, <2>5, <2>6, <2>7 DEF Reaches
<1>3. CASE hpp # EmptyPath
  <2> DEFINE path == Absolute(wd, hpp)
             folder == Absolute(wd, DirName(cpp))
             relative == LexicallyRelative(path, folder)
  <2>1. include = IF relative = EmptyPath THEN path ELSE relative
    BY <1>1, <1>3 DEF RelativeHeader
  <2>2. Header = Resolve(Resolve(<<>>, wd), hpp)
    BY <1>3 DEF Header
  <2>3. /\ path \in Tokens /\ IsAbsolute(path) /\ Walk(<<>>, path) = Header
        /\ \A k \in 1..Len(path) : path[k] # NoName
    <3>1. /\ path \in Tokens /\ IsAbsolute(path)
          /\ Walk(<<>>, path) = Resolve(Resolve(<<>>, wd), hpp)
          /\ \A k \in 1..Len(path) : \/ path[k] = Slash
                                     \/ \E j \in 1..Len(wd) : path[k] = wd[j]
                                     \/ \E j \in 1..Len(hpp) : path[k] = hpp[j]
      BY CommandFacts, AbsoluteLeads
    <3> HIDE DEF path
    <3> QED
      BY <2>2, <3>1, CommandFacts, TokenFacts
  <2>4. /\ folder \in Tokens /\ Walk(<<>>, folder) = CppFolder
        /\ \A k \in 1..Len(folder) : folder[k] \notin {NoName, DotDot}
    BY FolderFacts
  <2> HIDE DEF path, folder
  <2>5. CASE relative = EmptyPath
    BY <2>1, <2>3, <2>5 DEF Reaches, Resolve
  <2>6. CASE relative # EmptyPath
    <3>1. ~IsAbsolute(relative) /\ Walk(Walk(<<>>, folder), relative) = Walk(<<>>, path)
      BY <2>3, <2>4, <2>6, RelativeLeads
    <3> HIDE DEF relative
    <3> QED
      BY <2>1, <2>3, <2>4, <2>6, <3>1 DEF Reaches, Resolve
  <2> QED
    BY <2>5, <2>6
<1> QED
  BY <1>2, <1>3

\* For every source whose path goes up nowhere, every header and every current
\* directory, the include that _bpccmd_get_cpp_relative_header computes leads
\* the C++ compiler from the source's folder to the header.
THEOREM IncludeReachesHeaderHolds == Spec => []IncludeReachesHeader
<1>1. OfCommand => IncludeReachesHeader
  BY HeaderReached DEF IncludeReachesHeader
<1> QED
  BY <1>1, OfCommandHolds, PTL
-----------------------------------------------------------------------------
(* The include without a detour *)

\* What is kept of two paths is kept of each.
LEMMA WithoutJoin ==
  ASSUME NEW p \in Tokens, NEW q \in Tokens, NEW tokens
  PROVE  Without(p \o q, tokens) = Without(p, tokens) \o Without(q, tokens)
<1> DEFINE r == p \o q
           m == Len(p)
           n == Len(q)
<1>1. /\ r \in Tokens /\ Len(r) = m + n /\ m \in Nat /\ n \in Nat
      /\ \A k \in 1..m : r[k] = p[k]
      /\ \A k \in 1..n : r[m + k] = q[k]
      /\ \A k \in 1..n : q[k] \in Token
  BY DEF Tokens
<1>2. PICK u \in [0..Len(r) -> Tokens] : Keeps(u, r, tokens) /\ Without(r, tokens) = u[Len(r)]
  BY <1>1, WithoutRecursion
<1>3. PICK v \in [0..m -> Tokens] : Keeps(v, p, tokens) /\ Without(p, tokens) = v[m]
  BY WithoutRecursion
<1>4. PICK w \in [0..n -> Tokens] : Keeps(w, q, tokens) /\ Without(q, tokens) = w[n]
  BY WithoutRecursion
<1> DEFINE Keep(s, name) == IF name \in tokens THEN s ELSE Append(s, name)
<1>5. /\ u[0] = <<>> /\ v[0] = <<>> /\ w[0] = <<>>
      /\ \A k \in 1..(m + n) : u[k] = Keep(u[k - 1], r[k])
      /\ \A k \in 1..m : v[k] = Keep(v[k - 1], p[k])
      /\ \A k \in 1..n : w[k] = Keep(w[k - 1], q[k])
  BY <1>1, <1>2, <1>3, <1>4 DEF Keeps
<1> HIDE DEF r, m, n, Keep
<1> DEFINE First == {k \in 0..m : u[k] = v[k]}
<1>6. 0 \in First /\ \A k \in 1..m : k - 1 \in First => k \in First
  <2>1. \A k \in 1..m : k \in 1..(m + n)
    BY <1>1
  <2> QED
    BY <1>1, <1>5, <2>1
<1>7. u[m] = v[m]
  <2> HIDE DEF First
  <2>1. 0..m \subseteq First
    BY <1>1, <1>6, SegmentInduction
  <2> QED
    BY <1>1, <2>1 DEF First
<1> DEFINE Then == {k \in 0..n : u[m + k] = v[m] \o w[k]}
<1>8. 0 \in Then
  <2>1. v[m] \in Tokens
    BY <1>1, <1>3
  <2>2. v[m] \o <<>> = v[m]
    BY <2>1 DEF Tokens
  <2>3. w[0] = <<>> /\ m + 0 = m /\ 0 \in 0..n
    BY <1>1, <1>5
  <2>4. u[m + 0] = v[m] \o w[0]
    BY <1>7, <2>2, <2>3
  <2> QED
    BY <2>3, <2>4
<1>9. ASSUME NEW k \in 1..n, k - 1 \in Then PROVE k \in Then
  <2> DEFINE a == v[m]
             s == w[k - 1]
  <2>1. /\ m + k \in 1..(m + n) /\ (m + k) - 1 = m + (k - 1) /\ k - 1 \in 0..n
        /\ a \in Tokens /\ s \in Tokens /\ q[k] \in Token
    BY <1>1, <1>3, <1>4
  <2>2. u[m + (k - 1)] = a \o s
    BY <1>9
  <2>3. u[m + k] = Keep(a \o s, q[k]) /\ w[k] = Keep(s, q[k])
    BY <1>1, <1>5, <2>1, <2>2, ZenonT(60)
  <2> HIDE DEF a, s
  <2>4. Keep(a \o s, q[k]) = a \o Keep(s, q[k])
    <3> DEFINE e == <<q[k]>>
    <3>1. e \in Tokens
      BY <2>1 DEF Tokens
    <3>2. Append(a \o s, q[k]) = (a \o s) \o e /\ Append(s, q[k]) = s \o e
      BY <2>1, AppendIsConcat, SMTT(60) DEF Tokens
    <3> HIDE DEF e
    <3>3. (a \o s) \o e = a \o (s \o e)
      BY <2>1, <3>1, JoinAssociative, SMTT(60)
    <3> QED
      BY <3>2, <3>3 DEF Keep
  <2>5. u[m + k] = a \o w[k]
    BY <2>3, <2>4
  <2> QED
    BY <1>1, <2>5 DEF a
<1>10. n \in Then
  <2> HIDE DEF Then
  <2>1. 0..n \subseteq Then
    BY <1>1, <1>8, <1>9, SegmentInduction
  <2> QED
    BY <1>1, <2>1
<1> QED
  BY <1>1, <1>2, <1>3, <1>4, <1>10 DEF r

\* Of one token.
LEMMA WithoutOne ==
  ASSUME NEW name \in Token, NEW tokens
  PROVE  /\ Without(<<name>>, tokens) = IF name \in tokens THEN <<>> ELSE <<name>>
         /\ Without(<<>>, tokens) = <<>>
<1> DEFINE path == <<name>>
<1>1. path \in Tokens /\ Len(path) = 1 /\ path[1] = name /\ <<>> \in Tokens /\ Len(<<>>) = 0
  BY DEF Tokens
<1> HIDE DEF path
<1>2. PICK u \in [0..Len(path) -> Tokens] : Keeps(u, path, tokens) /\ Without(path, tokens) = u[Len(path)]
  BY <1>1, WithoutRecursion
<1>3. PICK v \in [0..0 -> Tokens] : Keeps(v, <<>>, tokens) /\ Without(<<>>, tokens) = v[0]
  BY <1>1, WithoutRecursion
<1>4. u[0] = <<>> /\ u[1] = IF name \in tokens THEN <<>> ELSE Append(<<>>, name)
  <2>1. 1 \in 1..Len(path) /\ 1 - 1 = 0
    BY <1>1
  <2>2. u[0] = <<>> /\ u[1] = IF path[1] \in tokens THEN u[1 - 1] ELSE Append(u[1 - 1], path[1])
    BY <1>2, <2>1 DEF Keeps
  <2> QED
    BY <1>1, <2>1, <2>2
<1>5. Append(<<>>, name) = <<name>>
  OBVIOUS
<1> QED
  BY <1>1, <1>2, <1>3, <1>4, <1>5 DEF Keeps, path

\* Nothing is left out of a path without the tokens.
LEMMA WithoutNone ==
  ASSUME NEW path \in Tokens, NEW tokens, \A k \in 1..Len(path) : path[k] \notin tokens
  PROVE  Without(path, tokens) = path
<1> DEFINE n == Len(path)
<1>1. n \in Nat /\ \A k \in 1..n : path[k] \in Token
  BY DEF Tokens
<1>2. PICK u \in [0..n -> Tokens] : Keeps(u, path, tokens) /\ Without(path, tokens) = u[n]
  BY WithoutRecursion
<1>3. u[0] = <<>> /\ \A k \in 1..n : u[k] = Append(u[k - 1], path[k])
  BY <1>2 DEF Keeps
<1> DEFINE Good == {k \in 0..n : Len(u[k]) = k /\ \A j \in 1..k : u[k][j] = path[j]}
<1> HIDE DEF n
<1>4. 0 \in Good
  BY <1>1, <1>3
<1>5. ASSUME NEW k \in 1..n, k - 1 \in Good PROVE k \in Good
  <2> DEFINE s == u[k - 1]
             t == Append(s, path[k])
  <2>1. s \in Tokens /\ path[k] \in Token /\ k \in Nat /\ Len(s) = k - 1 /\ \A j \in 1..(k - 1) : s[j] = path[j]
    BY <1>1, <1>2, <1>5
  <2> HIDE DEF s
  <2>2. Len(t) = k /\ t[k] = path[k] /\ \A j \in 1..(k - 1) : t[j] = s[j]
    BY <2>1 DEF Tokens
  <2>3. u[k] = t
    BY <1>3 DEF s
  <2> HIDE DEF t
  <2>4. \A j \in 1..k : j \in 1..(k - 1) \/ j = k
    BY <2>1
  <2> QED
    BY <1>1, <2>1, <2>2, <2>3, <2>4
<1>6. n \in Good
  <2> HIDE DEF Good
  <2>1. 0..n \subseteq Good
    BY <1>1, <1>4, <1>5, SegmentInduction
  <2> QED
    BY <1>1, <2>1
<1> DEFINE s == u[n]
<1>7. s \in Tokens /\ Len(s) = n /\ \A j \in 1..n : s[j] = path[j]
  BY <1>1, <1>2, <1>6
<1> HIDE DEF s
<1>8. s = path
  BY <1>7 DEF Tokens, n
<1> QED
  BY <1>2, <1>8 DEF s

\* The names of a path that are steps.
Kept(path) == Without(path, {Dot, NoName, Slash})

\* Without a step up the way along a path adds its names.
LEMMA WalkPlain ==
  ASSUME NEW at \in Tokens, NEW path \in Tokens, \A k \in 1..Len(path) : path[k] # DotDot
  PROVE  Kept(path) \in Tokens /\ Walk(at, path) = at \o Kept(path)
<1> DEFINE t == Kept(path)
           n == Len(t)
<1>1. t \in Tokens /\ AreOf(t, path, {Dot, NoName, Slash}) /\ Walk(at, t) = Walk(at, path)
  BY WithoutFacts DEF Kept
<1> HIDE DEF t
<1>2. n \in Nat /\ \A k \in 1..n : t[k] \in Token /\ t[k] \notin {Dot, NoName, Slash, DotDot}
  <2>1. n \in Nat /\ \A k \in 1..n : t[k] \in Token
    BY <1>1 DEF Tokens
  <2>2. ASSUME NEW k \in 1..n PROVE t[k] \notin {Dot, NoName, Slash} /\ t[k] # DotDot
    BY <1>1 DEF AreOf
  <2> QED
    BY <2>1, <2>2
<1>3. PICK w \in [0..n -> Tokens] : Walks(w, at, t) /\ Walk(at, t) = w[n]
  BY <1>1, WalkRecursion
<1>4. w[0] = at /\ \A k \in 1..n : w[k] = Append(w[k - 1], t[k])
  BY <1>2, <1>3 DEF Walks, Step
<1> HIDE DEF n
<1> DEFINE m == Len(at)
           Good == {k \in 0..n : /\ Len(w[k]) = m + k
                                 /\ \A j \in 1..m : w[k][j] = at[j]
                                 /\ \A j \in 1..k : w[k][m + j] = t[j]}
<1>5. m \in Nat
  BY DEF Tokens
<1>6. 0 \in Good
  BY <1>2, <1>4, <1>5
<1> HIDE DEF m
<1>7. ASSUME NEW k \in 1..n, k - 1 \in Good PROVE k \in Good
  <2> DEFINE s == w[k - 1]
             v == Append(s, t[k])
  <2>1. /\ s \in Tokens /\ t[k] \in Token /\ k \in Nat /\ Len(s) = m + (k - 1)
        /\ \A j \in 1..m : s[j] = at[j]
        /\ \A j \in 1..(k - 1) : s[m + j] = t[j]
    BY <1>2, <1>3, <1>7
  <2> HIDE DEF s
  <2>2. Len(v) = m + k /\ v[m + k] = t[k] /\ \A j \in 1..(m + (k - 1)) : v[j] = s[j]
    BY <1>5, <2>1 DEF Tokens
  <2>3. w[k] = v
    BY <1>4 DEF s
  <2> HIDE DEF v
  <2>4. \A j \in 1..m : j \in 1..(m + (k - 1))
    BY <1>5, <2>1
  <2>5. ASSUME NEW j \in 1..k PROVE v[m + j] = t[j]
    <3>1. CASE j = k
      BY <2>2, <3>1
    <3>2. CASE j # k
      <4>1. j \in 1..(k - 1) /\ m + j \in 1..(m + (k - 1))
        BY <1>5, <2>1, <3>2
      <4> QED
        BY <2>1, <2>2, <4>1
    <3> QED
      BY <3>1, <3>2
  <2> QED
    BY <1>2, <2>1, <2>2, <2>3, <2>4, <2>5
<1>8. n \in Good
  <2> HIDE DEF Good
  <2>1. 0..n \subseteq Good
    BY <1>2, <1>6, <1>7, SegmentInduction
  <2> QED
    BY <1>2, <2>1
<1> DEFINE a == w[n]
           b == at \o t
<1>9. /\ a \in Tokens /\ Len(a) = m + n
      /\ \A j \in 1..m : a[j] = at[j]
      /\ \A j \in 1..n : a[m + j] = t[j]
  BY <1>2, <1>3, <1>8
<1>10. /\ b \in Tokens /\ Len(b) = m + n
       /\ \A j \in 1..m : b[j] = at[j]
       /\ \A j \in 1..n : b[m + j] = t[j]
  BY <1>1, JoinFacts DEF m, n
<1> HIDE DEF a, b
<1>11. a = b
  <2>1. ASSUME NEW j \in 1..(m + n) PROVE a[j] = b[j]
    <3>1. CASE j \in 1..m
      BY <1>9, <1>10, <3>1
    <3>2. CASE j \notin 1..m
      <4>1. j - m \in 1..n /\ m + (j - m) = j
        BY <1>2, <1>5, <3>2
      <4>2. a[m + (j - m)] = b[m + (j - m)]
        BY <1>9, <1>10, <4>1
      <4> QED
        BY <4>1, <4>2
    <3> QED
      BY <3>1, <3>2
  <2> QED
    BY <1>9, <1>10, <2>1 DEF Tokens
<1> QED
  BY <1>1, <1>3, <1>11 DEF a, b, t

\* What is left is a path of the path's tokens.
LEMMA WithoutTyped ==
  ASSUME NEW path \in Tokens, NEW tokens
  PROVE  Without(path, tokens) \in Tokens /\ AreOf(Without(path, tokens), path, tokens)
<1>1. <<>> \in Tokens
  BY DEF Tokens
<1> QED
  BY <1>1, WithoutFacts

LEMMA OneToken ==
  ASSUME NEW s \in Tokens, Len(s) = 1
  PROVE  s = <<s[1]>> /\ s[1] \in Token
BY DEF Tokens

\* Two paths with the same names are the same path.
LEMMA SameTokens ==
  ASSUME NEW a \in Tokens, NEW b \in Tokens, Len(a) = Len(b),
         \A k \in 1..Len(b) : a[k] = b[k]
  PROVE  a = b
BY DEF Tokens

\* What is kept of two paths one behind the other.
LEMMA KeptJoin ==
  ASSUME NEW p \in Tokens, NEW q \in Tokens
  PROVE  Kept(p \o q) = Kept(p) \o Kept(q)
<1> DEFINE T == {Dot, NoName, Slash}
<1> HIDE DEF T
<1>1. Without(p \o q, T) = Without(p, T) \o Without(q, T)
  BY WithoutJoin
<1> QED
  BY <1>1 DEF Kept, T

\* A step that comes first is kept first.
LEMMA KeptFirst ==
  ASSUME NEW path \in Tokens, path # <<>>, path[1] \notin {Dot, NoName, Slash}
  PROVE  Kept(path) # <<>> /\ Kept(path)[1] = path[1]
<1> DEFINE a == <<path[1]>>
           b == SubSeq(path, 2, Len(path))
           tokens == {Dot, NoName, Slash}
<1>1. Len(path) \in Nat /\ Len(path) # 0 /\ path[1] \in Token
  BY DEF Tokens
<1>2. SubSeq(path, 1, 1) \in Tokens /\ b \in Tokens /\ path = SubSeq(path, 1, 1) \o b
      /\ Len(SubSeq(path, 1, 1)) = 1 /\ SubSeq(path, 1, 1)[1] = path[1]
  <2>1. 1 \in 0..Len(path) /\ 1 + 1 = 2 /\ 1 \in 1..1
    BY <1>1
  <2> QED
    BY <2>1, CutFacts, ZenonT(60)
<1>3. SubSeq(path, 1, 1) = a
  BY <1>2, OneToken
<1>4. a \in Tokens /\ path = a \o b
  BY <1>2, <1>3
<1>5. Without(a, tokens) = a
  BY <1>1, WithoutOne
<1> HIDE DEF tokens, b
<1>6. Without(b, tokens) \in Tokens /\ Without(path, tokens) = Without(a, tokens) \o Without(b, tokens)
  <2> HIDE DEF a
  <2>1. Without(b, tokens) \in Tokens
    BY <1>2, WithoutTyped
  <2>2. Without(a \o b, tokens) = Without(a, tokens) \o Without(b, tokens)
    BY <1>2, <1>4, WithoutJoin
  <2> QED
    BY <1>4, <2>1, <2>2
<1> DEFINE c == Without(b, tokens)
<1> HIDE DEF c
<1>7. a \o c # <<>> /\ (a \o c)[1] = path[1]
  <2>1. Len(a) = 1 /\ a[1] = path[1] /\ c \in Tokens
    BY <1>6 DEF c
  <2> HIDE DEF a
  <2>2. Len(a \o c) = Len(a) + Len(c) /\ \A k \in 1..Len(a) : (a \o c)[k] = a[k]
    BY <1>4, <2>1, JoinFacts
  <2>3. Len(c) \in Nat
    BY <2>1 DEF Tokens
  <2>4. 1 \in 1..Len(a) /\ Len(a \o c) # 0 /\ Len(<<>>) = 0
    BY <2>1, <2>2, <2>3
  <2> QED
    BY <2>1, <2>2, <2>4
<1> QED
  BY <1>5, <1>6, <1>7 DEF Kept, tokens, c

\* The joined path has the names that are steps, and ".." is one of them.
LEMMA JoinedKept ==
  ASSUME NEW names \in Tokens, \A k \in 1..Len(names) : names[k] \notin {Dot, Slash}
  PROVE  Without(JoinPath(Relative(names)), {Slash}) = Kept(names)
<1> DEFINE n == Len(names)
<1>1. n \in Nat /\ (\A k \in 1..n : names[k] \in Token) /\ <<>> \in Tokens
  BY DEF Tokens
<1>2. PICK u \in [0..n -> Tokens] :
        Writes(u, names) /\ JoinPath(Relative(names)) = u[n]
  BY JoinRecursion
<1>3. PICK v \in [0..n -> Tokens] :
        Keeps(v, names, {Dot, NoName, Slash}) /\ Kept(names) = v[n]
  BY WithoutRecursion DEF Kept
<1>4. /\ u[0] = <<>> /\ v[0] = <<>>
      /\ \A k \in 1..n : u[k] = (u[k - 1] \o Between(k)) \o Written(names[k])
      /\ \A k \in 1..n : v[k] = IF names[k] = NoName THEN v[k - 1] ELSE Append(v[k - 1], names[k])
  BY <1>2, <1>3 DEF Writes, Keeps
<1>5. \A k \in 1..n : names[k] # Slash
  OBVIOUS
<1> HIDE DEF n
<1> DEFINE Good == {k \in 0..n : Without(u[k], {Slash}) = v[k]}
<1>6. 0 \in Good
  <2>1. Without(<<>>, {Slash}) = <<>>
    BY TokenFacts, WithoutOne
  <2> QED
    BY <1>1, <1>4, <2>1
<1>7. ASSUME NEW k \in 1..n, k - 1 \in Good PROVE k \in Good
  <2> DEFINE s == u[k - 1]
             b == Between(k)
             w == Written(names[k])
             p == v[k - 1]
             T == {Slash}
  <2>1. /\ k \in Nat /\ k - 1 \in 0..n /\ names[k] \in Token
        /\ s \in Tokens /\ p \in Tokens /\ Without(s, T) = p
        /\ u[k] = (s \o b) \o w
        /\ v[k] = IF names[k] = NoName THEN p ELSE Append(p, names[k])
    <3>1. k \in Nat /\ k - 1 \in 0..n /\ names[k] \in Token
      BY <1>1
    <3>2. s \in Tokens /\ p \in Tokens
      BY <1>2, <1>3, <3>1
    <3>3. Without(s, T) = p
      BY <1>7
    <3> QED
      BY <1>4, <3>1, <3>2, <3>3
  <2>2. b \in Tokens /\ w \in Tokens
    BY <2>1, WrittenTyped
  <2>3. Without(b, T) = <<>>
    BY TokenFacts, WithoutOne DEF Between
  <2>4. Without(w, T) = IF names[k] = NoName THEN <<>> ELSE <<names[k]>>
    BY <1>5, <2>1, WithoutOne DEF Written
  <2> HIDE DEF s, b, w, p, T
  <2>5. /\ Without((s \o b) \o w, T) = Without(s \o b, T) \o Without(w, T)
        /\ Without(s \o b, T) = Without(s, T) \o Without(b, T)
    <3>1. s \in Tokens /\ b \in Tokens /\ s \o b \in Tokens
      BY <2>1, <2>2, JoinFacts
    <3>2. Without(s \o b, T) = Without(s, T) \o Without(b, T)
      BY <3>1, WithoutJoin
    <3> DEFINE c == s \o b
    <3>3. c \in Tokens
      BY <3>1
    <3> HIDE DEF c
    <3>4. Without(c \o w, T) = Without(c, T) \o Without(w, T)
      BY <2>2, <3>3, WithoutJoin
    <3> QED
      BY <3>2, <3>4 DEF c
  <2>6. p \o <<>> = p /\ Append(p, names[k]) = p \o <<names[k]>>
    BY <2>1, AppendIsConcat DEF Tokens
  <2>7. Without((s \o b) \o w, T) = v[k]
    BY <2>1, <2>3, <2>4, <2>5, <2>6
  <2>8. Without(u[k], {Slash}) = v[k]
    BY <2>1, <2>7 DEF T
  <2> QED
    BY <1>1, <2>8
<1>8. n \in Good
  <2> HIDE DEF Good
  <2>1. 0..n \subseteq Good
    BY <1>1, <1>6, <1>7, SegmentInduction
  <2> QED
    BY <1>1, <2>1
<1> QED
  BY <1>2, <1>3, <1>8

\* A "." at the end of a path is the last of its names.
LEMMA DotIsLast ==
  ASSUME NEW path \in Tokens, \A k \in 1..Len(path) : path[k] = Dot => k = Len(path)
  PROVE  \A k \in 1..Len(SplitPath(path).filenames) :
           SplitPath(path).filenames[k] = Dot => k = Len(SplitPath(path).filenames)
<1> DEFINE n == Len(path)
           root == RootNameLength(path)
           dir == root < n /\ path[root + 1] = Slash
           i == IF dir THEN root + 1 ELSE root
           f == FileNames(path, i)
           q == SubSeq(path, i + 1, n)
           names == Without(q, {Slash})
<1>1. SplitPath(path).filenames = f
  BY DEF SplitPath
<1>2. n \in Nat /\ i \in 0..n
  BY RootNameFacts DEF Tokens
<1> HIDE DEF i, n
<1>3. /\ q \in Tokens /\ Len(q) = n - i /\ \A k \in 1..(n - i) : q[k] = path[i + k]
      /\ n - i \in Nat /\ i \in Nat
  <2>1. n - i \in Nat /\ i \in Nat
    BY <1>2
  <2>2. q \in Tokens /\ Len(q) = n - i /\ \A k \in 1..(n - i) : q[k] = path[i + k]
    BY <1>2, CutFacts DEF n
  <2> QED
    BY <2>1, <2>2
<1>4. f = IF i >= n THEN <<>> ELSE IF Last(path) = Slash THEN Append(names, NoName) ELSE names
  BY DEF FileNames, n
<1> HIDE DEF f, q
<1>5. CASE i >= n
  BY <1>1, <1>4, <1>5
<1>6. CASE ~(i >= n) /\ Last(path) = Slash
  <2>1. Last(path) = path[n] /\ n \in 1..n
    BY <1>2, <1>6 DEF Last, n
  <2>2. \A k \in 1..n : path[k] # Dot
    BY <1>6, <2>1, TokenFacts DEF n
  <2>3. names \in Tokens /\ AreOf(names, q, {Slash})
    BY <1>3, WithoutTyped
  <2> HIDE DEF names
  <2>4. \A k \in 1..Len(q) : q[k] # Dot
    <3>1. ASSUME NEW k \in 1..(n - i) PROVE q[k] # Dot
      <4>1. i + k \in 1..n
        BY <1>2, <1>3
      <4> QED
        BY <1>3, <2>2, <4>1
    <3> QED
      BY <1>3, <3>1
  <2>5. \A k \in 1..Len(names) : names[k] # Dot
    BY <2>3, <2>4 DEF AreOf
  <2>6. /\ Len(f) = Len(names) + 1 /\ Len(names) \in Nat
        /\ \A k \in 1..Len(names) : f[k] = names[k]
    BY <1>4, <1>6, <2>3, TokenFacts DEF Tokens
  <2>7. ASSUME NEW k \in 1..Len(f), f[k] = Dot PROVE k = Len(f)
    <3>1. k \notin 1..Len(names)
      BY <2>5, <2>6, <2>7
    <3> QED
      BY <2>6, <3>1
  <2> QED
    BY <1>1, <2>7
<1>7. CASE ~(i >= n) /\ Last(path) # Slash
  <2> DEFINE j == (n - i) - 1
             a == SubSeq(q, 1, j)
             b == SubSeq(q, j + 1, Len(q))
             T == {Slash}
  <2>1. j \in 0..Len(q) /\ j \in Nat /\ j + 1 = Len(q) /\ Len(q) \in 1..(Len(q) + 1)
    BY <1>2, <1>3, <1>7
  <2> HIDE DEF j
  <2>2. /\ a \in Tokens /\ b \in Tokens /\ Len(a) = j /\ Len(b) = 1 /\ b[1] = q[Len(q)]
        /\ \A k \in 1..j : a[k] = q[k]
        /\ q = a \o b
    <3>1. /\ a \in Tokens /\ b \in Tokens /\ Len(a) = j /\ Len(b) = Len(q) - j
          /\ \A k \in 1..(Len(q) - j) : b[k] = q[j + k]
          /\ \A k \in 1..j : a[k] = q[k]
          /\ q = a \o b
      BY <1>3, <2>1, CutFacts
    <3> HIDE DEF a, b
    <3>2. Len(q) - j = 1 /\ 1 \in 1..(Len(q) - j)
      BY <2>1
    <3> QED
      BY <2>1, <3>1, <3>2
  <2> HIDE DEF a, b, T
  <2>3. b = <<b[1]>> /\ b[1] \in Token
    BY <2>2, OneToken
  <2>4. names = Without(a, T) \o Without(b, T)
    BY <2>2, WithoutJoin DEF T
  <2> DEFINE x == Without(a, T)
             y == Without(b, T)
  <2>5. x \in Tokens /\ AreOf(x, a, T)
    BY <2>2, WithoutTyped
  <2>6. y \in Tokens /\ Len(y) \in {0, 1}
    <3> DEFINE e == b[1]
    <3>1. Without(<<e>>, T) \in {<<>>, <<e>>}
      BY <2>3, WithoutOne
    <3>2. <<>> \in Tokens /\ <<e>> \in Tokens /\ Len(<<>>) = 0 /\ Len(<<e>>) = 1
      BY <2>3 DEF Tokens
    <3> HIDE DEF e
    <3>3. Without(<<e>>, T) \in Tokens /\ Len(Without(<<e>>, T)) \in {0, 1}
      BY <3>1, <3>2
    <3> QED
      BY <2>3, <3>3 DEF e
  <2>7. \A k \in 1..Len(x) : x[k] # Dot
    <3>1. ASSUME NEW k \in 1..Len(a) PROVE a[k] # Dot
      <4>1. k \in 1..j /\ k \in 1..(n - i) /\ i + k \in 1..n /\ i + k # n /\ a[k] = path[i + k]
        BY <1>2, <1>3, <2>1, <2>2
      <4> QED
        BY <4>1 DEF n
    <3> QED
      BY <2>5, <3>1 DEF AreOf
  <2> HIDE DEF x, y
  <2>8. /\ Len(x \o y) = Len(x) + Len(y) /\ Len(x) \in Nat
        /\ \A k \in 1..Len(x) : (x \o y)[k] = x[k]
    BY <2>5, <2>6, JoinFacts DEF Tokens
  <2>9. f = x \o y
    BY <1>4, <1>7, <2>4 DEF x, y
  <2>10. ASSUME NEW k \in 1..Len(f), f[k] = Dot PROVE k = Len(f)
    <3>1. k \notin 1..Len(x)
      BY <2>7, <2>8, <2>9, <2>10
    <3> HIDE DEF names
    <3>2. Len(f) = Len(x) \/ Len(f) = Len(x) + 1
      <4>1. Len(f) = Len(x) + Len(y)
        BY <2>8, <2>9
      <4> QED
        <5>1. Len(y) = 0 \/ Len(y) = 1
          BY <2>6
        <5>2. Len(x) \in Nat
          BY <2>8
        <5>3. \A a1, b1, c1 : a1 = b1 + c1 /\ b1 \in Nat /\ (c1 = 0 \/ c1 = 1) => a1 = b1 \/ a1 = b1 + 1
          OBVIOUS
        <5> QED
          BY <4>1, <5>1, <5>2, <5>3
    <3> QED
      BY <2>8, <3>1, <3>2
  <2> QED
    BY <1>1, <2>10
<1> QED
  BY <1>5, <1>6, <1>7

\* Without names that are no steps in between, the two places have a common
\* part, are apart behind it, and the relative path goes up as many steps as the
\* folder is below it and then down the names of the file.
LEMMA RelativeDirect ==
  ASSUME NEW path \in Tokens, \A k \in 1..Len(path) : path[k] \notin {NoName, Dot, DotDot},
         NEW folder \in Tokens, \A k \in 1..Len(folder) : folder[k] \notin {NoName, DotDot},
         \A k \in 1..Len(folder) : folder[k] = Dot => k = Len(folder),
         LexicallyRelative(path, folder) # EmptyPath
  PROVE  \E shared \in Tokens, down \in Tokens, over \in Tokens :
           /\ Walk(<<>>, path) = shared \o down
           /\ Walk(<<>>, folder) = shared \o over
           /\ down = <<>> \/ over = <<>> \/ down[1] # over[1]
           /\ \/ down = <<>>
              \/ Without(LexicallyRelative(path, folder), {Slash}) = Ups(Len(over)) \o down
<1> DEFINE r == LexicallyRelative(path, folder)
<1>1. PICK this \in Tokens, base \in Tokens, start \in Tokens :
        /\ ProperNames(this, path)
        /\ base = SplitPath(folder).filenames /\ ProperNames(base, folder)
        /\ Walk(<<>>, path) = Walk(start, this) /\ Walk(<<>>, folder) = Walk(start, base)
        /\ Led(this, base, r)
  BY Compared
<1> HIDE DEF r
<1> DEFINE i == Mismatch(this, base)
           n == StepsUp(base, i)
           rest == SubSeq(this, i, Len(this))
           left == SubSeq(base, i, Len(base))
           front == SubSeq(this, 1, i - 1)
<1>2. \/ rest = <<>> \/ Head(rest) = NoName
      \/ r = JoinPath(Relative(Ups(n) \o rest))
  BY <1>1 DEF Led
<1>3. /\ i \in 1..(Len(this) + 1) /\ i \in 1..(Len(base) + 1)
      /\ front = SubSeq(base, 1, i - 1)
      /\ i > Len(this) \/ i > Len(base) \/ this[i] # base[i]
  BY MismatchFacts
<1>4. Len(this) \in Nat /\ Len(base) \in Nat /\ i \in Nat
  <2>1. Len(this) \in Nat /\ Len(base) \in Nat
    BY DEF Tokens
  <2> HIDE DEF i
  <2> QED
    BY <1>3, <2>1
<1>5. \A k \in 1..Len(this) : this[k] \notin {Dot, DotDot, Slash}
  <2>1. \A k \in 1..Len(this) : this[k] = NoName \/ \E j \in 1..Len(path) : this[k] = path[j]
    BY <1>1 DEF ProperNames
  <2>2. \A k \in 1..Len(this) : this[k] # Slash
    BY <1>1 DEF ProperNames
  <2> QED
    BY <2>1, <2>2, TokenFacts
<1>6. \A k \in 1..Len(base) : base[k] \notin {DotDot, Slash}
  BY <1>1, TokenFacts DEF ProperNames
<1>7. \A k \in 1..Len(base) : base[k] \in {Dot, NoName} => k = Len(base)
  BY <1>1, DotIsLast DEF ProperNames
<1>8. \A k \in 1..Len(this) : this[k] = NoName => k = Len(this)
  BY <1>1 DEF ProperNames
<1> HIDE DEF i
<1>9. /\ front \in Tokens /\ rest \in Tokens /\ this = front \o rest
      /\ \A k \in 1..Len(rest) : rest[k] = this[(i - 1) + k]
      /\ rest # <<>> => i \in 1..Len(this) /\ rest[1] = this[i] /\ Head(rest) = this[i]
      /\ i = Len(this) => rest = <<this[i]>>
  <2>1. /\ front \in Tokens /\ rest \in Tokens /\ this = front \o rest
        /\ \A k \in 1..Len(rest) : rest[k] = this[(i - 1) + k]
        /\ i > Len(this) => rest = <<>>
        /\ i <= Len(this) => rest[1] = this[i] /\ Head(rest) = this[i]
        /\ i = Len(this) => rest = <<this[i]>>
    BY <1>3, RestFacts
  <2>2. i > Len(this) \/ (i <= Len(this) /\ i \in 1..Len(this))
    BY <1>3, <1>4
  <2> HIDE DEF front, rest
  <2> QED
    BY <2>1, <2>2
<1>10. /\ left \in Tokens /\ base = front \o left
       /\ \A k \in 1..Len(left) : left[k] = base[(i - 1) + k]
       /\ left # <<>> => i \in 1..Len(base) /\ left[1] = base[i]
       /\ i = Len(base) => left = <<base[i]>>
  <2>1. /\ SubSeq(base, 1, i - 1) \in Tokens /\ left \in Tokens
        /\ base = SubSeq(base, 1, i - 1) \o left
        /\ \A k \in 1..Len(left) : left[k] = base[(i - 1) + k]
        /\ i > Len(base) => left = <<>>
        /\ i <= Len(base) => left[1] = base[i]
        /\ i = Len(base) => left = <<base[i]>>
    BY <1>3, RestFacts
  <2>2. i > Len(base) \/ (i <= Len(base) /\ i \in 1..Len(base))
    BY <1>3, <1>4
  <2>3. front = SubSeq(base, 1, i - 1)
    BY <1>3
  <2> HIDE DEF left, front
  <2> QED
    BY <2>1, <2>2, <2>3
<1>11. n \in Nat /\ Len(Walk(start, base)) = Len(Walk(start, front)) + n
  <2>1. StepsUp(base, i) \in Nat
        /\ Len(Walk(start, base)) = Len(Walk(start, SubSeq(base, 1, i - 1))) + StepsUp(base, i)
    BY <1>3, <1>6, BackUp
  <2> QED
    BY <1>3, <2>1
<1>12. Len(rest) = Len(this) - (i - 1) /\ Len(left) = Len(base) - (i - 1)
  <2> DEFINE j == i - 1
  <2>1. j \in 0..Len(this) /\ j \in 0..Len(base) /\ j + 1 = i
    BY <1>3, <1>4
  <2> HIDE DEF j
  <2>2. Len(SubSeq(this, j + 1, Len(this))) = Len(this) - j
    BY <2>1, CutFacts
  <2>3. Len(SubSeq(base, j + 1, Len(base))) = Len(base) - j
    BY <2>1, CutFacts
  <2> QED
    BY <2>1, <2>2, <2>3 DEF j
<1> HIDE DEF n, rest, left, front
<1>13. (\A k \in 1..Len(rest) : rest[k] \notin {Dot, DotDot, Slash})
       /\ (\A k \in 1..Len(left) : left[k] # DotDot)
  <2>1. ASSUME NEW k \in 1..Len(rest) PROVE rest[k] \notin {Dot, DotDot, Slash}
    <3>1. (i - 1) + k \in 1..Len(this)
      BY <1>3, <1>4, <1>12
    <3> QED
      BY <1>5, <1>9, <3>1
  <2>2. ASSUME NEW k \in 1..Len(left) PROVE left[k] # DotDot
    <3>1. (i - 1) + k \in 1..Len(base)
      BY <1>3, <1>4, <1>12
    <3> QED
      BY <1>6, <1>10, <3>1
  <2> QED
    BY <2>1, <2>2
<1> DEFINE shared == Walk(start, front)
           down == Kept(rest)
           over == Kept(left)
<1>14. shared \in Tokens
  BY <1>9, WalkTyped
<1>15. down \in Tokens /\ Walk(<<>>, path) = shared \o down
  <2>1. Walk(start, this) = Walk(shared, rest)
    BY <1>9, WalkJoin
  <2> HIDE DEF shared
  <2>2. down \in Tokens /\ Walk(shared, rest) = shared \o down
    BY <1>9, <1>13, <1>14, WalkPlain, SMTT(60)
  <2> QED
    BY <1>1, <2>1, <2>2
<1>16. over \in Tokens /\ Walk(<<>>, folder) = shared \o over
  <2>1. Walk(start, base) = Walk(shared, left)
    BY <1>9, <1>10, WalkJoin
  <2> HIDE DEF shared
  <2>2. over \in Tokens /\ Walk(shared, left) = shared \o over
    BY <1>10, <1>13, <1>14, WalkPlain
  <2> QED
    BY <1>1, <2>1, <2>2
<1>17. n = Len(over)
  <2>1. Walk(start, base) = shared \o over
    BY <1>1, <1>16
  <2>2. Len(shared) + Len(over) = Len(shared) + n
    <3> HIDE DEF over
    <3>1. Len(shared \o over) = Len(shared) + Len(over)
      <4> HIDE DEF shared
      <4> QED
        BY <1>14, <1>16, JoinFacts
    <3> QED
      BY <1>11, <2>1, <3>1
  <2> HIDE DEF shared, over
  <2>3. Len(shared) \in Nat /\ Len(over) \in Nat
    BY <1>14, <1>16 DEF Tokens
  <2> QED
    BY <1>11, <2>2, <2>3
<1>18. ASSUME NEW name \in {Dot, NoName}
       PROVE  Kept(<<name>>) = <<>> /\ Kept(<<>>) = <<>>
  BY TokenFacts, WithoutOne DEF Kept
<1>19. rest = <<>> \/ rest[1] = NoName => down = <<>>
  <2>1. CASE rest = <<>>
    BY <1>18, <2>1
  <2>2. CASE rest # <<>> /\ rest[1] = NoName
    <3>1. i \in 1..Len(this) /\ this[i] = NoName
      BY <1>9, <2>2
    <3>2. rest = <<NoName>>
      BY <1>8, <1>9, <3>1
    <3> QED
      BY <1>18, <3>2
  <2> QED
    BY <2>1, <2>2
<1>20. left = <<>> \/ left[1] \in {Dot, NoName} => over = <<>>
  <2>1. CASE left = <<>>
    BY <1>18, <2>1
  <2>2. CASE left # <<>> /\ left[1] \in {Dot, NoName}
    <3>1. i \in 1..Len(base) /\ base[i] \in {Dot, NoName}
      BY <1>10, <2>2
    <3>2. left = <<base[i]>>
      BY <1>7, <1>10, <3>1
    <3> QED
      BY <1>18, <3>1, <3>2
  <2> QED
    BY <2>1, <2>2
<1>21. down = <<>> \/ over = <<>> \/ down[1] # over[1]
  <2> SUFFICES ASSUME down # <<>>, over # <<>> PROVE down[1] # over[1]
    OBVIOUS
  <2>1. rest # <<>> /\ rest[1] # NoName /\ left # <<>> /\ left[1] \notin {Dot, NoName}
    BY <1>19, <1>20
  <2>2. i \in 1..Len(this) /\ i \in 1..Len(base) /\ rest[1] = this[i] /\ left[1] = base[i]
    BY <1>9, <1>10, <2>1
  <2>3. rest[1] \notin {Dot, Slash} /\ left[1] # Slash /\ rest[1] # left[1]
    BY <1>3, <1>4, <1>5, <1>6, <2>2
  <2>4. down[1] = rest[1]
    BY <1>9, <2>1, <2>3, KeptFirst
  <2>5. over[1] = left[1]
    BY <1>10, <2>1, <2>3, KeptFirst
  <2> QED
    BY <2>3, <2>4, <2>5
<1>22. down = <<>> \/ Without(r, {Slash}) = Ups(Len(over)) \o down
  <2> SUFFICES ASSUME down # <<>> PROVE Without(r, {Slash}) = Ups(n) \o down
    BY <1>17
  <2> DEFINE up == Ups(n)
             names == up \o rest
  <2>1. rest # <<>> /\ Head(rest) # NoName
    <3>1. rest # <<>> /\ rest[1] # NoName
      BY <1>19
    <3>2. Head(rest) = rest[1]
      BY <1>9, <3>1 DEF Tokens
    <3> QED
      BY <3>1, <3>2
  <2>2. r = JoinPath(Relative(names))
    BY <1>2, <2>1
  <2>3. up \in Tokens /\ Len(up) = n /\ \A k \in 1..n : up[k] = DotDot
    BY <1>11, TokenFacts DEF Ups, Tokens
  <2> HIDE DEF up, down
  <2>4. /\ names \in Tokens /\ Len(names) = Len(up) + Len(rest)
        /\ \A k \in 1..Len(up) : names[k] = up[k]
        /\ \A k \in 1..Len(rest) : names[Len(up) + k] = rest[k]
    <3>1. up \in Tokens /\ rest \in Tokens
      BY <1>9, <2>3
    <3> QED
      BY <3>1, JoinFacts
  <2>5. Kept(names) = Kept(up) \o Kept(rest)
    <3>1. up \in Tokens /\ rest \in Tokens
      BY <1>9, <2>3
    <3> QED
      BY <3>1, KeptJoin
  <2>6. Kept(up) = up
    BY <2>3, TokenFacts, WithoutNone DEF Kept
  <2> HIDE DEF names
  <2>7. ASSUME NEW k \in 1..Len(names) PROVE names[k] \notin {Dot, Slash}
    <3>1. Len(rest) \in Nat
      BY <1>9 DEF Tokens
    <3>2. CASE k \in 1..n
      BY <2>3, <2>4, <3>2, TokenFacts
    <3>3. CASE k \notin 1..n
      <4>1. k - n \in 1..Len(rest) /\ n + (k - n) = k
        BY <1>11, <2>3, <2>4, <3>1, <3>3
      <4>2. names[n + (k - n)] = rest[k - n]
        BY <2>3, <2>4, <4>1
      <4> QED
        BY <1>13, <4>1, <4>2
    <3> QED
      BY <3>2, <3>3
  <2>8. Without(JoinPath(Relative(names)), {Slash}) = Kept(names)
    BY <2>4, <2>7, JoinedKept
  <2> QED
    BY <2>2, <2>5, <2>6, <2>8 DEF up, down
<1> HIDE DEF shared, down, over
<1> QED
  BY <1>14, <1>15, <1>16, <1>21, <1>22 DEF r

\* How far two places are the same.
LEMMA CommonFacts ==
  ASSUME NEW shared \in Tokens, NEW down \in Tokens, NEW over \in Tokens,
         Header = shared \o down, CppFolder = shared \o over,
         down = <<>> \/ over = <<>> \/ down[1] # over[1]
  PROVE  Common = Len(shared)
<1> DEFINE m == Len(shared)
           h == Header
           f == CppFolder
           Fits(n) == /\ n <= Len(h)
                      /\ \A k \in 1..n : f[k] = h[k]
                      /\ n < Len(f) /\ n < Len(h) => f[n + 1] # h[n + 1]
<1>1. /\ Len(h) = m + Len(down) /\ Len(f) = m + Len(over)
      /\ \A k \in 1..m : h[k] = shared[k] /\ f[k] = shared[k]
      /\ \A k \in 1..Len(down) : h[m + k] = down[k]
      /\ \A k \in 1..Len(over) : f[m + k] = over[k]
  <2>1. /\ Len(h) = m + Len(down) /\ \A k \in 1..m : h[k] = shared[k]
        /\ \A k \in 1..Len(down) : h[m + k] = down[k]
    BY JoinFacts
  <2>2. /\ Len(f) = m + Len(over) /\ \A k \in 1..m : f[k] = shared[k]
        /\ \A k \in 1..Len(over) : f[m + k] = over[k]
    BY JoinFacts
  <2> QED
    BY <2>1, <2>2
<1>2. m \in Nat /\ Len(down) \in Nat /\ Len(over) \in Nat
  BY DEF Tokens
<1>3. down = <<>> => Len(down) = 0
  OBVIOUS
<1>4. over = <<>> => Len(over) = 0
  OBVIOUS
<1>5. Common = CHOOSE n \in 0..Len(f) : Fits(n)
  BY DEF Common
<1> HIDE DEF m, h, f
<1>6. m \in 0..Len(f) /\ Fits(m)
  <2>1. m \in 0..Len(f) /\ m <= Len(h) /\ \A k \in 1..m : f[k] = h[k]
    BY <1>1, <1>2
  <2>2. ASSUME m < Len(f), m < Len(h) PROVE f[m + 1] # h[m + 1]
    <3>1. 1 \in 1..Len(down) /\ 1 \in 1..Len(over)
      BY <1>1, <1>2, <2>2
    <3>2. h[m + 1] = down[1] /\ f[m + 1] = over[1]
      BY <1>1, <3>1
    <3> QED
      BY <1>3, <1>4, <3>1, <3>2
  <2> QED
    BY <2>1, <2>2
<1>7. ASSUME NEW n \in 0..Len(f), Fits(n) PROVE n = m
  <2>1. n \in Nat
    BY <1>1, <1>2
  <2>2. ~(n < m)
    <3> SUFFICES ASSUME n < m PROVE FALSE
      OBVIOUS
    <3>1. n + 1 \in 1..m /\ n < Len(f) /\ n < Len(h)
      BY <1>1, <1>2, <2>1
    <3> QED
      BY <1>6, <1>7, <3>1
  <2>3. ~(n > m)
    <3> SUFFICES ASSUME n > m PROVE FALSE
      OBVIOUS
    <3>1. m + 1 \in 1..n /\ m < Len(f) /\ m < Len(h)
      BY <1>1, <1>2, <1>7, <2>1
    <3> QED
      BY <1>6, <1>7, <3>1
  <2> QED
    BY <1>2, <2>1, <2>2, <2>3
<1> DEFINE c == CHOOSE n \in 0..Len(f) : Fits(n)
<1>8. c \in 0..Len(f) /\ Fits(c)
  <2> HIDE DEF Fits
  <2> QED
    BY <1>6
<1> HIDE DEF c, Fits
<1> QED
  BY <1>5, <1>7, <1>8 DEF c, m

\* A relative path of this form is the direct one.
LEMMA IsDirect ==
  ASSUME NEW shared \in Tokens, NEW down \in Tokens, NEW over \in Tokens,
         Header = shared \o down, CppFolder = shared \o over,
         down = <<>> \/ over = <<>> \/ down[1] # over[1],
         ~IsPrefix(Header, CppFolder),
         down = <<>> \/ Without(include, {Slash}) = Ups(Len(over)) \o down
  PROVE  Without(include, {Slash}) =
           [k \in 1..(Len(CppFolder) - Common) |-> DotDot] \o
           SubSeq(Header, Common + 1, Len(Header))
<1>1. Common = Len(shared)
  BY CommonFacts
<1>2. /\ Len(shared) \in Nat /\ Len(over) \in Nat /\ Len(down) \in Nat
      /\ Header \in Tokens /\ Len(Header) = Len(shared) + Len(down)
      /\ CppFolder \in Tokens /\ Len(CppFolder) = Len(shared) + Len(over)
  <2>1. Len(shared) \in Nat /\ Len(over) \in Nat /\ Len(down) \in Nat
    BY DEF Tokens
  <2>2. Header \in Tokens /\ Len(Header) = Len(shared) + Len(down)
    BY JoinFacts
  <2>3. CppFolder \in Tokens /\ Len(CppFolder) = Len(shared) + Len(over)
    BY JoinFacts
  <2> QED
    BY <2>1, <2>2, <2>3
<1>3. down # <<>>
  <2> SUFFICES ASSUME down = <<>> PROVE FALSE
    OBVIOUS
  <2>1. Header = shared
    BY DEF Tokens
  <2> DEFINE f == CppFolder
             m == Len(shared)
             s == SubSeq(f, 1, m)
  <2>2. m \in 0..Len(f)
    BY <1>2
  <2>3. \A k \in 1..m : f[k] = shared[k]
    BY JoinFacts
  <2> HIDE DEF f
  <2>4. s \in Tokens /\ Len(s) = m /\ \A k \in 1..m : s[k] = f[k]
    BY <1>2, <2>2, CutFacts DEF f
  <2> HIDE DEF s
  <2>5. \A k \in 1..m : s[k] = shared[k]
    BY <2>3, <2>4
  <2>6. s = shared
    BY <2>4, <2>5 DEF Tokens
  <2>7. SubSeq(shared, 1, m) = shared
    BY DEF Tokens
  <2> QED
    BY <1>2, <2>1, <2>6, <2>7 DEF IsPrefix, s, f
<1>4. SubSeq(Header, Common + 1, Len(Header)) = down
  <2> DEFINE h == Header
             m == Len(shared)
             s == SubSeq(h, m + 1, Len(h))
  <2>1. m \in 0..Len(h)
    BY <1>2
  <2>2. h \in Tokens /\ \A k \in 1..Len(down) : h[m + k] = down[k]
    BY <1>2, JoinFacts
  <2> HIDE DEF h
  <2>3. s \in Tokens /\ Len(s) = Len(h) - m /\ \A k \in 1..(Len(h) - m) : s[k] = h[m + k]
    BY <2>1, <2>2, CutFacts
  <2>4. Len(h) - m = Len(down)
    BY <1>2 DEF h
  <2> HIDE DEF s, m
  <2>5. Len(s) = Len(down) /\ \A k \in 1..Len(down) : s[k] = down[k]
    BY <2>2, <2>3, <2>4
  <2>6. s = down
    <3>1. s \in Tokens /\ down \in Tokens
      BY <1>2, <2>3
    <3> QED
      BY <2>5, <3>1, SameTokens
  <2> QED
    BY <1>1, <2>6 DEF s, h, m
<1>5. [k \in 1..(Len(CppFolder) - Common) |-> DotDot] = Ups(Len(over))
  <2>1. Len(CppFolder) - Common = Len(over)
    BY <1>1, <1>2
  <2> QED
    BY <2>1 DEF Ups
<1> QED
  BY <1>3, <1>4, <1>5

\* The folder of a plain source has at most one ".", at its end.
LEMMA PlainFolder ==
  ASSUME OfCommand, IsPlain(wd), IsPlain(cpp)
  PROVE  \A k \in 1..Len(Absolute(wd, DirName(cpp))) :
           /\ Absolute(wd, DirName(cpp))[k] \notin {NoName, DotDot}
           /\ Absolute(wd, DirName(cpp))[k] = Dot => k = Len(Absolute(wd, DirName(cpp)))
<1> DEFINE d == DirName(cpp)
           f == Absolute(wd, d)
<1>1. /\ wd \in Tokens /\ cpp \in Tokens /\ cpp # <<>>
      /\ (\A k \in 1..Len(wd) : wd[k] \notin {NoName, DotDot, Dot})
      /\ (\A k \in 1..Len(cpp) : cpp[k] \notin {NoName, DotDot, Dot})
  <2>1. DOMAIN wd = 1..Len(wd) /\ DOMAIN cpp = 1..Len(cpp)
    BY CommandFacts DEF Tokens
  <2> QED
    BY <2>1, CommandFacts DEF IsPlain
<1>2. /\ d \in Tokens
      /\ \A k \in 1..Len(d) : /\ d[k] \notin {NoName, DotDot}
                              /\ d[k] = Dot => k = Len(d)
  <2>1. CASE Len(cpp) = 1
    <3>1. d = <<Dot>>
      BY <2>1 DEF DirName
    <3>2. <<Dot>> \in Tokens /\ Len(<<Dot>>) = 1 /\ \A k \in 1..1 : <<Dot>>[k] = Dot
      BY TokenFacts DEF Tokens
    <3> HIDE DEF d
    <3> QED
      BY <3>1, <3>2, TokenFacts
  <2>2. CASE Len(cpp) # 1
    <3>1. /\ d \in Tokens
          /\ \A k \in 1..Len(d) : d[k] = Dot \/ d[k] = Slash \/ \E j \in 1..Len(cpp) : d[k] = cpp[j]
      BY <1>1, DirNameFacts
    <3>2. \A k \in 1..Len(d) : d[k] # Dot
      <4> DEFINE names == {k \in 1..(Len(cpp) - 1) : cpp[k] # Slash}
                 last == CHOOSE k \in names : \A j \in names : j <= k
      <4>1. d = IF names = {} THEN <<Slash>> ELSE SubSeq(cpp, 1, last)
        BY <2>2 DEF DirName
      <4>2. CASE names = {}
        <5>1. Len(<<Slash>>) = 1 /\ \A k \in 1..1 : <<Slash>>[k] = Slash
          OBVIOUS
        <5> HIDE DEF d
        <5> QED
          BY <4>1, <4>2, <5>1, TokenFacts
      <4>3. CASE names # {}
        <5>1. last \in 0..Len(cpp)
          BY <1>1, <4>3, LastName
        <5> HIDE DEF last, names
        <5>2. Len(SubSeq(cpp, 1, last)) = last /\ \A k \in 1..last : SubSeq(cpp, 1, last)[k] = cpp[k]
          BY <1>1, <5>1, CutFacts
        <5>3. \A k \in 1..last : k \in 1..Len(cpp)
          BY <1>1, <5>1 DEF Tokens
        <5> HIDE DEF d
        <5> QED
          BY <1>1, <4>1, <4>3, <5>2, <5>3
      <4> QED
        BY <4>2, <4>3
    <3> HIDE DEF d
    <3> QED
      BY <1>1, <3>1, <3>2, TokenFacts
  <2> QED
    BY <2>1, <2>2
<1> HIDE DEF d
<1>3. /\ f \in Tokens
      /\ \A k \in 1..Len(f) : \/ f[k] = Slash
                              \/ \E j \in 1..Len(wd) : f[k] = wd[j]
                              \/ \E j \in 1..Len(d) : f[k] = d[j] /\ Len(f) - k = Len(d) - j
  BY <1>1, <1>2, CommandFacts, AbsoluteLeads
<1> HIDE DEF f
<1>4. ASSUME NEW k \in 1..Len(f)
      PROVE  f[k] \notin {NoName, DotDot} /\ (f[k] = Dot => k = Len(f))
  <2>1. CASE f[k] = Slash
    BY <2>1, TokenFacts
  <2>2. CASE \E j \in 1..Len(wd) : f[k] = wd[j]
    BY <1>1, <2>2
  <2>3. ASSUME NEW j \in 1..Len(d), f[k] = d[j], Len(f) - k = Len(d) - j
        PROVE  f[k] \notin {NoName, DotDot} /\ (f[k] = Dot => k = Len(f))
    <3>1. Len(f) \in Nat /\ Len(d) \in Nat
      BY <1>2, <1>3 DEF Tokens
    <3>2. j = Len(d) => k = Len(f)
      BY <2>3, <3>1
    <3> QED
      BY <1>2, <2>3, <3>2
  <2> QED
    BY <1>3, <2>1, <2>2, <2>3
<1> QED
  BY <1>4 DEF f, d

\* For plain names the include that is not absolute goes up to the folder both
\* files are in and down to the header.
THEOREM IncludeIsDirectHolds == Spec => []IncludeIsDirect
<1>1. ASSUME OfCommand, include # Unknown, IsPlain(wd), IsPlain(cpp), IsPlain(hpp),
             ~IsAbsolute(include)
      PROVE  Without(include, {Slash}) =
               [k \in 1..(Len(CppFolder) - Common) |-> DotDot] \o
               SubSeq(Header, Common + 1, Len(Header))
  <2>1. include = RelativeHeader(wd, cpp, hpp) /\ ~IsPrefix(Header, CppFolder)
    BY <1>1 DEF OfCommand
  <2>2. CASE hpp = EmptyPath
    <3> DEFINE h == HeaderName(Last(cpp))
               down == <<h>>
    <3>1. include = down
      <4>1. include = ReplaceExtension(<<Last(cpp)>>, <<"hpp">>)
        BY <2>1, <2>2 DEF RelativeHeader, BaseName
      <4> QED
        BY <1>1, <4>1, CommandFacts, ReplaceExtensionFacts
    <3>2. h \in Token /\ h # Slash
      BY <1>1, CommandFacts, HeaderNameFacts
    <3>3. Header = Append(CppFolder, h)
      BY <2>2 DEF Header, HeaderName
    <3>4. CppFolder \in Tokens
      BY <1>1, FolderFacts
    <3> HIDE DEF h
    <3>5. Append(CppFolder, h) = CppFolder \o down
      BY <3>2, <3>4, AppendIsConcat DEF Tokens
    <3>6. down \in Tokens /\ <<>> \in Tokens /\ Len(<<>>) = 0
      BY <3>2 DEF Tokens
    <3>7. Without(down, {Slash}) = down
      BY <3>2, WithoutOne
    <3> HIDE DEF down
    <3>8. CppFolder \o <<>> = CppFolder /\ Ups(0) = <<>> /\ <<>> \o down = down
      <4>1. Ups(0) = <<>>
        BY DEF Ups
      <4> QED
        BY <3>4, <3>6, <4>1 DEF Tokens
    <3>9. Header = CppFolder \o down /\ Without(include, {Slash}) = Ups(Len(<<>>)) \o down
      BY <3>1, <3>3, <3>5, <3>6, <3>7, <3>8
    <3>10. CppFolder = CppFolder \o <<>>
      BY <3>8
    <3> QED
      BY <2>1, <3>4, <3>6, <3>9, <3>10, IsDirect
  <2>3. CASE hpp # EmptyPath
    <3> DEFINE path == Absolute(wd, hpp)
               folder == Absolute(wd, DirName(cpp))
    <3>1. /\ path \in Tokens /\ IsAbsolute(path) /\ Walk(<<>>, path) = Header
          /\ \A k \in 1..Len(path) : path[k] \notin {NoName, Dot, DotDot}
      <4>1. /\ path \in Tokens /\ IsAbsolute(path)
            /\ Walk(<<>>, path) = Resolve(Resolve(<<>>, wd), hpp)
            /\ \A k \in 1..Len(path) : \/ path[k] = Slash
                                       \/ \E j \in 1..Len(wd) : path[k] = wd[j]
                                       \/ \E j \in 1..Len(hpp) : path[k] = hpp[j]
        BY <1>1, CommandFacts, AbsoluteLeads
      <4>2. DOMAIN wd = 1..Len(wd) /\ DOMAIN hpp = 1..Len(hpp)
        BY <1>1, CommandFacts DEF Tokens
      <4>3. /\ \A k \in 1..Len(wd) : wd[k] \notin {NoName, Dot, DotDot}
            /\ \A k \in 1..Len(hpp) : hpp[k] \notin {NoName, Dot, DotDot}
        BY <1>1, <4>2, CommandFacts DEF IsPlain
      <4>4. Header = Resolve(Resolve(<<>>, wd), hpp)
        BY <2>3 DEF Header
      <4> HIDE DEF path
      <4> QED
        BY <4>1, <4>3, <4>4, TokenFacts
    <3>2. folder \in Tokens /\ Walk(<<>>, folder) = CppFolder
      BY <1>1, FolderFacts
    <3>3. /\ \A k \in 1..Len(folder) : folder[k] \notin {NoName, DotDot}
          /\ \A k \in 1..Len(folder) : folder[k] = Dot => k = Len(folder)
      BY <1>1, PlainFolder
    <3>4. include = LexicallyRelative(path, folder) /\ LexicallyRelative(path, folder) # EmptyPath
      BY <1>1, <2>1, <2>3, <3>1 DEF RelativeHeader
    <3> HIDE DEF path, folder
    <3>5. PICK shared \in Tokens, down \in Tokens, over \in Tokens :
            /\ Header = shared \o down /\ CppFolder = shared \o over
            /\ down = <<>> \/ over = <<>> \/ down[1] # over[1]
            /\ down = <<>> \/ Without(include, {Slash}) = Ups(Len(over)) \o down
      <4>1. \E shared \in Tokens, down \in Tokens, over \in Tokens :
              /\ Walk(<<>>, path) = shared \o down
              /\ Walk(<<>>, folder) = shared \o over
              /\ down = <<>> \/ over = <<>> \/ down[1] # over[1]
              /\ \/ down = <<>>
                 \/ Without(LexicallyRelative(path, folder), {Slash}) = Ups(Len(over)) \o down
        BY <3>1, <3>2, <3>3, <3>4, RelativeDirect
      <4> QED
        BY <3>1, <3>2, <3>4, <4>1
    <3> QED
      BY <2>1, <3>5, IsDirect
  <2> QED
    BY <2>2, <2>3
<1>2. OfCommand => IncludeIsDirect
  BY <1>1 DEF IncludeIsDirect
<1> QED
  BY <1>2, OfCommandHolds, PTL
=============================================================================
