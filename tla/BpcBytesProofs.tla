---------------------------- MODULE BpcBytesProofs ----------------------------
(***************************************************************************)
(* Theorems about the bytes of the generated functions: what everyone      *)
(* writes for a document, and that the packers of Python, the calls of C#  *)
(* and the memory of C++ are that, for every vocabulary, every width of    *)
(* the integers and files of any length.                                   *)
(***************************************************************************)
EXTENDS BpcDocumentProofs
-----------------------------------------------------------------------------
(* Lists of pieces *)

\* A list that is joined from pieces is one of elements of the pieces.
LEMMA FlattenTyped ==
  ASSUME NEW S, NEW pieces \in Seq(Seq(S))
  PROVE  Gen!FlattenSeq(pieces) \in Seq(S)
<1>1. PICK u \in [0..Len(pieces) -> Seq(S)] : Gen!FlattenSeq(pieces) = u[Len(pieces)]
  BY FlattenRecursion
<1> QED
  BY <1>1

\* Concatenation is associative.
Associative(S) == \A a, b, c \in Seq(S) : (a \o b) \o c = a \o (b \o c)

LEMMA JoinAssoc == \A S : Associative(S)
BY DEF Associative

\* Nothing is added.
LEMMA JoinNothing ==
  ASSUME NEW S
  PROVE  \A s \in Seq(S) : s \o <<>> = s /\ <<>> \o s = s
OBVIOUS

\* Joining is done piece by piece.
LEMMA FlattenJoin ==
  ASSUME NEW S, NEW s \in Seq(Seq(S)), NEW t \in Seq(Seq(S))
  PROVE  Gen!FlattenSeq(s \o t) = Gen!FlattenSeq(s) \o Gen!FlattenSeq(t)
<1> DEFINE m == Len(s)
           n == Len(t)
           r == s \o t
<1>0. \A a, b, c \in Seq(S) : (a \o b) \o c = a \o (b \o c)
  <2>1. Associative(S)
    BY JoinAssoc
  <2> QED
    BY <2>1 DEF Associative
<1>1. /\ m \in Nat /\ n \in Nat /\ r \in Seq(Seq(S)) /\ Len(r) = m + n
      /\ \A k \in 1..m : r[k] = s[k]
      /\ \A k \in 1..n : r[m + k] = t[k]
      /\ \A k \in 1..m : s[k] \in Seq(S)
      /\ \A k \in 1..n : t[k] \in Seq(S)
  OBVIOUS
<1> HIDE DEF m, n, r
<1>2. PICK u \in [0..m + n -> Seq(S)] :
        /\ u[0] = <<>> /\ Gen!FlattenSeq(r) = u[m + n]
        /\ \A k \in 1..m + n : u[k] = u[k - 1] \o r[k]
  <2>1. PICK u \in [0..Len(r) -> Seq(S)] :
          /\ u[0] = <<>> /\ Gen!FlattenSeq(r) = u[Len(r)]
          /\ \A k \in 1..Len(r) : u[k] = u[k - 1] \o r[k]
    BY <1>1, FlattenRecursion, ZenonT(60)
  <2> QED
    BY <1>1, <2>1
<1>3. PICK v \in [0..m -> Seq(S)] :
        /\ v[0] = <<>> /\ Gen!FlattenSeq(s) = v[m]
        /\ \A k \in 1..m : v[k] = v[k - 1] \o s[k]
  BY FlattenRecursion DEF m
<1>4. PICK w \in [0..n -> Seq(S)] :
        /\ w[0] = <<>> /\ Gen!FlattenSeq(t) = w[n]
        /\ \A k \in 1..n : w[k] = w[k - 1] \o t[k]
  BY FlattenRecursion DEF n
<1> DEFINE Front == {k \in 0..m : u[k] = v[k]}
           Back  == {k \in 0..n : u[m + k] = v[m] \o w[k]}
<1>5. 0..m \subseteq Front
  <2>1. 0 \in Front
    BY <1>1, <1>2, <1>3
  <2>2. ASSUME NEW k \in 1..m, k - 1 \in Front PROVE k \in Front
    <3>1. k \in 1..m + n /\ k \in 0..m /\ r[k] = s[k] /\ u[k - 1] = v[k - 1]
      BY <1>1, <2>2
    <3>2. u[k] = u[k - 1] \o r[k] /\ v[k] = v[k - 1] \o s[k]
      BY <1>2, <1>3, <3>1
    <3>3. u[k] = v[k]
      BY <3>1, <3>2
    <3> QED
      BY <3>1, <3>3
  <2> HIDE DEF Front
  <2> QED
    BY <1>1, <2>1, <2>2, SegmentInduction
<1>6. u[m] = v[m] /\ v[m] \in Seq(S)
  BY <1>1, <1>3, <1>5
<1>7. 0..n \subseteq Back
  <2>1. 0 \in Back
    <3>1. v[m] \o <<>> = v[m] /\ m + 0 = m /\ 0 \in 0..n
      BY <1>1, <1>6, JoinNothing
    <3> QED
      BY <1>4, <1>6, <3>1
  <2>2. ASSUME NEW k \in 1..n, k - 1 \in Back PROVE k \in Back
    <3>1. m + k \in 1..m + n /\ (m + k) - 1 = m + (k - 1) /\ k - 1 \in 0..n /\ k \in 0..n
      BY <1>1
    <3>2. u[m + k] = (v[m] \o w[k - 1]) \o t[k]
      BY <1>1, <1>2, <2>2, <3>1
    <3>3. (v[m] \o w[k - 1]) \o t[k] = v[m] \o (w[k - 1] \o t[k])
      <4>1. w[k - 1] \in Seq(S) /\ t[k] \in Seq(S)
        BY <1>1, <1>4, <3>1
      <4> QED
        BY <1>6, <4>1, <1>0
    <3>4. w[k] = w[k - 1] \o t[k]
      BY <1>4
    <3> QED
      BY <3>1, <3>2, <3>3, <3>4
  <2> HIDE DEF Back
  <2> QED
    BY <1>1, <2>1, <2>2, SegmentInduction
<1>8. u[m + n] = v[m] \o w[n]
  BY <1>1, <1>7, SMTT(60)
<1> QED
  BY <1>2, <1>3, <1>4, <1>8 DEF r

\* Nothing and one piece.
LEMMA FlattenSmall ==
  ASSUME NEW S, NEW x \in Seq(S)
  PROVE  Gen!FlattenSeq(<<>>) = <<>> /\ Gen!FlattenSeq(<< x >>) = x
<1>1. /\ <<>> \in Seq(Seq(S)) /\ << x >> \in Seq(Seq(S))
      /\ Len(<<>>) = 0 /\ Len(<< x >>) = 1 /\ << x >>[1] = x
  OBVIOUS
<1>2. Gen!FlattenSeq(<<>>) = <<>>
  <2>1. PICK u \in [0..0 -> Seq(S)] : u[0] = <<>> /\ Gen!FlattenSeq(<<>>) = u[0]
    BY <1>1, FlattenRecursion
  <2> QED
    BY <2>1
<1>3. Gen!FlattenSeq(<< x >>) = x
  <2> DEFINE s == << x >>
  <2>0. s \in Seq(Seq(S)) /\ Len(s) = 1 /\ s[1] = x
    BY <1>1
  <2> HIDE DEF s
  <2>1. PICK u \in [0..Len(s) -> Seq(S)] :
          /\ u[0] = <<>> /\ Gen!FlattenSeq(s) = u[Len(s)]
          /\ \A k \in 1..Len(s) : u[k] = u[k - 1] \o s[k]
    BY <2>0, FlattenRecursion
  <2>2. u[1] = <<>> \o x
    <3>1. 1 \in 1..Len(s) /\ 1 - 1 = 0
      BY <2>0
    <3> QED
      BY <2>0, <2>1, <3>1
  <2>3. <<>> \o x = x
    OBVIOUS
  <2> QED
    BY <2>0, <2>1, <2>2, <2>3 DEF s
<1> QED
  BY <1>2, <1>3
-----------------------------------------------------------------------------
(* The bytes of a list of instructions *)

\* A byte on the wire: whose it is, which, of how many; or padding.
CellType ==
  [at : Seq(Nat \X Nat), byte : Nat \cup {"text", "count", "end"}, width : Nat]

\* All the instructions write bytes.
Written(packers, inner, s) ==
  /\ \E A : s \in Seq(A)
  /\ \A i \in 1..Len(s) : Gen!InstrBytes(packers, inner, s[i]) \in Seq(CellType)

\* What a list writes is what its instructions write, joined.
LEMMA BytesAre ==
  ASSUME NEW packers, NEW inner, NEW s, Written(packers, inner, s)
  PROVE  /\ [i \in 1..Len(s) |-> Gen!InstrBytes(packers, inner, s[i])] \in Seq(Seq(CellType))
         /\ Gen!StructBytes(packers, inner, s) =
              Gen!FlattenSeq([i \in 1..Len(s) |-> Gen!InstrBytes(packers, inner, s[i])])
         /\ Gen!StructBytes(packers, inner, s) \in Seq(CellType)
<1> DEFINE t == [i \in 1..Len(s) |-> Gen!InstrBytes(packers, inner, s[i])]
<1>1. PICK A : s \in Seq(A)
  BY DEF Written
<1>2. DOMAIN s = 1..Len(s) /\ Len(s) \in Nat
  BY <1>1
<1>3. Gen!StructBytes(packers, inner, s) = Gen!FlattenSeq(t)
  BY <1>2 DEF Gen!StructBytes
<1>4. t \in [1..Len(s) -> Seq(CellType)]
  BY DEF Written
<1> HIDE DEF t
<1>5. t \in Seq(Seq(CellType))
  BY <1>2, <1>4
<1> QED
  BY <1>3, <1>5, FlattenTyped DEF t

\* What two lists make together.
LEMMA JoinIs ==
  ASSUME NEW S, NEW r \in Seq(S), NEW s \in Seq(S), NEW t \in Seq(S),
         Len(r) = Len(s) + Len(t),
         \A i \in 1..Len(r) : r[i] = IF i <= Len(s) THEN s[i] ELSE t[i - Len(s)]
  PROVE  r = s \o t
BY SMTT(60)

\* Two lists, one after the other.
LEMMA BytesJoin ==
  ASSUME NEW packers, NEW inner, NEW s, NEW t,
         Written(packers, inner, s), Written(packers, inner, t)
  PROVE  /\ Written(packers, inner, s \o t)
         /\ Gen!StructBytes(packers, inner, s \o t) =
              Gen!StructBytes(packers, inner, s) \o Gen!StructBytes(packers, inner, t)
<1> DEFINE r == s \o t
           Texts(q) == [i \in 1..Len(q) |-> Gen!InstrBytes(packers, inner, q[i])]
<1>1. PICK A, B : s \in Seq(A) /\ t \in Seq(B)
  BY DEF Written
<1> DEFINE S == A \cup B
<1>2. s \in Seq(S) /\ t \in Seq(S)
  BY <1>1
<1> HIDE DEF S
<1>3. /\ r \in Seq(S) /\ Len(r) = Len(s) + Len(t) /\ Len(s) \in Nat /\ Len(t) \in Nat
      /\ \A i \in 1..Len(r) : r[i] = IF i <= Len(s) THEN s[i] ELSE t[i - Len(s)]
  BY <1>2
<1> HIDE DEF r
<1>4. Written(packers, inner, r)
  <2>1. ASSUME NEW i \in 1..Len(r) PROVE Gen!InstrBytes(packers, inner, r[i]) \in Seq(CellType)
    <3>1. CASE i <= Len(s)
      BY <1>3, <3>1 DEF Written
    <3>2. CASE ~(i <= Len(s))
      <4>1. i - Len(s) \in 1..Len(t) /\ r[i] = t[i - Len(s)]
        BY <1>3, <3>2
      <4> QED
        BY <4>1 DEF Written
    <3> QED
      BY <3>1, <3>2
  <2> QED
    BY <1>3, <2>1 DEF Written
<1>5. /\ Texts(s) \in Seq(Seq(CellType)) /\ Texts(t) \in Seq(Seq(CellType))
      /\ Texts(r) \in Seq(Seq(CellType))
      /\ Gen!StructBytes(packers, inner, s) = Gen!FlattenSeq(Texts(s))
      /\ Gen!StructBytes(packers, inner, t) = Gen!FlattenSeq(Texts(t))
      /\ Gen!StructBytes(packers, inner, r) = Gen!FlattenSeq(Texts(r))
  BY <1>4, BytesAre
<1>6. \A q : /\ DOMAIN Texts(q) = 1..Len(q)
             /\ \A i \in 1..Len(q) : Texts(q)[i] = Gen!InstrBytes(packers, inner, q[i])
  OBVIOUS
<1> HIDE DEF Texts
<1>7. Texts(r) = Texts(s) \o Texts(t)
  <2> DEFINE a == Texts(r)
             b == Texts(s)
             c == Texts(t)
  <2>1. /\ a \in Seq(Seq(CellType)) /\ Len(a) = Len(s) + Len(t)
        /\ b \in Seq(Seq(CellType)) /\ Len(b) = Len(s)
        /\ c \in Seq(Seq(CellType)) /\ Len(c) = Len(t)
    BY <1>3, <1>5, <1>6
  <2>2. \A i \in 1..Len(r) : a[i] = IF i <= Len(s) THEN b[i] ELSE c[i - Len(s)]
    <3> SUFFICES ASSUME NEW i \in 1..Len(r) PROVE a[i] = IF i <= Len(s) THEN b[i] ELSE c[i - Len(s)]
      OBVIOUS
    <3>1. CASE i <= Len(s)
      BY <1>3, <1>6, <3>1
    <3>2. CASE ~(i <= Len(s))
      <4>1. i - Len(s) \in 1..Len(t) /\ r[i] = t[i - Len(s)]
        BY <1>3, <3>2
      <4> QED
        BY <1>6, <3>2, <4>1
    <3> QED
      BY <3>1, <3>2
  <2> HIDE DEF a, b, c
  <2>3. a = b \o c
    <3>1. Len(a) = Len(r)
      BY <1>3, <2>1
    <3>2. Len(a) = Len(b) + Len(c) /\ \A i \in 1..Len(a) : a[i] = IF i <= Len(b) THEN b[i] ELSE c[i - Len(b)]
      BY <2>1, <2>2, <3>1
    <3> QED
      BY <2>1, <3>2, JoinIs
  <2> QED
    BY <2>3 DEF a, b, c
<1>8. Gen!FlattenSeq(Texts(s) \o Texts(t)) = Gen!FlattenSeq(Texts(s)) \o Gen!FlattenSeq(Texts(t))
  BY <1>5, FlattenJoin
<1> QED
  BY <1>4, <1>5, <1>7, <1>8 DEF r

\* No instruction and one.
LEMMA BytesSmall ==
  ASSUME NEW packers, NEW inner, NEW in,
         Gen!InstrBytes(packers, inner, in) \in Seq(CellType)
  PROVE  /\ Written(packers, inner, <<>>)
         /\ Gen!StructBytes(packers, inner, <<>>) = <<>>
         /\ Written(packers, inner, << in >>)
         /\ Gen!StructBytes(packers, inner, << in >>) = Gen!InstrBytes(packers, inner, in)
<1> DEFINE s == << in >>
           x == Gen!InstrBytes(packers, inner, in)
<1>1. s \in Seq({in}) /\ Len(s) = 1 /\ s[1] = in
  OBVIOUS
<1> HIDE DEF s
<1>2. Written(packers, inner, s)
  BY <1>1 DEF Written
<1>3. Gen!StructBytes(packers, inner, s) = x
  <2>1. Gen!StructBytes(packers, inner, s) =
          Gen!FlattenSeq([i \in 1..1 |-> Gen!InstrBytes(packers, inner, s[i])])
    BY <1>1, <1>2, BytesAre
  <2>2. [i \in 1..1 |-> Gen!InstrBytes(packers, inner, s[i])] = << x >>
    <3>1. \A i \in 1..1 : s[i] = in
      BY <1>1
    <3> HIDE DEF x
    <3>2. [i \in 1..1 |-> x] = << x >>
      OBVIOUS
    <3> QED
      BY <3>1, <3>2 DEF x
  <2> HIDE DEF x
  <2> QED
    BY <2>1, <2>2, FlattenSmall DEF x
<1>4. Written(packers, inner, <<>>) /\ Gen!StructBytes(packers, inner, <<>>) = <<>>
  <2>1. <<>> \in Seq({}) /\ Len(<<>>) = 0
    OBVIOUS
  <2>2. Written(packers, inner, <<>>)
    BY <2>1 DEF Written
  <2>3. Gen!StructBytes(packers, inner, <<>>) =
          Gen!FlattenSeq([i \in 1..0 |-> Gen!InstrBytes(packers, inner, <<>>[i])])
    BY <2>1, <2>2, BytesAre
  <2>4. [i \in 1..0 |-> Gen!InstrBytes(packers, inner, <<>>[i])] = <<>>
    OBVIOUS
  <2> QED
    BY <2>2, <2>3, <2>4, FlattenSmall
<1> QED
  BY <1>2, <1>3, <1>4 DEF s

\* Every piece of a list writes bytes.
AllWritten(packers, inner, pieces) ==
  \A g \in 1..Len(pieces) : Written(packers, inner, pieces[g])

\* The bytes of every piece.
Texts(packers, inner, pieces) ==
  [g \in 1..Len(pieces) |-> Gen!StructBytes(packers, inner, pieces[g])]

\* Pieces of a list write their bytes one after the other.
LEMMA BytesFlatten ==
  ASSUME NEW packers, NEW inner, NEW S, NEW pieces \in Seq(Seq(S)),
         AllWritten(packers, inner, pieces)
  PROVE  LET all == Gen!FlattenSeq(pieces)
             texts == Texts(packers, inner, pieces)
         IN  /\ Written(packers, inner, all)
             /\ texts \in Seq(Seq(CellType))
             /\ Gen!StructBytes(packers, inner, all) = Gen!FlattenSeq(texts)
<1> DEFINE n == Len(pieces)
           texts == [g \in 1..n |-> Gen!StructBytes(packers, inner, pieces[g])]
<1>0. n \in Nat /\ \A g \in 1..Len(pieces) : Written(packers, inner, pieces[g])
  BY DEF AllWritten
<1>1. PICK u \in [0..n -> Seq(S)] :
        /\ u[0] = <<>> /\ Gen!FlattenSeq(pieces) = u[n]
        /\ \A k \in 1..n : u[k] = u[k - 1] \o pieces[k]
  BY FlattenRecursion
<1>2. /\ texts \in Seq(Seq(CellType)) /\ Len(texts) = n
      /\ \A g \in 1..n : texts[g] = Gen!StructBytes(packers, inner, pieces[g])
  <2>1. \A g \in 1..n : Gen!StructBytes(packers, inner, pieces[g]) \in Seq(CellType)
    BY <1>0, BytesAre
  <2>2. texts \in [1..n -> Seq(CellType)] /\ DOMAIN texts = 1..n
    BY <2>1
  <2>3. \A g \in 1..n : texts[g] = Gen!StructBytes(packers, inner, pieces[g])
    OBVIOUS
  <2> HIDE DEF n, texts
  <2> QED
    BY <1>0, <2>2, <2>3
<1> HIDE DEF n, texts
<1>3. PICK v \in [0..n -> Seq(CellType)] :
        /\ v[0] = <<>> /\ Gen!FlattenSeq(texts) = v[n]
        /\ \A k \in 1..n : v[k] = v[k - 1] \o texts[k]
  <2>1. PICK v \in [0..Len(texts) -> Seq(CellType)] :
          /\ v[0] = <<>> /\ Gen!FlattenSeq(texts) = v[Len(texts)]
          /\ \A k \in 1..Len(texts) : v[k] = v[k - 1] \o texts[k]
    BY <1>2, FlattenRecursion
  <2> QED
    BY <1>2, <2>1
<1> DEFINE Done == {k \in 0..n : /\ Written(packers, inner, u[k])
                                 /\ Gen!StructBytes(packers, inner, u[k]) = v[k]}
<1>4. 0 \in Done
  <2>1. <<>> \in Seq({}) /\ Len(<<>>) = 0
    OBVIOUS
  <2>2. Written(packers, inner, <<>>)
    BY <2>1 DEF Written
  <2>3. Gen!StructBytes(packers, inner, <<>>) = <<>>
    <3>1. Gen!FlattenSeq(<<>>) = <<>>
      BY FlattenSmall, <2>1
    <3>2. [i \in DOMAIN <<>> |-> Gen!InstrBytes(packers, inner, <<>>[i])] = <<>>
      OBVIOUS
    <3> QED
      BY <3>1, <3>2 DEF Gen!StructBytes
  <2> QED
    BY <1>0, <1>1, <1>3, <2>2, <2>3
<1>5. ASSUME NEW k \in 1..n, k - 1 \in Done PROVE k \in Done
  <2>1. /\ Written(packers, inner, u[k - 1]) /\ Written(packers, inner, pieces[k])
        /\ Gen!StructBytes(packers, inner, u[k - 1]) = v[k - 1]
        /\ u[k] = u[k - 1] \o pieces[k] /\ v[k] = v[k - 1] \o texts[k] /\ k \in 0..n
    <3>1. k \in 0..n /\ k \in 1..Len(pieces)
      BY <1>0 DEF n
    <3>2. Written(packers, inner, pieces[k])
      BY <1>0, <3>1
    <3> QED
      BY <1>1, <1>3, <1>5, <3>1, <3>2
  <2>2. /\ Written(packers, inner, u[k])
        /\ Gen!StructBytes(packers, inner, u[k]) = v[k]
    <3> DEFINE a == u[k - 1]
               b == pieces[k]
    <3>1. /\ Written(packers, inner, a) /\ Written(packers, inner, b) /\ u[k] = a \o b
          /\ v[k] = Gen!StructBytes(packers, inner, a) \o Gen!StructBytes(packers, inner, b)
      BY <1>2, <2>1
    <3> HIDE DEF a, b
    <3>2. /\ Written(packers, inner, a \o b)
          /\ Gen!StructBytes(packers, inner, a \o b) =
               Gen!StructBytes(packers, inner, a) \o Gen!StructBytes(packers, inner, b)
      BY <3>1, BytesJoin
    <3> QED
      BY <3>1, <3>2
  <2> QED
    BY <2>1, <2>2
<1> HIDE DEF Done
<1>6. 0..n \subseteq Done
  BY <1>0, <1>4, <1>5, SegmentInduction
<1>7. /\ Written(packers, inner, u[n])
      /\ Gen!StructBytes(packers, inner, u[n]) = v[n]
  BY <1>0, <1>6 DEF Done
<1> QED
  BY <1>1, <1>2, <1>3, <1>7 DEF texts, n, Texts

-----------------------------------------------------------------------------
(* The bytes of one field *)

Path == Seq(Nat \X Nat)

\* The bytes of a struct in a place of it.
Moved(cells, at) ==
  [c \in DOMAIN cells |->
     IF cells[c].at = <<>> THEN cells[c] ELSE [cells[c] EXCEPT !.at = at \o @]]

\* One element of a field, in a place of its own.
One(inner, f, at) ==
  IF f.type.full = "string" THEN Gen!Mark(at, "text")
  ELSE IF f.type.full \in BasicTypes THEN Gen!NumberBytes(at, f.type.full)
  ELSE Moved(inner[f.type.type], at)

Ones(inner, f, k) == [i \in 1..f.array.static_array_len |-> One(inner, f, << <<k, i>> >>)]

PadBytes(f) == IF f.align.use_align THEN Gen!Placeholder(f.align.padding_size) ELSE <<>>

\* A field with the padding behind it, however a language writes it.
FieldBytes(inner, f, k) ==
  (IF ~f.array.is_array THEN One(inner, f, << <<k, 0>> >>)
   ELSE IF f.array.is_static_array THEN Gen!FlattenSeq(Ones(inner, f, k))
   ELSE Gen!Mark(<< <<k, 0>> >>, "count") \o One(inner, f, << <<k, 1>> >>)
          \o Gen!Mark(<< <<k, 0>> >>, "end"))
  \o PadBytes(f)

\* The bytes of the struct a field contains are known.
Knows(inner, f) ==
  f.type.full \notin BasicTypes => inner[f.type.type] \in Seq(CellType)

\* The generators and the front end have one size for each basic type.
LEMMA SizeOfNumber ==
  ASSUME NEW t \in BasicTypes
  PROVE  SizeOf(t) \in Nat \ {0} /\ Gen!SizeOf(t) = SizeOf(t)
BY DEF SizeOf, Gen!SizeOf, BasicTypes, IntegerTypes, SignedTypes, UnsignedTypes

\* Paddings, marks and the bytes of numbers are cells.
LEMMA CellsAre ==
  /\ \A n \in Nat : /\ Gen!Placeholder(n) \in Seq(CellType) /\ Len(Gen!Placeholder(n)) = n
                    /\ \A i \in 1..n : Gen!Placeholder(n)[i] = Gen!Cell(<<>>, 0, 0)
  /\ \A at \in Path, what \in {"text", "count", "end"} :
       Gen!Mark(at, what) \in Seq(CellType) /\ Len(Gen!Mark(at, what)) = 1
  /\ \A at \in Path, t \in BasicTypes :
       Gen!NumberBytes(at, t) \in Seq(CellType) /\ Len(Gen!NumberBytes(at, t)) = SizeOf(t)
<1>1. <<>> \in Path /\ Gen!Cell(<<>>, 0, 0) \in CellType
  <2>1. <<>> \in Path
    BY DEF Path
  <2> QED
    BY <2>1 DEF Gen!Cell, CellType, Path
<1>2. ASSUME NEW n \in Nat
      PROVE  /\ Gen!Placeholder(n) \in Seq(CellType) /\ Len(Gen!Placeholder(n)) = n
             /\ \A i \in 1..n : Gen!Placeholder(n)[i] = Gen!Cell(<<>>, 0, 0)
  BY <1>1 DEF Gen!Placeholder
<1>3. ASSUME NEW at \in Path, NEW what \in {"text", "count", "end"}
      PROVE  Gen!Mark(at, what) \in Seq(CellType) /\ Len(Gen!Mark(at, what)) = 1
  <2>1. Gen!Cell(at, what, 0) \in CellType
    BY DEF Gen!Cell, CellType, Path
  <2> QED
    BY <2>1 DEF Gen!Mark
<1>4. ASSUME NEW at \in Path, NEW t \in BasicTypes
      PROVE  Gen!NumberBytes(at, t) \in Seq(CellType) /\ Len(Gen!NumberBytes(at, t)) = SizeOf(t)
  <2> DEFINE w == SizeOf(t)
             bytes == [b \in 1..w |-> Gen!Cell(at, b, w)]
  <2>1. Gen!NumberBytes(at, t) = bytes /\ w \in Nat
    BY SizeOfNumber DEF Gen!NumberBytes
  <2> HIDE DEF w
  <2>2. \A b \in 1..w : Gen!Cell(at, b, w) \in CellType
    BY <2>1 DEF Gen!Cell, CellType, Path
  <2>3. bytes \in Seq(CellType) /\ Len(bytes) = w
    BY <2>1, <2>2
  <2> QED
    BY <2>1, <2>3 DEF w
<1> QED
  BY <1>2, <1>3, <1>4

\* A place in a struct, put before the places in a struct it contains.
LEMMA MovedIs ==
  ASSUME NEW cells \in Seq(CellType), NEW at \in Path
  PROVE  Moved(cells, at) \in Seq(CellType) /\ Len(Moved(cells, at)) = Len(cells)
<1>1. ASSUME NEW c \in 1..Len(cells)
      PROVE  (IF cells[c].at = <<>> THEN cells[c] ELSE [cells[c] EXCEPT !.at = at \o @]) \in CellType
  <2>1. cells[c] \in CellType
    OBVIOUS
  <2>2. at \o cells[c].at \in Path
    BY <2>1 DEF CellType, Path
  <2> QED
    BY <2>1, <2>2 DEF CellType, Path
<1>2. DOMAIN cells = 1..Len(cells) /\ Len(cells) \in Nat
  OBVIOUS
<1>3. Moved(cells, at) \in [1..Len(cells) -> CellType]
  BY <1>1, <1>2 DEF Moved
<1> QED
  BY <1>2, <1>3

\* An element is cells, wherever it is.
LEMMA OneIs ==
  ASSUME NEW inner, NEW f, Knows(inner, f), NEW at \in Path
  PROVE  One(inner, f, at) \in Seq(CellType)
BY CellsAre, MovedIs DEF One, Knows, BasicTypes

\* So are the elements of an array.
LEMMA OnesAre ==
  ASSUME NEW inner, NEW f, Knows(inner, f), f.array.static_array_len \in Nat, NEW k \in Nat
  PROVE  /\ Ones(inner, f, k) \in Seq(Seq(CellType))
         /\ Len(Ones(inner, f, k)) = f.array.static_array_len
         /\ Gen!FlattenSeq(Ones(inner, f, k)) \in Seq(CellType)
<1> DEFINE n == f.array.static_array_len
<1>1. \A i \in 1..n : One(inner, f, << <<k, i>> >>) \in Seq(CellType)
  <2>1. ASSUME NEW i \in 1..n PROVE << <<k, i>> >> \in Path
    BY DEF Path
  <2> QED
    BY <2>1, OneIs
<1> HIDE DEF n
<1>2. Ones(inner, f, k) \in [1..n -> Seq(CellType)] /\ n \in Nat
  BY <1>1 DEF Ones, n
<1>3. Ones(inner, f, k) \in Seq(Seq(CellType)) /\ Len(Ones(inner, f, k)) = n
  BY <1>2
<1> QED
  BY <1>3, FlattenTyped DEF n

\* A field with its padding is cells.
LEMMA FieldBytesAre ==
  ASSUME NEW inner, NEW f \in FieldRecord, Knows(inner, f), NEW k \in Nat
  PROVE  FieldBytes(inner, f, k) \in Seq(CellType) /\ PadBytes(f) \in Seq(CellType)
<1>1. f.array.static_array_len \in Nat /\ f.align.padding_size \in Nat
  BY FieldNumbers
<1>2. << <<k, 0>> >> \in Path /\ << <<k, 1>> >> \in Path
  BY DEF Path
<1>3. PadBytes(f) \in Seq(CellType)
  <2>1. <<>> \in Seq(CellType)
    OBVIOUS
  <2> QED
    BY <1>1, <2>1, CellsAre DEF PadBytes
<1>4. /\ One(inner, f, << <<k, 0>> >>) \in Seq(CellType)
      /\ One(inner, f, << <<k, 1>> >>) \in Seq(CellType)
      /\ Gen!Mark(<< <<k, 0>> >>, "count") \in Seq(CellType)
      /\ Gen!Mark(<< <<k, 0>> >>, "end") \in Seq(CellType)
      /\ Gen!FlattenSeq(Ones(inner, f, k)) \in Seq(CellType)
  BY <1>1, <1>2, OneIs, OnesAre, CellsAre
<1>5. \A s, t \in Seq(CellType) : s \o t \in Seq(CellType)
  OBVIOUS
<1> QED
  BY <1>3, <1>4, <1>5 DEF FieldBytes

\* The instruction writes an element of the field, in whatever place.
Copies(packers, inner, elem, f) ==
  \E o, r :
    /\ elem = [op |-> o, at |-> <<>>, arg |-> r] /\ o \notin {"list", "packed"}
    /\ \A a : \A at \in Path :
         Gen!ElementBytes(packers, inner, [op |-> o, at |-> a, arg |-> r], at) = One(inner, f, at)

\* The padding behind a field.
LEMMA PadInstrBytes ==
  ASSUME NEW packers, NEW inner, NEW f \in FieldRecord
  PROVE  /\ Written(packers, inner, Gen!PadInstr(f))
         /\ Gen!StructBytes(packers, inner, Gen!PadInstr(f)) = PadBytes(f)
<1> DEFINE gap == [op |-> "gap", at |-> <<>>, arg |-> f.align.padding_size]
<1>1. Gen!InstrBytes(packers, inner, gap) = Gen!Placeholder(f.align.padding_size)
  BY DEF Gen!InstrBytes, Gen!ElementBytes
<1>2. Gen!PadInstr(f) = IF f.align.use_align THEN << gap >> ELSE <<>>
  BY DEF Gen!PadInstr, Gen!Gap, Gen!Instr
<1>3. Gen!InstrBytes(packers, inner, gap) \in Seq(CellType)
  BY <1>1, CellsAre, FieldNumbers
<1> HIDE DEF gap
<1>4. /\ Written(packers, inner, <<>>)
      /\ Gen!StructBytes(packers, inner, <<>>) = <<>>
      /\ Written(packers, inner, << gap >>)
      /\ Gen!StructBytes(packers, inner, << gap >>) = Gen!InstrBytes(packers, inner, gap)
  BY <1>3, BytesSmall
<1> QED
  BY <1>1, <1>2, <1>4 DEF PadBytes

\* The generators spread such an instruction over the places of the field.
LEMMA SpreadBytes ==
  ASSUME NEW packers, NEW inner, NEW f \in FieldRecord, Knows(inner, f), NEW k \in Nat,
         NEW elem, Copies(packers, inner, elem, f)
  PROVE  LET s == Gen!Spread(f, k, elem) \o Gen!PadInstr(f)
         IN  /\ Written(packers, inner, s)
             /\ Gen!StructBytes(packers, inner, s) = FieldBytes(inner, f, k)
<1>1. PICK o, r :
        /\ elem = [op |-> o, at |-> <<>>, arg |-> r] /\ o \notin {"list", "packed"}
        /\ \A a : \A at \in Path :
             Gen!ElementBytes(packers, inner, [op |-> o, at |-> a, arg |-> r], at) = One(inner, f, at)
  BY DEF Copies
<1>2. /\ f.array.static_array_len \in Nat /\ f.align.padding_size \in Nat
      /\ f.array.is_array \in BOOLEAN /\ f.array.is_static_array \in BOOLEAN
  BY FieldNumbers
<1> DEFINE in(i) == [op |-> o, at |-> <<k, i>>, arg |-> r]
           list == [op |-> "list", at |-> <<k, 0>>, arg |-> elem]
           n == f.array.static_array_len
           spread == Gen!Spread(f, k, elem)
           values == IF ~f.array.is_array THEN One(inner, f, << <<k, 0>> >>)
                     ELSE IF f.array.is_static_array THEN Gen!FlattenSeq(Ones(inner, f, k))
                     ELSE Gen!Mark(<< <<k, 0>> >>, "count") \o One(inner, f, << <<k, 1>> >>)
                            \o Gen!Mark(<< <<k, 0>> >>, "end")
<1>3. \A i : Gen!At(elem, <<k, i>>) = in(i)
  BY <1>1 DEF Gen!At
<1>4. ASSUME NEW i \in Nat
      PROVE  /\ Gen!InstrBytes(packers, inner, in(i)) = One(inner, f, << <<k, i>> >>)
             /\ One(inner, f, << <<k, i>> >>) \in Seq(CellType)
  <2>1. << <<k, i>> >> \in Path
    BY DEF Path
  <2>2. in(i).op = o /\ in(i).at = <<k, i>> /\ in(i).at # <<>>
    OBVIOUS
  <2>3. Gen!InstrBytes(packers, inner, in(i)) =
          Gen!ElementBytes(packers, inner, in(i), << <<k, i>> >>)
    <3> HIDE DEF in
    <3> QED
      BY <1>1, <2>2 DEF Gen!InstrBytes
  <2>4. Gen!ElementBytes(packers, inner, in(i), << <<k, i>> >>) = One(inner, f, << <<k, i>> >>)
    BY <1>1, <2>1
  <2> QED
    BY <2>1, <2>3, <2>4, OneIs
<1> HIDE DEF in
<1>5. Written(packers, inner, spread) /\ Gen!StructBytes(packers, inner, spread) = values
  <2>1. CASE ~f.array.is_array
    <3>1. spread = << in(0) >>
      BY <1>3, <2>1 DEF Gen!Spread
    <3> QED
      BY <1>4, <2>1, <3>1, BytesSmall
  <2>2. CASE f.array.is_array /\ f.array.is_static_array
    <3>1. spread = [i \in 1..n |-> in(i)]
      BY <1>3, <2>2 DEF Gen!Spread
    <3> HIDE DEF n
    <3>2. /\ spread \in Seq({in(i) : i \in 1..n}) /\ Len(spread) = n
          /\ \A i \in 1..n : spread[i] = in(i)
      BY <1>2, <3>1 DEF n
    <3>3. \A i \in 1..n :
            /\ Gen!InstrBytes(packers, inner, spread[i]) = One(inner, f, << <<k, i>> >>)
            /\ One(inner, f, << <<k, i>> >>) \in Seq(CellType)
      BY <1>2, <1>4, <3>2 DEF n
    <3>4. Written(packers, inner, spread)
      <4> HIDE DEF spread
      <4>1. \A i \in 1..Len(spread) : Gen!InstrBytes(packers, inner, spread[i]) \in Seq(CellType)
        BY <3>2, <3>3
      <4> QED
        BY <3>2, <4>1 DEF Written
    <3>5. Gen!StructBytes(packers, inner, spread) =
            Gen!FlattenSeq([i \in 1..n |-> Gen!InstrBytes(packers, inner, spread[i])])
      BY <3>2, <3>4, BytesAre
    <3>6. [i \in 1..n |-> Gen!InstrBytes(packers, inner, spread[i])] = Ones(inner, f, k)
      BY <3>3 DEF Ones, n
    <3> QED
      BY <2>2, <3>4, <3>5, <3>6
  <2>3. CASE f.array.is_array /\ ~f.array.is_static_array
    <3>1. spread = << list >>
      BY <2>3 DEF Gen!Spread, Gen!Instr
    <3>2. << <<k, 0>> >> \in Path /\ << <<k, 1>> >> \in Path /\ <<>> \in Path
      BY DEF Path
    <3>3. list.op = "list" /\ list.at = <<k, 0>> /\ list.at[1] = k /\ list.arg = elem
      OBVIOUS
    <3>4. Gen!InstrBytes(packers, inner, list) =
            Gen!Mark(<< <<k, 0>> >>, "count")
            \o Gen!ElementBytes(packers, inner, elem, << <<k, 1>> >>)
            \o Gen!Mark(<< <<k, 0>> >>, "end")
      <4> HIDE DEF list
      <4> QED
        BY <3>3 DEF Gen!InstrBytes
    <3>5. Gen!ElementBytes(packers, inner, elem, << <<k, 1>> >>) = One(inner, f, << <<k, 1>> >>)
      BY <1>1, <3>2
    <3>6. Gen!InstrBytes(packers, inner, list) = values
      BY <2>3, <3>4, <3>5
    <3>7. values \in Seq(CellType)
      <4>1. /\ Gen!Mark(<< <<k, 0>> >>, "count") \in Seq(CellType)
            /\ Gen!Mark(<< <<k, 0>> >>, "end") \in Seq(CellType)
            /\ One(inner, f, << <<k, 1>> >>) \in Seq(CellType)
        BY <1>4, <3>2, CellsAre
      <4>2. \A s, t \in Seq(CellType) : s \o t \in Seq(CellType)
        OBVIOUS
      <4> QED
        BY <2>3, <4>1, <4>2
    <3> HIDE DEF list, values
    <3> QED
      BY <3>1, <3>6, <3>7, BytesSmall
  <2> QED
    BY <1>2, <2>1, <2>2, <2>3
<1>6. Written(packers, inner, Gen!PadInstr(f))
      /\ Gen!StructBytes(packers, inner, Gen!PadInstr(f)) = PadBytes(f)
  BY PadInstrBytes
<1> HIDE DEF spread, values
<1> DEFINE pad == Gen!PadInstr(f)
<1> HIDE DEF pad
<1>7. /\ Written(packers, inner, spread \o pad)
      /\ Gen!StructBytes(packers, inner, spread \o pad) = values \o PadBytes(f)
  <2>1. /\ Written(packers, inner, spread) /\ Written(packers, inner, pad)
        /\ Gen!StructBytes(packers, inner, spread) = values
        /\ Gen!StructBytes(packers, inner, pad) = PadBytes(f)
    BY <1>5, <1>6 DEF pad
  <2> QED
    BY <2>1, BytesJoin, SMTT(60)
<1>8. values \o PadBytes(f) = FieldBytes(inner, f, k)
  BY DEF FieldBytes, values
<1> QED
  BY <1>7, <1>8 DEF spread, pad

\* The calls the languages have for an element.
LEMMA TextOrNestedCopies ==
  ASSUME NEW packers, NEW inner, NEW f, f.type.full \notin BasicTypes \ {"string"}
  PROVE  Copies(packers, inner, Gen!TextOrNested(f), f)
<1>1. CASE f.type.full = "string"
  <2> DEFINE in(a) == [op |-> "text", at |-> a, arg |-> "string"]
  <2>1. Gen!TextOrNested(f) = in(<<>>)
    BY <1>1 DEF Gen!TextOrNested, Gen!Instr
  <2>2. ASSUME NEW a, NEW at \in Path
        PROVE  Gen!ElementBytes(packers, inner, in(a), at) = One(inner, f, at)
    <3>1. in(a).op = "text"
      OBVIOUS
    <3> HIDE DEF in
    <3>2. Gen!ElementBytes(packers, inner, in(a), at) = Gen!Mark(at, "text")
      BY <3>1 DEF Gen!ElementBytes
    <3> QED
      BY <1>1, <3>2 DEF One
  <2> QED
    BY <2>1, <2>2 DEF Copies
<1>2. CASE f.type.full # "string"
  <2> DEFINE in(a) == [op |-> "nested", at |-> a, arg |-> f.type.type]
  <2>1. Gen!TextOrNested(f) = in(<<>>)
    BY <1>2 DEF Gen!TextOrNested, Gen!Instr
  <2>2. ASSUME NEW a, NEW at \in Path
        PROVE  Gen!ElementBytes(packers, inner, in(a), at) = One(inner, f, at)
    <3>1. in(a).op = "nested" /\ in(a).arg = f.type.type
      OBVIOUS
    <3> HIDE DEF in
    <3>2. Gen!ElementBytes(packers, inner, in(a), at) = Moved(inner[f.type.type], at)
      BY <3>1 DEF Gen!ElementBytes, Moved
    <3> QED
      BY <1>2, <3>2 DEF One
  <2> QED
    BY <2>1, <2>2 DEF Copies
<1> QED
  BY <1>1, <1>2

\* An instruction that writes a number writes each element as everyone does.
LEMMA NumberCopies ==
  ASSUME NEW packers, NEW inner, NEW f, f.type.full \in BasicTypes \ {"string"},
         NEW op \in {"number", "tuple", "raw"}
  PROVE  Copies(packers, inner, Gen!NumberOf(f, op), f)
<1> DEFINE in(a) == [op |-> op, at |-> a, arg |-> f.type.full]
<1>1. Gen!NumberOf(f, op) = in(<<>>)
  BY DEF Gen!NumberOf, Gen!Instr
<1>2. ASSUME NEW a, NEW at \in Path
      PROVE  Gen!ElementBytes(packers, inner, in(a), at) = One(inner, f, at)
  <2>1. in(a).op = op /\ in(a).arg = f.type.full
    OBVIOUS
  <2> HIDE DEF in
  <2>2. Gen!ElementBytes(packers, inner, in(a), at) = Gen!NumberBytes(at, f.type.full)
    BY <2>1 DEF Gen!ElementBytes
  <2> QED
    BY <2>2 DEF One
<1> QED
  BY <1>1, <1>2 DEF Copies

\* A function on 1..n is a sequence.
LEMMA SeqIs ==
  ASSUME NEW n \in Nat, NEW A, NEW t \in [1..n -> A]
  PROVE  t \in Seq(A) /\ Len(t) = n /\ DOMAIN t = 1..n /\ \A i \in 1..n : t[i] \in A
OBVIOUS

\* r is s with t behind it, place by place.
Joined(r, s, t) ==
  /\ Len(r) = Len(s) + Len(t)
  /\ \A i \in 1..Len(r) : r[i] = IF i <= Len(s) THEN s[i] ELSE t[i - Len(s)]

\* Such a list is the concatenation.
LEMMA JoinedIs ==
  ASSUME NEW S, NEW r \in Seq(S), NEW s \in Seq(S), NEW t \in Seq(S), Joined(r, s, t)
  PROVE  r = s \o t
BY SMTT(60) DEF Joined

\* The pieces of a list from position i on, n of them, joined.
Span(F, i, n) == Gen!FlattenSeq([j \in 1..n |-> F[i + j - 1]])

\* A stretch of the pieces is its two parts.
LEMMA SpanJoin ==
  ASSUME NEW S, NEW F \in Seq(Seq(S)), NEW i \in 1..Len(F) + 1, NEW m \in Nat, NEW n \in Nat,
         i + m + n <= Len(F) + 1
  PROVE  /\ Span(F, i, m) \in Seq(S)
         /\ Span(F, i, m + n) = Span(F, i, m) \o Span(F, i + m, n)
<1> DEFINE a == [j \in 1..m |-> F[i + j - 1]]
           b == [j \in 1..n |-> F[i + m + j - 1]]
           c == [j \in 1..m + n |-> F[i + j - 1]]
<1>1. \A k \in 1..Len(F) : F[k] \in Seq(S)
  OBVIOUS
<1>2. /\ \A j \in 1..m : i + j - 1 \in 1..Len(F)
      /\ \A j \in 1..n : i + m + j - 1 \in 1..Len(F)
      /\ \A j \in 1..m + n : i + j - 1 \in 1..Len(F)
  OBVIOUS
<1>3. a \in Seq(Seq(S)) /\ Len(a) = m
  <2>1. a \in [1..m -> Seq(S)]
    BY <1>1, <1>2
  <2> QED
    BY <2>1
<1>4. b \in Seq(Seq(S)) /\ Len(b) = n
  <2>1. b \in [1..n -> Seq(S)]
    BY <1>1, <1>2
  <2> QED
    BY <2>1
<1>5. c \in Seq(Seq(S)) /\ Len(c) = m + n
  <2>1. c \in [1..m + n -> Seq(S)]
    BY <1>1, <1>2
  <2> QED
    BY <2>1
<1>6. \A k \in 1..m + n : c[k] = IF k <= m THEN a[k] ELSE b[k - m]
  <2> SUFFICES ASSUME NEW k \in 1..m + n PROVE c[k] = IF k <= m THEN a[k] ELSE b[k - m]
    OBVIOUS
  <2>1. CASE k <= m
    BY <2>1
  <2>2. CASE ~(k <= m)
    <3>1. k - m \in 1..n /\ i + m + (k - m) - 1 = i + k - 1
      BY <2>2
    <3> QED
      BY <2>2, <3>1
  <2> QED
    BY <2>1, <2>2
<1>7. Span(F, i, m) = Gen!FlattenSeq(a) /\ Span(F, i + m, n) = Gen!FlattenSeq(b)
      /\ Span(F, i, m + n) = Gen!FlattenSeq(c)
  BY DEF Span
<1> HIDE DEF a, b, c
<1>8. c = a \o b
  <2>1. Len(c) = Len(a) + Len(b)
    BY <1>3, <1>4, <1>5
  <2>2. \A k \in 1..Len(c) : c[k] = IF k <= Len(a) THEN a[k] ELSE b[k - Len(a)]
    BY <1>3, <1>5, <1>6
  <2> QED
    BY <1>3, <1>4, <1>5, <2>1, <2>2, JoinIs, ZenonT(60)
<1>9. Gen!FlattenSeq(a) \in Seq(S)
  BY <1>3, FlattenTyped
<1>10. Gen!FlattenSeq(a \o b) = Gen!FlattenSeq(a) \o Gen!FlattenSeq(b)
  BY <1>3, <1>4, FlattenJoin
<1> QED
  BY <1>7, <1>8, <1>9, <1>10

\* No piece, one piece, all pieces.
LEMMA SpanSmall ==
  ASSUME NEW S, NEW F \in Seq(Seq(S))
  PROVE  /\ \A i \in Nat : Span(F, i, 0) = <<>>
         /\ \A i \in 1..Len(F) : Span(F, i, 1) = F[i]
         /\ Span(F, 1, Len(F)) = Gen!FlattenSeq(F)
<1>1. ASSUME NEW i \in Nat PROVE Span(F, i, 0) = <<>>
  <2>1. [j \in 1..0 |-> F[i + j - 1]] = <<>>
    OBVIOUS
  <2>2. <<>> \in Seq(S)
    OBVIOUS
  <2> QED
    BY <2>1, <2>2, FlattenSmall DEF Span
<1>2. ASSUME NEW i \in 1..Len(F) PROVE Span(F, i, 1) = F[i]
  <2>1. F[i] \in Seq(S)
    OBVIOUS
  <2>2. [j \in 1..1 |-> F[i + j - 1]] = << F[i] >>
    <3> DEFINE x == F[i]
    <3>1. \A j \in 1..1 : F[i + j - 1] = x
      OBVIOUS
    <3> HIDE DEF x
    <3>2. [j \in 1..1 |-> x] = << x >>
      OBVIOUS
    <3> QED
      BY <3>1, <3>2 DEF x
  <2> QED
    BY <2>1, <2>2, FlattenSmall DEF Span
<1>3. Span(F, 1, Len(F)) = Gen!FlattenSeq(F)
  <2>1. \A j \in 1..Len(F) : 1 + j - 1 = j
    OBVIOUS
  <2>2. [j \in 1..Len(F) |-> F[1 + j - 1]] = [j \in 1..Len(F) |-> F[j]]
    BY <2>1
  <2>3. [j \in 1..Len(F) |-> F[j]] = F
    OBVIOUS
  <2> QED
    BY <2>2, <2>3 DEF Span
<1> QED
  BY <1>1, <1>2, <1>3

\* The groups of the variables take every piece once, in order.
LEMMA GroupsJoin ==
  ASSUME NEW T, NEW types \in Seq(T), NEW rules, NEW S, NEW F \in Seq(Seq(S)),
         Len(F) = Len(types)
  PROVE  LET groups == BondVars(types, rules)
         IN  /\ groups \in Seq(SoundGroups(types, rules))
             /\ groups = <<>> <=> types = <<>>
             /\ Gen!FlattenSeq([h \in 1..Len(groups) |-> Span(F, groups[h].first, groups[h].len)])
                  = Gen!FlattenSeq(F)
<1> DEFINE n == Len(types)
           G == SoundGroups(types, rules)
           Spans(q) == [h \in 1..Len(q) |-> Span(F, q[h].first, q[h].len)]
<1>1. PICK from : BondsFrom(types, rules, from) /\ BondVars(types, rules) = from[1]
  BY BondVarsRecursion
<1>2. /\ n \in Nat /\ from \in [1..n + 1 -> Seq(G)] /\ from[n + 1] = <<>>
      /\ \A i \in 1..n : LET g == GroupAt(types, rules, i)
                         IN  /\ i + g.len \in (i + 1)..(n + 1)
                             /\ from[i] = <<g>> \o from[i + g.len]
  BY <1>1 DEF BondsFrom
<1>3. \A i \in 1..n : GroupAt(types, rules, i) \in G /\ GroupAt(types, rules, i).first = i
  BY GroupAtFacts
<1>4. \A g \in G : /\ g.first \in 1..n /\ g.len \in 1..n /\ g.first + g.len <= n + 1
  BY DEF SoundGroups
<1>5. \A q : DOMAIN Spans(q) = 1..Len(q)
             /\ \A h \in 1..Len(q) : Spans(q)[h] = Span(F, q[h].first, q[h].len)
  OBVIOUS
<1> HIDE DEF n, G, Spans
<1>6. \A q \in Seq(G) : Spans(q) \in Seq(Seq(S)) /\ Len(Spans(q)) = Len(q)
  <2> SUFFICES ASSUME NEW q \in Seq(G) PROVE Spans(q) \in Seq(Seq(S)) /\ Len(Spans(q)) = Len(q)
    OBVIOUS
  <2>1. \A h \in 1..Len(q) : Span(F, q[h].first, q[h].len) \in Seq(S)
    <3> SUFFICES ASSUME NEW h \in 1..Len(q) PROVE Span(F, q[h].first, q[h].len) \in Seq(S)
      OBVIOUS
    <3>1. q[h] \in G
      OBVIOUS
    <3> DEFINE i == q[h].first
               m == q[h].len
    <3>2. i \in 1..Len(F) + 1 /\ m \in Nat /\ i + m + 0 <= Len(F) + 1
      BY <1>2, <1>4, <3>1 DEF n
    <3> HIDE DEF i, m
    <3>3. Span(F, i, m) \in Seq(S)
      BY <3>2, SpanJoin
    <3> QED
      BY <3>3 DEF i, m
  <2>2. Spans(q) \in [1..Len(q) -> Seq(S)]
    BY <1>5, <2>1 DEF Spans
  <2> DEFINE t == Spans(q)
  <2>3. t \in [1..Len(q) -> Seq(S)] /\ DOMAIN t = 1..Len(q) /\ Len(q) \in Nat
    BY <1>5, <2>2
  <2> HIDE DEF t
  <2>4. t \in Seq(Seq(S)) /\ Len(t) = Len(q)
    BY <2>3, SeqIs
  <2> QED
    BY <2>4 DEF t
<1> DEFINE Good(i) == Gen!FlattenSeq(Spans(from[i])) = Span(F, i, n + 1 - i)
           Done == {d \in 0..n : \A i \in (n + 1 - d)..(n + 1) : Good(i)}
<1>7. Good(n + 1)
  <2>1. Spans(<<>>) = <<>>
    BY DEF Spans
  <2>2. Gen!FlattenSeq(<<>>) = <<>>
    <3>1. <<>> \in Seq(S)
      OBVIOUS
    <3> QED
      BY <3>1, FlattenSmall
  <2>3. n + 1 - (n + 1) = 0 /\ n + 1 \in Nat
    BY <1>2
  <2> QED
    BY <1>2, <2>1, <2>2, <2>3, SpanSmall
<1>8. ASSUME NEW i \in 1..n, \A j \in (i + 1)..(n + 1) : Good(j) PROVE Good(i)
  <2>0. PICK g \in G : /\ g.first = i /\ i + g.len \in (i + 1)..(n + 1)
                        /\ from[i] = <<g>> \o from[i + g.len]
    BY <1>2, <1>3
  <2>00. PICK len \in 1..n : len = g.len
    BY <1>4
  <2> DEFINE rest == from[i + len]
  <2>1. /\ g.first = i /\ i + len <= n + 1
        /\ i + len \in (i + 1)..(n + 1) /\ from[i] = <<g>> \o rest
    BY <1>2, <2>0, <2>00
  <2>2. rest \in Seq(G) /\ from[i] \in Seq(G)
    <3>1. i + len \in 1..n + 1 /\ i \in 1..n + 1
      BY <1>2, <2>1
    <3> QED
      BY <1>2, <3>1
  <2>3. Gen!FlattenSeq(Spans(rest)) = Span(F, i + len, n + 1 - (i + len))
    BY <1>8, <2>1
  <2> DEFINE x == Span(F, i, len)
             m == n + 1 - (i + len)
  <2>4. x \in Seq(S) /\ Span(F, i, len + m) = x \o Span(F, i + len, m) /\ len + m = n + 1 - i
    <3>0. /\ i \in 1..n + 1 /\ len \in Nat /\ m \in Nat /\ i + len + m <= n + 1
          /\ len + m = n + 1 - i
      BY <1>2, <2>1
    <3>1. /\ i \in 1..Len(F) + 1 /\ len \in Nat /\ m \in Nat /\ i + len + m <= Len(F) + 1
          /\ len + m = n + 1 - i
      BY <3>0 DEF n
    <3> HIDE DEF m
    <3> QED
      BY <3>1, SpanJoin, ZenonT(60)
  <2> HIDE DEF rest, m
  <2>5. Spans(from[i]) = << x >> \o Spans(rest)
    <3> DEFINE r == from[i]
               a == Spans(r)
               b == << x >>
               c == Spans(rest)
    <3>1. /\ r = <<g>> \o rest /\ r \in Seq(G) /\ Len(r) = 1 + Len(rest)
          /\ r[1] = g /\ \A h \in 2..Len(r) : r[h] = rest[h - 1]
      BY <2>1, <2>2
    <3> HIDE DEF r
    <3>2. /\ a \in Seq(Seq(S)) /\ Len(a) = Len(r) /\ c \in Seq(Seq(S)) /\ Len(c) = Len(rest)
      BY <1>6, <2>2, <3>1
    <3>3. b \in Seq(Seq(S)) /\ Len(b) = 1 /\ b[1] = x
      <4> HIDE DEF x
      <4> QED
        BY <2>4
    <3>4. \A h \in 1..Len(a) : a[h] = IF h <= Len(b) THEN b[h] ELSE c[h - Len(b)]
      <4> SUFFICES ASSUME NEW h \in 1..Len(a) PROVE a[h] = IF h <= Len(b) THEN b[h] ELSE c[h - Len(b)]
        OBVIOUS
      <4>1. a[h] = Span(F, r[h].first, r[h].len)
        BY <1>5, <3>2
      <4>2. CASE h = 1
        <5>1. a[h] = x
          BY <2>00, <2>1, <3>1, <4>1, <4>2
        <5> QED
          BY <3>3, <4>2, <5>1
      <4>3. CASE h # 1
        <5>1. h \in 2..Len(r) /\ h - 1 \in 1..Len(rest) /\ ~(h <= 1)
          BY <2>2, <3>1, <3>2, <4>3
        <5>2. c[h - 1] = Span(F, rest[h - 1].first, rest[h - 1].len)
          BY <1>5, <5>1
        <5> QED
          BY <3>1, <3>3, <4>1, <5>1, <5>2
      <4> QED
        BY <4>2, <4>3
    <3> HIDE DEF a, b, c
    <3>5. Len(a) = Len(b) + Len(c)
      BY <3>1, <3>2, <3>3
    <3> HIDE DEF x
    <3>6. a = b \o c
      <4>1. a \in Seq(Seq(S)) /\ b \in Seq(Seq(S)) /\ c \in Seq(Seq(S))
        BY <3>2, <3>3
      <4>2. Joined(a, b, c)
        BY <3>4, <3>5 DEF Joined
      <4> QED
        BY <4>1, <4>2, JoinedIs
    <3> QED
      BY <3>6 DEF a, b, c, r
  <2>6. Gen!FlattenSeq(<< x >> \o Spans(rest)) = x \o Gen!FlattenSeq(Spans(rest))
    <3> DEFINE b == << x >>
               c == Spans(rest)
    <3>1. b \in Seq(Seq(S)) /\ c \in Seq(Seq(S)) /\ Gen!FlattenSeq(b) = x
      <4> HIDE DEF x
      <4> QED
        BY <1>6, <2>2, <2>4, FlattenSmall
    <3> HIDE DEF b, c
    <3>2. Gen!FlattenSeq(b \o c) = Gen!FlattenSeq(b) \o Gen!FlattenSeq(c)
      BY <3>1, FlattenJoin
    <3> QED
      BY <3>1, <3>2 DEF b, c
  <2> QED
    BY <2>3, <2>4, <2>5, <2>6 DEF m
<1> HIDE DEF Good
<1>9. 0..n \subseteq Done
  <2>1. 0 \in Done
    <3>1. \A i \in (n + 1 - 0)..(n + 1) : i = n + 1
      BY <1>2
    <3> QED
      BY <1>2, <1>7, <3>1
  <2>2. ASSUME NEW d \in 1..n, d - 1 \in Done PROVE d \in Done
    <3> DEFINE i == n + 1 - d
    <3>1. i \in 1..n /\ d \in 0..n /\ n + 1 - (d - 1) = i + 1
      BY <1>2
    <3>2. \A j \in (i + 1)..(n + 1) : Good(j)
      BY <2>2, <3>1
    <3>3. Good(i)
      <4> HIDE DEF i
      <4> QED
        BY <1>8, <3>1, <3>2
    <3>4. \A j \in i..(n + 1) : j = i \/ j \in (i + 1)..(n + 1)
      BY <3>1
    <3> QED
      BY <3>1, <3>2, <3>3, <3>4
  <2> HIDE DEF Done
  <2> QED
    BY <1>2, <2>1, <2>2, SegmentInduction
<1>10. Good(1)
  <2>1. n \in 0..n /\ 1 \in (n + 1 - n)..(n + 1)
    BY <1>2
  <2> QED
    BY <1>9, <2>1
<1>11. Gen!FlattenSeq(Spans(from[1])) = Gen!FlattenSeq(F)
  <2>1. n + 1 - 1 = Len(F)
    BY <1>2 DEF n
  <2> QED
    BY <1>10, <2>1, SpanSmall DEF Good
<1>12. from[1] \in Seq(G) /\ (from[1] = <<>> <=> types = <<>>)
  <2>1. from[1] \in Seq(G)
    BY <1>2
  <2>2. CASE n = 0
    BY <1>2, <2>2 DEF n
  <2>3. CASE n # 0
    <3> DEFINE g == GroupAt(types, rules, 1)
    <3>1. 1 \in 1..n /\ types # <<>>
      BY <1>2, <2>3 DEF n
    <3>2. 1 + g.len \in 1..n + 1 /\ from[1] = <<g>> \o from[1 + g.len] /\ g \in G
      <4>1. 1 + g.len \in (1 + 1)..(n + 1) /\ from[1] = <<g>> \o from[1 + g.len] /\ g \in G
        BY <1>2, <1>3, <3>1
      <4> HIDE DEF g
      <4> QED
        BY <1>2, <4>1
    <3>3. from[1 + g.len] \in Seq(G)
      BY <1>2, <3>2
    <3> HIDE DEF g
    <3>4. \A s \in Seq(G) : Len(<<g>> \o s) = 1 + Len(s) /\ Len(s) \in Nat
      BY <3>2
    <3>5. from[1] # <<>>
      BY <3>2, <3>3, <3>4
    <3> QED
      BY <2>1, <3>1, <3>5
  <2> QED
    BY <2>1, <2>2, <2>3
<1> QED
  BY <1>1, <1>11, <1>12 DEF Spans, G

\* A padding byte is a cell, and so is each of a list of them.
LEMMA PaddingJoined ==
  ASSUME NEW n \in Nat
  PROVE  /\ [i \in 1..n |-> Gen!Placeholder(1)] \in Seq(Seq(CellType))
         /\ Gen!FlattenSeq([i \in 1..n |-> Gen!Placeholder(1)]) = Gen!Placeholder(n)
<1> DEFINE one == Gen!Placeholder(1)
           c == Gen!Cell(<<>>, 0, 0)
           list == [i \in 1..n |-> one]
<1>2. \A k \in Nat : /\ Gen!Placeholder(k) \in Seq(CellType) /\ Len(Gen!Placeholder(k)) = k
                     /\ \A i \in 1..k : Gen!Placeholder(k)[i] = c
  BY CellsAre
<1>1. one \in Seq(CellType) /\ Len(one) = 1 /\ one[1] = c
  <2>1. 1 \in Nat /\ 1 \in 1..1
    OBVIOUS
  <2> HIDE DEF c
  <2> QED
    BY <1>2, <2>1
<1> HIDE DEF one, c
<1>3. list \in [1..n -> Seq(CellType)] /\ \A i \in 1..n : list[i] = one
  BY <1>1
<1> HIDE DEF list
<1>4. list \in Seq(Seq(CellType)) /\ Len(list) = n
  BY <1>3, SeqIs
<1>5. PICK u \in [0..n -> Seq(CellType)] :
        /\ u[0] = <<>> /\ Gen!FlattenSeq(list) = u[n]
        /\ \A k \in 1..n : u[k] = u[k - 1] \o list[k]
  <2>1. PICK u \in [0..Len(list) -> Seq(CellType)] :
          /\ u[0] = <<>> /\ Gen!FlattenSeq(list) = u[Len(list)]
          /\ \A k \in 1..Len(list) : u[k] = u[k - 1] \o list[k]
    BY <1>4, FlattenRecursion
  <2> QED
    BY <1>4, <2>1
<1> DEFINE Done == {k \in 0..n : u[k] = Gen!Placeholder(k)}
<1>6. 0 \in Done
  <2>1. \A s \in Seq(CellType) : Len(s) = 0 => s = <<>>
    OBVIOUS
  <2>2. Gen!Placeholder(0) = <<>>
    BY <1>2, <2>1
  <2> QED
    BY <1>5, <2>2
<1>7. ASSUME NEW k \in 1..n, k - 1 \in Done PROVE k \in Done
  <2> DEFINE a == Gen!Placeholder(k)
             b == Gen!Placeholder(k - 1)
  <2>0. k \in Nat /\ k - 1 \in Nat /\ k \in 0..n
    OBVIOUS
  <2>1. /\ a \in Seq(CellType) /\ Len(a) = k /\ \A i \in 1..k : a[i] = c
        /\ b \in Seq(CellType) /\ Len(b) = k - 1 /\ \A i \in 1..(k - 1) : b[i] = c
    BY <1>2, <2>0
  <2>2. u[k] = b \o one
    BY <1>3, <1>5, <1>7
  <2> HIDE DEF a, b
  <2>3. Joined(a, b, one)
    <3>1. \A i \in 1..Len(a) : a[i] = IF i <= Len(b) THEN b[i] ELSE one[i - Len(b)]
      <4> SUFFICES ASSUME NEW i \in 1..Len(a)
                   PROVE  a[i] = IF i <= Len(b) THEN b[i] ELSE one[i - Len(b)]
        OBVIOUS
      <4>1. CASE i <= Len(b)
        BY <2>1, <4>1
      <4>2. CASE ~(i <= Len(b))
        <5>1. i - Len(b) = 1 /\ a[i] = c
          BY <2>0, <2>1, <4>2
        <5> QED
          BY <1>1, <4>2, <5>1
      <4> QED
        BY <4>1, <4>2
    <3> QED
      BY <1>1, <2>0, <2>1, <3>1 DEF Joined
  <2>4. a = b \o one
    BY <1>1, <2>1, <2>3, JoinedIs
  <2> QED
    BY <2>0, <2>2, <2>4 DEF a
<1> HIDE DEF Done
<1>8. 0..n \subseteq Done
  BY <1>6, <1>7, SegmentInduction
<1>9. u[n] = Gen!Placeholder(n)
  BY <1>8 DEF Done
<1> QED
  BY <1>4, <1>5, <1>9 DEF list, one
-----------------------------------------------------------------------------
(* What a packer writes *)

Characters == BasicTypes \cup {"x"}

\* How many values a format has up to a character.
ValuesTo(fmt, i) == Gen!Cardinality({j \in 1..i : fmt[j] # "x"})

\* What one character of a format stands for.
Item(fmt, at, i) ==
  IF fmt[i] = "x" THEN Gen!Placeholder(1)
                  ELSE Gen!NumberBytes(<<at[ValuesTo(fmt, i)]>>, fmt[i])

Items(fmt, at) == [i \in DOMAIN fmt |-> Item(fmt, at, i)]

Typed(fmt, at) == \A i \in 1..Len(fmt) : Item(fmt, at, i) \in Seq(CellType)

\* The instruction of a packer writes the items of its format.
LEMMA PackedIs ==
  ASSUME NEW packers, NEW inner, NEW node, NEW g, NEW index
  PROVE  Gen!InstrBytes(packers, inner, Gen!Packed(node, g, index)) =
           Gen!FlattenSeq(Items(packers[index + 1], Gen!PackedPlaces(node, g)))
<1> DEFINE in == Gen!Packed(node, g, index)
<1>1. /\ in.op = "packed" /\ in.at = Gen!PackedPlaces(node, g) /\ in.arg.index = index
  BY DEF Gen!Packed, Gen!Instr
<1> HIDE DEF in
<1>2. Gen!InstrBytes(packers, inner, in) = Gen!ElementBytes(packers, inner, in, <<in.at>>)
  BY <1>1 DEF Gen!InstrBytes
<1>3. Gen!ElementBytes(packers, inner, in, <<in.at>>) =
        Gen!FlattenSeq(Items(packers[in.arg.index + 1], in.at))
  BY <1>1 DEF Gen!ElementBytes, Items, Item, ValuesTo
<1> QED
  BY <1>1, <1>2, <1>3 DEF in

\* The format of an array.
LEMMA ArrayItems ==
  ASSUME NEW n \in Nat, NEW t \in BasicTypes, NEW k \in Nat
  PROVE  Items([i \in 1..n |-> t], [i \in 1..n |-> <<k, i>>]) =
           [i \in 1..n |-> Gen!NumberBytes(<< <<k, i>> >>, t)]
<1> DEFINE fmt == [i \in 1..n |-> t]
           at == [i \in 1..n |-> <<k, i>>]
<1>1. t # "x"
  BY DEF BasicTypes, IntegerTypes, SignedTypes, UnsignedTypes
<1>2. ASSUME NEW i \in 1..n PROVE Item(fmt, at, i) = Gen!NumberBytes(<< <<k, i>> >>, t)
  <2>1. {j \in 1..i : fmt[j] # "x"} = 1..i
    BY <1>1
  <2>2. Cardinality(1..i) = i
    BY FS_Interval
  <2>3. ValuesTo(fmt, i) = i
    BY <2>1, <2>2, GenCount DEF ValuesTo
  <2>4. fmt[i] = t /\ at[i] = <<k, i>>
    OBVIOUS
  <2> HIDE DEF fmt, at
  <2> QED
    BY <1>1, <2>3, <2>4 DEF Item
<1>3. DOMAIN fmt = 1..n
  OBVIOUS
<1> HIDE DEF fmt, at
<1>4. Items(fmt, at) = [i \in 1..n |-> Gen!NumberBytes(<< <<k, i>> >>, t)]
  BY <1>2, <1>3 DEF Items
<1> QED
  BY <1>4 DEF fmt, at

\* The items of r are those of s, a number and padding.
ItemsGrow(r, s, at, m, t, p) ==
  Gen!FlattenSeq(Items(r, at)) =
    Gen!FlattenSeq(Items(s, at)) \o (Gen!NumberBytes(<< at[m + 1] >>, t) \o Gen!Placeholder(p))

\* A format gets one more value with padding behind it.
LEMMA PackedStep ==
  ASSUME NEW s \in Seq(Characters), NEW t \in BasicTypes, NEW p \in Nat, NEW at,
         Typed(s, at), NEW m \in Nat, ValuesTo(s, Len(s)) = m, << at[m + 1] >> \in Path,
         NEW xs \in Seq({"x"}), Len(xs) = p
  PROVE  LET r == s \o (<< t >> \o xs)
         IN  /\ r \in Seq(Characters) /\ Typed(r, at) /\ ValuesTo(r, Len(r)) = m + 1
             /\ Gen!FlattenSeq(Items(s, at)) \in Seq(CellType)
             /\ ItemsGrow(r, s, at, m, t, p)
<1> DEFINE r == s \o (<< t >> \o xs)
           n == Len(s)
           num == Gen!NumberBytes(<< at[m + 1] >>, t)
           one == Gen!Placeholder(1)
<1>1. t # "x" /\ "x" \in Characters /\ t \in Characters
  BY DEF BasicTypes, IntegerTypes, SignedTypes, UnsignedTypes, Characters
<1>2. /\ r \in Seq(Characters) /\ Len(r) = n + 1 + p /\ n \in Nat
      /\ \A i \in 1..n : r[i] = s[i]
      /\ r[n + 1] = t
      /\ \A i \in (n + 2)..(n + 1 + p) : r[i] = "x"
  <2> DEFINE q == << t >> \o xs
  <2>1. /\ q \in Seq(Characters) /\ Len(q) = 1 + p /\ q[1] = t
        /\ \A i \in 2..(1 + p) : q[i] = "x"
    <3>1. xs \in Seq(Characters) /\ \A i \in 1..p : xs[i] = "x"
      BY <1>1
    <3> QED
      BY <1>1, <3>1
  <2> HIDE DEF q
  <2>2. /\ s \o q \in Seq(Characters) /\ Len(s \o q) = n + (1 + p)
        /\ \A i \in 1..n : (s \o q)[i] = s[i]
        /\ \A i \in 1..(1 + p) : (s \o q)[n + i] = q[i]
    BY <2>1
  <2>3. (s \o q)[n + 1] = t
    BY <2>1, <2>2
  <2>4. \A i \in (n + 2)..(n + 1 + p) : (s \o q)[i] = "x"
    <3> SUFFICES ASSUME NEW i \in (n + 2)..(n + 1 + p) PROVE (s \o q)[i] = "x"
      OBVIOUS
    <3>1. i - n \in 2..(1 + p) /\ n + (i - n) = i
      OBVIOUS
    <3>2. (s \o q)[n + (i - n)] = q[i - n]
      BY <2>2, <3>1
    <3> QED
      BY <2>1, <3>1, <3>2
  <2>5. r = s \o q /\ n \in Nat /\ n + (1 + p) = n + 1 + p
    BY DEF q
  <2> HIDE DEF r, n
  <2> QED
    BY <2>2, <2>3, <2>4, <2>5
<1> HIDE DEF r, n, num, one
<1>3. num \in Seq(CellType) /\ one \in Seq(CellType)
  BY CellsAre DEF num, one
<1> DEFINE V == {j \in 1..n : s[j] # "x"}
<1>4. /\ Cardinality(V) = m /\ IsFiniteSet(V)
  <2>1. Cardinality(V) = m
    BY GenCount DEF ValuesTo, n
  <2>2. IsFiniteSet(1..n)
    BY <1>2, FS_Interval
  <2>3. V \subseteq 1..n
    OBVIOUS
  <2> HIDE DEF V
  <2> QED
    BY <2>1, <2>2, <2>3, FS_Subset
<1>5. \A i \in 1..n : ValuesTo(r, i) = ValuesTo(s, i)
  <2> SUFFICES ASSUME NEW i \in 1..n PROVE ValuesTo(r, i) = ValuesTo(s, i)
    OBVIOUS
  <2>1. {j \in 1..i : r[j] # "x"} = {j \in 1..i : s[j] # "x"}
    BY <1>2
  <2> QED
    BY <2>1 DEF ValuesTo
<1>6. \A i \in (n + 1)..(n + 1 + p) : ValuesTo(r, i) = m + 1
  <2> SUFFICES ASSUME NEW i \in (n + 1)..(n + 1 + p) PROVE ValuesTo(r, i) = m + 1
    OBVIOUS
  <2>1. {j \in 1..i : r[j] # "x"} = V \cup {n + 1}
    <3>1. \A j : j \in 1..i <=> j \in 1..n \/ j = n + 1 \/ j \in (n + 2)..i
      BY <1>2
    <3>2. (n + 2)..i \subseteq (n + 2)..(n + 1 + p)
      BY <1>2
    <3> QED
      BY <1>1, <1>2, <3>1, <3>2
  <2>2. n + 1 \notin V
    BY <1>2
  <2> HIDE DEF V
  <2>3. Cardinality(V \cup {n + 1}) = m + 1
    BY <1>4, <2>2, FS_AddElement
  <2> QED
    BY <2>1, <2>3, GenCount DEF ValuesTo
<1>7. \A i \in 1..n : Item(r, at, i) = Item(s, at, i)
  BY <1>2, <1>5 DEF Item
<1>8. Item(r, at, n + 1) = num
  <2>1. n + 1 \in (n + 1)..(n + 1 + p)
    BY <1>2
  <2> QED
    BY <1>1, <1>2, <1>6, <2>1 DEF Item, num
<1>9. \A i \in (n + 2)..(n + 1 + p) : Item(r, at, i) = one
  BY <1>2 DEF Item, one
<1>10. \A i \in 1..(n + 1 + p) : i \in 1..n \/ i = n + 1 \/ i \in (n + 2)..(n + 1 + p)
  BY <1>2
<1>11. \A i \in 1..n : Item(s, at, i) \in Seq(CellType)
  BY DEF Typed, n
<1>12. Typed(r, at)
  BY <1>2, <1>3, <1>7, <1>8, <1>9, <1>10, <1>11 DEF Typed
<1>13. ValuesTo(r, Len(r)) = m + 1
  <2>1. n + 1 + p \in (n + 1)..(n + 1 + p)
    BY <1>2
  <2> QED
    BY <1>2, <1>6, <2>1
<1> DEFINE a == Items(r, at)
           b == Items(s, at)
           d == [i \in 1..p |-> one]
           e == << num >>
<1>14. /\ b \in Seq(Seq(CellType)) /\ Len(b) = n /\ \A i \in 1..n : b[i] = Item(s, at, i)
  <2>1. b \in [1..n -> Seq(CellType)] /\ \A i \in 1..n : b[i] = Item(s, at, i)
    <3>1. DOMAIN s = 1..n
      BY DEF n
    <3> QED
      BY <1>11, <3>1 DEF Items
  <2> HIDE DEF b
  <2> QED
    BY <1>2, <2>1, SeqIs
<1>15. /\ a \in Seq(Seq(CellType)) /\ Len(a) = n + 1 + p
       /\ \A i \in 1..(n + 1 + p) : a[i] = Item(r, at, i)
  <2>1. /\ a \in [1..(n + 1 + p) -> Seq(CellType)]
        /\ \A i \in 1..(n + 1 + p) : a[i] = Item(r, at, i)
    <3>1. DOMAIN r = 1..(n + 1 + p)
      BY <1>2
    <3> QED
      BY <1>2, <1>12, <3>1 DEF Items, Typed
  <2>2. n + 1 + p \in Nat
    BY <1>2
  <2> HIDE DEF a
  <2> QED
    BY <2>1, <2>2, SeqIs
<1>16. d \in Seq(Seq(CellType)) /\ Gen!FlattenSeq(d) = Gen!Placeholder(p) /\ Len(d) = p
       /\ \A i \in 1..p : d[i] = one
  BY PaddingJoined, SMTT(60) DEF one
<1>17. e \in Seq(Seq(CellType)) /\ Gen!FlattenSeq(e) = num /\ Len(e) = 1 /\ e[1] = num
  BY <1>3, FlattenSmall
<1> HIDE DEF a, b, d, e
<1> DEFINE ed == e \o d
<1>18. /\ ed \in Seq(Seq(CellType)) /\ Len(ed) = 1 + p /\ ed[1] = num
       /\ \A i \in 2..(1 + p) : ed[i] = one
  <2>1. /\ ed \in Seq(Seq(CellType)) /\ Len(ed) = 1 + p /\ ed[1] = e[1]
        /\ \A i \in 1..p : ed[1 + i] = d[i]
    <3>1. /\ ed \in Seq(Seq(CellType)) /\ Len(ed) = Len(e) + Len(d)
          /\ \A i \in 1..Len(e) : ed[i] = e[i]
          /\ \A i \in 1..Len(d) : ed[Len(e) + i] = d[i]
      <4>1. e \in Seq(Seq(CellType)) /\ d \in Seq(Seq(CellType))
        BY <1>16, <1>17
      <4> QED
        BY <4>1, Concatenation
    <3>2. 1 \in 1..Len(e)
      BY <1>17
    <3> HIDE DEF ed
    <3> QED
      BY <1>16, <1>17, <3>1, <3>2
  <2> HIDE DEF ed
  <2>2. \A i \in 2..(1 + p) : i - 1 \in 1..p /\ 1 + (i - 1) = i
    OBVIOUS
  <2> QED
    BY <1>16, <1>17, <2>1, <2>2
<1>19. Gen!FlattenSeq(ed) = num \o Gen!Placeholder(p)
  BY <1>16, <1>17, FlattenJoin
<1> HIDE DEF ed
<1>20. a = b \o ed
  <2>1. \A i \in 1..Len(a) : a[i] = IF i <= Len(b) THEN b[i] ELSE ed[i - Len(b)]
    <3> SUFFICES ASSUME NEW i \in 1..(n + 1 + p)
                 PROVE  a[i] = IF i <= n THEN b[i] ELSE ed[i - n]
      BY <1>14, <1>15
    <3>1. CASE i \in 1..n
      BY <1>7, <1>14, <1>15, <3>1
    <3>2. CASE i = n + 1
      <4>1. i - n = 1 /\ ~(i <= n)
        BY <1>2, <3>2
      <4> QED
        BY <1>8, <1>15, <1>18, <3>2, <4>1
    <3>3. CASE i \in (n + 2)..(n + 1 + p)
      <4>1. i - n \in 2..(1 + p) /\ ~(i <= n)
        BY <1>2, <3>3
      <4> QED
        BY <1>9, <1>15, <1>18, <3>3, <4>1
    <3> QED
      BY <1>10, <3>1, <3>2, <3>3
  <2>2. Len(a) = Len(b) + Len(ed)
    BY <1>2, <1>14, <1>15, <1>18
  <2>3. Joined(a, b, ed)
    BY <2>1, <2>2 DEF Joined
  <2> QED
    BY <1>14, <1>15, <1>18, <2>3, JoinedIs
<1>21. Gen!FlattenSeq(b \o ed) = Gen!FlattenSeq(b) \o Gen!FlattenSeq(ed)
       /\ Gen!FlattenSeq(b) \in Seq(CellType)
  BY <1>14, <1>18, FlattenJoin, FlattenTyped
<1> QED
  BY <1>2, <1>12, <1>13, <1>19, <1>20, <1>21 DEF r, a, b, num, ItemsGrow

\* The fields of a struct or msg, one after the other, and all of it: one
\* without variables is one byte.
FieldTexts(inner, fields) == [k \in 1..Len(fields) |-> FieldBytes(inner, fields[k], k)]

NodeBytes(inner, node) ==
  IF node.fields = <<>> THEN Gen!Placeholder(1)
                        ELSE Gen!FlattenSeq(FieldTexts(inner, node.fields))

\* The structs of all fields are known.
KnowsAll(inner, fields) ==
  fields \in Seq(FieldRecord) /\ \A k \in 1..Len(fields) : Knows(inner, fields[k])

\* They are lists of cells, one for each field.
LEMMA FieldTextsAre ==
  ASSUME NEW inner, NEW fields, KnowsAll(inner, fields)
  PROVE  /\ FieldTexts(inner, fields) \in Seq(Seq(CellType))
         /\ Len(FieldTexts(inner, fields)) = Len(fields)
         /\ \A k \in 1..Len(fields) :
              /\ FieldTexts(inner, fields)[k] = FieldBytes(inner, fields[k], k)
              /\ FieldBytes(inner, fields[k], k) \in Seq(CellType)
<1>1. ASSUME NEW k \in 1..Len(fields) PROVE FieldBytes(inner, fields[k], k) \in Seq(CellType)
  <2>1. fields[k] \in FieldRecord /\ Knows(inner, fields[k]) /\ k \in Nat
    BY DEF KnowsAll
  <2> QED
    BY <2>1, FieldBytesAre
<1> DEFINE t == FieldTexts(inner, fields)
<1>2. /\ t \in [1..Len(fields) -> Seq(CellType)] /\ Len(fields) \in Nat
      /\ \A k \in 1..Len(fields) : t[k] = FieldBytes(inner, fields[k], k)
  <2>1. Len(fields) \in Nat
    BY DEF KnowsAll
  <2> QED
    BY <1>1, <2>1 DEF FieldTexts
<1> HIDE DEF t
<1>3. t \in Seq(Seq(CellType)) /\ Len(t) = Len(fields)
  BY <1>2, SeqIs
<1> QED
  BY <1>1, <1>2, <1>3 DEF t

\* The statements of a group write the fields of the group.
GroupWrites(packers, inner, node, g, s) ==
  /\ Written(packers, inner, s)
  /\ Gen!StructBytes(packers, inner, s) = Span(FieldTexts(inner, node.fields), g.first, g.len)

GroupTexts(F, groups) == [h \in 1..Len(groups) |-> Span(F, groups[h].first, groups[h].len)]

\* The fields of the groups are those of the node, one group after the other.
GroupsCover(inner, node, groups) ==
  /\ (groups = <<>> <=> node.fields = <<>>)
  /\ Gen!FlattenSeq(GroupTexts(FieldTexts(inner, node.fields), groups))
       = Gen!FlattenSeq(FieldTexts(inner, node.fields))

\* The groups of the fields of a node, as the rules of bonding make them.
LEMMA GroupsAre ==
  ASSUME NEW inner, NEW doc, NEW node, NEW rules, KnowsAll(inner, node.fields)
  PROVE  /\ Gen!GroupsOf(doc, node, rules) \in Seq(SoundGroups(Gen!FieldTypes(doc, node), rules))
         /\ GroupsCover(inner, node, Gen!GroupsOf(doc, node, rules))
         /\ Len(Gen!FieldTypes(doc, node)) = Len(node.fields)
         /\ \A k \in 1..Len(node.fields) :
              Gen!FieldTypes(doc, node)[k] = Gen!VarType(doc, node.fields[k])
<1> DEFINE types == Gen!FieldTypes(doc, node)
           n == Len(node.fields)
           T == {types[k] : k \in 1..n}
           F == FieldTexts(inner, node.fields)
<1>1. n \in Nat /\ types = [k \in 1..n |-> Gen!VarType(doc, node.fields[k])]
      /\ (n = 0 <=> node.fields = <<>>)
  BY DEF Gen!FieldTypes, KnowsAll
<1> HIDE DEF types, n
<1>2. types \in Seq(T) /\ Len(types) = n
  BY <1>1
<1>3. F \in Seq(Seq(CellType)) /\ Len(F) = Len(types)
  BY <1>2, FieldTextsAre DEF n
<1> HIDE DEF T, F
<1>4. /\ BondVars(types, rules) \in Seq(SoundGroups(types, rules))
      /\ BondVars(types, rules) = <<>> <=> types = <<>>
      /\ Gen!FlattenSeq([h \in 1..Len(BondVars(types, rules)) |->
           Span(F, BondVars(types, rules)[h].first, BondVars(types, rules)[h].len)])
           = Gen!FlattenSeq(F)
  BY <1>2, <1>3, GroupsJoin
<1>5. Gen!GroupsOf(doc, node, rules) = BondVars(types, rules)
  BY SameBonds DEF Gen!GroupsOf, types
<1>6. types = <<>> <=> node.fields = <<>>
  <2>1. types = <<>> <=> n = 0
    BY <1>1, <1>2
  <2> QED
    BY <1>1, <2>1
<1> QED
  BY <1>1, <1>2, <1>4, <1>5, <1>6 DEF types, F, n, GroupTexts, GroupsCover

\* A function whose groups write their fields writes the whole struct or msg.
LEMMA BodyBytes ==
  ASSUME NEW packers, NEW inner, NEW doc, NEW node, NEW rules, KnowsAll(inner, node.fields),
         NEW pieces, pieces = [i \in DOMAIN Gen!GroupsOf(doc, node, rules) |-> pieces[i]],
         \A i \in DOMAIN Gen!GroupsOf(doc, node, rules) :
           GroupWrites(packers, inner, node, Gen!GroupsOf(doc, node, rules)[i], pieces[i])
  PROVE  /\ Gen!StructBytes(packers, inner, Gen!Body(pieces)) = NodeBytes(inner, node)
         /\ NodeBytes(inner, node) \in Seq(CellType)
<1> DEFINE groups == Gen!GroupsOf(doc, node, rules)
           F == FieldTexts(inner, node.fields)
           m == Len(groups)
           G == SoundGroups(Gen!FieldTypes(doc, node), rules)
<1>1. /\ groups \in Seq(G) /\ (groups = <<>> <=> node.fields = <<>>)
      /\ Gen!FlattenSeq(GroupTexts(F, groups)) = Gen!FlattenSeq(F)
  <2>1. groups \in Seq(G)
    BY GroupsAre
  <2>2. GroupsCover(inner, node, groups)
    BY GroupsAre
  <2> QED
    BY <2>1, <2>2 DEF GroupsCover
<1>2. /\ pieces = [i \in 1..m |-> pieces[i]] /\ m \in Nat /\ (m = 0 <=> groups = <<>>)
      /\ \A i \in 1..m : /\ Written(packers, inner, pieces[i])
                         /\ Gen!StructBytes(packers, inner, pieces[i]) =
                              Span(F, groups[i].first, groups[i].len)
  <2>1. DOMAIN groups = 1..m /\ m \in Nat /\ (m = 0 <=> groups = <<>>)
    <3> HIDE DEF groups, G
    <3> QED
      BY <1>1
  <2> QED
    BY <2>1 DEF GroupWrites
<1>3. F \in Seq(Seq(CellType))
  BY FieldTextsAre
<1> HIDE DEF groups, F, m, G
<1>4. CASE m = 0
  <2> DEFINE gap == [op |-> "gap", at |-> <<>>, arg |-> 1]
  <2>1. pieces = <<>>
    BY <1>2, <1>4
  <2>2. Gen!Body(pieces) = << gap >>
    BY <2>1 DEF Gen!Body, Gen!Gap, Gen!Instr
  <2>3. Gen!InstrBytes(packers, inner, gap) = Gen!Placeholder(1)
    BY DEF Gen!InstrBytes, Gen!ElementBytes
  <2>4. Gen!Placeholder(1) \in Seq(CellType)
    BY CellsAre
  <2> HIDE DEF gap
  <2>5. Gen!StructBytes(packers, inner, << gap >>) = Gen!InstrBytes(packers, inner, gap)
    BY <2>3, <2>4, BytesSmall
  <2> QED
    BY <1>1, <1>2, <1>4, <2>2, <2>3, <2>4, <2>5 DEF NodeBytes
<1>5. CASE m # 0
  <2> DEFINE S == UNION {{pieces[g][i] : i \in 1..Len(pieces[g])} : g \in 1..m}
             texts == Texts(packers, inner, pieces)
  <2>1. ASSUME NEW g \in 1..m PROVE pieces[g] \in Seq(S)
    <3>1. PICK A : pieces[g] \in Seq(A)
      BY <1>2 DEF Written
    <3>2. \A i \in 1..Len(pieces[g]) : pieces[g][i] \in S
      OBVIOUS
    <3> HIDE DEF S
    <3> QED
      BY <3>1, <3>2
  <2> HIDE DEF S
  <2>2. pieces \in Seq(Seq(S)) /\ Len(pieces) = m
    <3>1. pieces \in [1..m -> Seq(S)]
      BY <1>2, <2>1
    <3> QED
      BY <1>2, <3>1, SeqIs
  <2>3. Gen!StructBytes(packers, inner, Gen!FlattenSeq(pieces)) = Gen!FlattenSeq(texts)
    <3>1. AllWritten(packers, inner, pieces)
      BY <1>2, <2>2 DEF AllWritten
    <3> QED
      BY <2>2, <3>1, BytesFlatten
  <2>4. texts = GroupTexts(F, groups)
    BY <1>2, <2>2 DEF GroupTexts, m, Texts
  <2>5. Gen!Body(pieces) = Gen!FlattenSeq(pieces)
    <3>1. pieces # <<>>
      BY <1>5, <2>2
    <3> QED
      BY <3>1 DEF Gen!Body
  <2>6. Gen!FlattenSeq(F) \in Seq(CellType)
    BY <1>3, FlattenTyped
  <2> HIDE DEF texts
  <2> QED
    BY <1>1, <1>2, <1>5, <2>3, <2>4, <2>5, <2>6 DEF NodeBytes, F
<1> QED
  BY <1>4, <1>5

-----------------------------------------------------------------------------
(* C#: one call for each variable *)

\* A type is a number, a text or a struct.
LEMMA ElementKinds ==
  ASSUME NEW doc, NEW f
  PROVE  LET t == Gen!VarType(doc, f)
         IN  /\ t[1] = IF ~f.array.is_array THEN "single"
                       ELSE IF f.array.is_static_array THEN "static" ELSE "dynamic"
             /\ t[2] = IF f.type.full = "string" THEN "string"
                       ELSE IF f.type.full \in BasicTypes THEN "primitive"
                       ELSE IF Gen!NodeOf(doc, f.type.type).modifier.is_narrow THEN "narrow"
                       ELSE "natural"
             /\ t = << t[1], t[2] >>
BY SameTypes DEF Gen!VarType

\* The statements of a variable that is alone.
LEMMA AloneWrites ==
  ASSUME NEW packers, NEW inner, NEW node, KnowsAll(inner, node.fields),
         NEW g, g.first \in 1..Len(node.fields), g.len = 1,
         NEW s, Written(packers, inner, s),
         Gen!StructBytes(packers, inner, s) =
           FieldBytes(inner, node.fields[g.first], g.first)
  PROVE  GroupWrites(packers, inner, node, g, s)
<1> DEFINE F == FieldTexts(inner, node.fields)
           i == g.first
<1>1. F \in Seq(Seq(CellType)) /\ i \in 1..Len(F) /\ F[i] = FieldBytes(inner, node.fields[i], i)
  BY FieldTextsAre
<1> HIDE DEF F, i
<1>2. Span(F, i, 1) = F[i]
  BY <1>1, SpanSmall
<1> QED
  BY <1>1, <1>2 DEF GroupWrites, F, i

\* A C# function writes the struct or msg.
LEMMA CsWrites ==
  ASSUME NEW packers, NEW inner, NEW doc, NEW node, KnowsAll(inner, node.fields)
  PROVE  /\ Gen!StructBytes(packers, inner, Gen!CsSerialize(doc, node)) = NodeBytes(inner, node)
         /\ Gen!StructBytes(packers, inner, Gen!CsDeserialize(doc, node)) = NodeBytes(inner, node)
<1> DEFINE groups == Gen!GroupsOf(doc, node, Gen!NoBond)
           types == Gen!FieldTypes(doc, node)
           pieces == [i \in DOMAIN groups |-> Gen!CsGroupInstr(node, groups[i])]
<1>1. groups \in Seq(SoundGroups(types, {})) /\ Len(types) = Len(node.fields)
  BY GroupsAre DEF Gen!NoBond
<1>2. ASSUME NEW i \in DOMAIN groups
      PROVE  GroupWrites(packers, inner, node, groups[i], Gen!CsGroupInstr(node, groups[i]))
  <2> DEFINE g == groups[i]
             f == node.fields[g.first]
             elem == IF f.type.full \notin Gen!BasicTypes \ {"string"} THEN Gen!TextOrNested(f)
                     ELSE IF f.array.is_array THEN Gen!NumberOf(f, "tuple")
                     ELSE Gen!NumberOf(f, "number")
             s == Gen!Spread(f, g.first, elem) \o Gen!PadInstr(f)
  <2>1. g \in SoundGroups(types, {})
    <3> HIDE DEF groups
    <3> QED
      BY <1>1, <1>2
  <2>2. g.first \in 1..Len(node.fields) /\ g.len = 1
    <3> HIDE DEF g, types
    <3>1. /\ g.first \in 1..Len(types) /\ g.len \in 1..Len(types)
          /\ g.is_bonded => \A j \in g.first..(g.first + g.len - 1) : FALSE
          /\ ~g.is_bonded => g.len = 1
      BY <2>1 DEF SoundGroups
    <3>2. g.first \in g.first..(g.first + g.len - 1)
      BY <3>1
    <3> QED
      BY <1>1, <3>1, <3>2
  <2>3. f \in FieldRecord /\ Knows(inner, f) /\ g.first \in Nat
    BY <2>2 DEF KnowsAll
  <2>4. Copies(packers, inner, elem, f)
    <3> HIDE DEF f
    <3>1. CASE f.type.full \notin BasicTypes \ {"string"}
      BY <3>1, SameTypes, TextOrNestedCopies
    <3>2. CASE f.type.full \in BasicTypes \ {"string"}
      <4>1. Copies(packers, inner, Gen!NumberOf(f, "tuple"), f)
            /\ Copies(packers, inner, Gen!NumberOf(f, "number"), f)
        BY <3>2, NumberCopies
      <4> QED
        BY <3>2, <4>1, SameTypes
    <3> QED
      BY <3>1, <3>2
  <2>5. Gen!CsGroupInstr(node, g) = s
    BY DEF Gen!CsGroupInstr
  <2> HIDE DEF g, f, elem
  <2>6. Written(packers, inner, s) /\ Gen!StructBytes(packers, inner, s) = FieldBytes(inner, f, g.first)
    BY <2>3, <2>4, SpreadBytes
  <2> HIDE DEF s
  <2>7. GroupWrites(packers, inner, node, g, s)
    BY <2>2, <2>6, AloneWrites DEF f
  <2> QED
    BY <2>5, <2>7 DEF g
<1>3. /\ pieces = [i \in DOMAIN groups |-> pieces[i]]
      /\ \A i \in DOMAIN groups : GroupWrites(packers, inner, node, groups[i], pieces[i])
  BY <1>2
<1>4. Gen!CsSerialize(doc, node) = Gen!Body(pieces) /\ Gen!CsDeserialize(doc, node) = Gen!Body(pieces)
  BY DEF Gen!CsSerialize, Gen!CsDeserialize
<1> HIDE DEF pieces
<1>5. Gen!StructBytes(packers, inner, Gen!Body(pieces)) = NodeBytes(inner, node)
  BY <1>3, BodyBytes
<1> QED
  BY <1>4, <1>5

-----------------------------------------------------------------------------
(* Python: the packers, and a call for each other variable *)

\* The padding behind a field in a format.
PadFmt(f) == IF f.align.use_align THEN [i \in 1..f.align.padding_size |-> "x"] ELSE <<>>

\* Both say the same number of padding bytes.
LEMMA PadFmtIs ==
  ASSUME NEW f \in FieldRecord
  PROVE  /\ PaddingOf(f) \in Nat /\ PadBytes(f) = Gen!Placeholder(PaddingOf(f))
         /\ PadFmt(f) \in Seq({"x"}) /\ Len(PadFmt(f)) = PaddingOf(f)
<1> DEFINE p == f.align.padding_size
<1>1. p \in Nat
  BY FieldNumbers
<1> HIDE DEF p
<1> DEFINE xs == [i \in 1..p |-> "x"]
<1>2. xs \in Seq({"x"}) /\ Len(xs) = p
  BY <1>1
<1>3. <<>> \in Seq({"x"}) /\ Len(<<>>) = 0
  OBVIOUS
<1>4. Gen!Placeholder(0) = <<>>
  BY DEF Gen!Placeholder
<1>5. PadFmt(f) = IF f.align.use_align THEN xs ELSE <<>>
  BY DEF PadFmt, p
<1>6. PaddingOf(f) = IF f.align.use_align THEN p ELSE 0
  BY DEF PaddingOf, p
<1>7. PadBytes(f) = IF f.align.use_align THEN Gen!Placeholder(p) ELSE <<>>
  BY DEF PadBytes, p
<1> HIDE DEF xs
<1>8. CASE f.align.use_align
  BY <1>1, <1>2, <1>5, <1>6, <1>7, <1>8
<1>9. CASE ~f.align.use_align
  BY <1>3, <1>4, <1>5, <1>6, <1>7, <1>9
<1> QED
  BY <1>8, <1>9

\* A single number with its padding.
LEMMA NumberField ==
  ASSUME NEW inner, NEW f \in FieldRecord, NEW k \in Nat,
         ~f.array.is_array, f.type.full \in BasicTypes \ {"string"}
  PROVE  /\ FieldBytes(inner, f, k) =
              Gen!NumberBytes(<< <<k, 0>> >>, f.type.full) \o Gen!Placeholder(PaddingOf(f))
         /\ << <<k, 0>> >> \in Path
<1>1. One(inner, f, << <<k, 0>> >>) = Gen!NumberBytes(<< <<k, 0>> >>, f.type.full)
  BY DEF One
<1>2. << <<k, 0>> >> \in Path
  BY DEF Path
<1> QED
  BY <1>1, <1>2, PadFmtIs DEF FieldBytes

\* The group is one of single numbers.
SingleNumbers(fields, g) ==
  /\ g.is_bonded /\ g.first \in 1..Len(fields) /\ g.len \in 1..Len(fields)
  /\ \A j \in 1..g.len : /\ g.first + j - 1 \in 1..Len(fields)
                         /\ ~fields[g.first + j - 1].array.is_array
                         /\ fields[g.first + j - 1].type.full \in BasicTypes \ {"string"}

\* The packer of bonded variables writes them with their padding.
LEMMA PackedFields ==
  ASSUME NEW inner, NEW node, KnowsAll(inner, node.fields),
         NEW g, SingleNumbers(node.fields, g)
  PROVE  Gen!FlattenSeq(Items(Gen!PackFmt(node, g), Gen!PackedPlaces(node, g))) =
           Span(FieldTexts(inner, node.fields), g.first, g.len)
<1> DEFINE l == Len(node.fields)
           n == g.len
           i0 == g.first
           F == FieldTexts(inner, node.fields)
           k(j) == g.first + j - 1
           f(j) == node.fields[k(j)]
           piece(j) == << f(j).type.full >> \o PadFmt(f(j))
           pieces == [j \in 1..n |-> piece(j)]
           at == [j \in 1..n |-> <<k(j), 0>>]
<1>1. l \in Nat /\ i0 \in 1..l /\ n \in 1..l
  BY DEF KnowsAll, SingleNumbers
<1>2. ASSUME NEW j \in 1..n
      PROVE  /\ k(j) \in 1..l /\ k(j) \in Nat /\ f(j) \in FieldRecord
             /\ f(j).type.full \in BasicTypes /\ PaddingOf(f(j)) \in Nat
             /\ PadFmt(f(j)) \in Seq({"x"}) /\ Len(PadFmt(f(j))) = PaddingOf(f(j))
             /\ piece(j) \in Seq(Characters)
             /\ << <<k(j), 0>> >> \in Path
             /\ FieldBytes(inner, f(j), k(j)) =
                  Gen!NumberBytes(<< <<k(j), 0>> >>, f(j).type.full) \o Gen!Placeholder(PaddingOf(f(j)))
  <2>1. /\ k(j) \in 1..l /\ ~f(j).array.is_array /\ f(j).type.full \in BasicTypes \ {"string"}
    BY DEF SingleNumbers
  <2>2. f(j) \in FieldRecord /\ k(j) \in Nat
    <3> HIDE DEF k
    <3> QED
      BY <1>1, <2>1 DEF KnowsAll
  <2> HIDE DEF k, f
  <2>3. /\ PaddingOf(f(j)) \in Nat /\ PadFmt(f(j)) \in Seq({"x"}) /\ Len(PadFmt(f(j))) = PaddingOf(f(j))
    BY <2>2, PadFmtIs
  <2>4. piece(j) \in Seq(Characters)
    <3>1. PadFmt(f(j)) \in Seq(Characters) /\ << f(j).type.full >> \in Seq(Characters)
      BY <2>1, <2>3 DEF Characters
    <3> QED
      BY <3>1
  <2>5. /\ << <<k(j), 0>> >> \in Path
        /\ FieldBytes(inner, f(j), k(j)) =
             Gen!NumberBytes(<< <<k(j), 0>> >>, f(j).type.full) \o Gen!Placeholder(PaddingOf(f(j)))
    BY <2>1, <2>2, NumberField
  <2> QED
    BY <2>1, <2>2, <2>3, <2>4, <2>5
<1>3. F \in Seq(Seq(CellType)) /\ Len(F) = l
      /\ \A i \in 1..l : F[i] = FieldBytes(inner, node.fields[i], i)
  BY FieldTextsAre
<1>4. Gen!PackFmt(node, g) = Gen!FlattenSeq(pieces)
  BY DEF Gen!PackFmt, PadFmt
<1>5. Gen!PackedPlaces(node, g) = at
  BY DEF Gen!PackedPlaces, SingleNumbers
<1> HIDE DEF F, l, n, i0
<1>6. pieces \in Seq(Seq(Characters)) /\ Len(pieces) = n /\ \A j \in 1..n : pieces[j] = piece(j)
  <2>1. pieces \in [1..n -> Seq(Characters)] /\ \A j \in 1..n : pieces[j] = piece(j)
    BY <1>2
  <2> HIDE DEF pieces, piece
  <2> QED
    BY <1>1, <2>1, SeqIs
<1>7. \A j \in 1..n : at[j] = <<k(j), 0>>
  OBVIOUS
<1> HIDE DEF pieces, at
<1>8. PICK u \in [0..n -> Seq(Characters)] :
        /\ u[0] = <<>> /\ Gen!FlattenSeq(pieces) = u[n]
        /\ \A j \in 1..n : u[j] = u[j - 1] \o pieces[j]
  <2>1. PICK u \in [0..Len(pieces) -> Seq(Characters)] :
          /\ u[0] = <<>> /\ Gen!FlattenSeq(pieces) = u[Len(pieces)]
          /\ \A j \in 1..Len(pieces) : u[j] = u[j - 1] \o pieces[j]
    <3>1. pieces \in Seq(Seq(Characters))
      BY <1>6
    <3> HIDE DEF k, f, piece
    <3> QED
      BY <3>1, FlattenRecursion
  <2> QED
    BY <1>6, <2>1
<1> DEFINE Done == {j \in 0..n : /\ Typed(u[j], at) /\ ValuesTo(u[j], Len(u[j])) = j
                                 /\ Gen!FlattenSeq(Items(u[j], at)) = Span(F, i0, j)}
<1>9. 0 \in Done
  <2>1. Typed(<<>>, at)
    BY DEF Typed
  <2>2. ValuesTo(<<>>, Len(<<>>)) = 0
    <3>1. {j \in 1..Len(<<>>) : <<>>[j] # "x"} = {}
      OBVIOUS
    <3> QED
      BY <3>1, GenCount, FS_EmptySet DEF ValuesTo
  <2>3. Gen!FlattenSeq(Items(<<>>, at)) = <<>>
    <3>1. Items(<<>>, at) = <<>>
      BY DEF Items
    <3>2. <<>> \in Seq(Nat)
      OBVIOUS
    <3> QED
      BY <3>1, <3>2, FlattenSmall
  <2>4. Span(F, i0, 0) = <<>>
    BY <1>1, <1>3, SpanSmall
  <2> QED
    BY <1>1, <1>8, <2>1, <2>2, <2>3, <2>4
<1>10. ASSUME NEW j \in 1..n, j - 1 \in Done PROVE j \in Done
  <2> DEFINE s == u[j - 1]
             t == f(j).type.full
             xs == PadFmt(f(j))
             p == PaddingOf(f(j))
             m == j - 1
  <2>1. /\ Typed(s, at) /\ ValuesTo(s, Len(s)) = m /\ m \in Nat /\ m \in 0..n /\ j \in 0..n
        /\ Gen!FlattenSeq(Items(s, at)) = Span(F, i0, m) /\ j = m + 1
    BY <1>1, <1>10
  <2>2. s \in Seq(Characters) /\ u[j] = s \o (<< t >> \o xs)
    <3>1. u[j] = u[j - 1] \o piece(j)
      BY <1>6, <1>8
    <3> QED
      BY <1>8, <2>1, <3>1
  <2>3. at[m + 1] = <<k(j), 0>> /\ << at[m + 1] >> \in Path
    BY <1>2, <1>7, <2>1
  <2>4. xs \in Seq({"x"}) /\ Len(xs) = p /\ p \in Nat /\ t \in BasicTypes
    BY <1>2
  <2>5. F[k(j)] = Gen!NumberBytes(<< at[m + 1] >>, t) \o Gen!Placeholder(p)
    <3>1. k(j) \in 1..l
      BY <1>2
    <3>2. F[k(j)] = FieldBytes(inner, f(j), k(j))
      BY <1>3, <3>1
    <3>3. FieldBytes(inner, f(j), k(j)) =
            Gen!NumberBytes(<< <<k(j), 0>> >>, t) \o Gen!Placeholder(p)
      BY <1>2
    <3> QED
      BY <2>3, <3>2, <3>3
  <2>6. Span(F, i0, j) = Span(F, i0, m) \o F[k(j)]
    <3>1. i0 \in 1..Len(F) + 1 /\ i0 + m + 1 <= Len(F) + 1
      <4>1. k(j) \in 1..l
        BY <1>2
      <4> QED
        BY <1>1, <1>3, <2>1, <4>1 DEF i0
    <3>2. Span(F, i0, m + 1) = Span(F, i0, m) \o Span(F, i0 + m, 1)
      <4>1. m \in Nat /\ 1 \in Nat /\ F \in Seq(Seq(CellType))
        BY <1>3, <2>1
      <4> HIDE DEF m
      <4> QED
        BY <3>1, <4>1, SpanJoin
    <3>3. i0 + m = k(j) /\ k(j) \in 1..Len(F)
      BY <1>1, <1>2, <1>3 DEF i0
    <3>4. Span(F, i0 + m, 1) = F[k(j)]
      BY <1>3, <3>3, SpanSmall
    <3> QED
      BY <2>1, <3>2, <3>4
  <2> HIDE DEF s, t, xs, p, m, k, Done
  <2>7. /\ Typed(u[j], at) /\ ValuesTo(u[j], Len(u[j])) = m + 1
        /\ Gen!FlattenSeq(Items(u[j], at)) =
             Gen!FlattenSeq(Items(s, at)) \o
               (Gen!NumberBytes(<< at[m + 1] >>, t) \o Gen!Placeholder(p))
    <3> DEFINE r == s \o (<< t >> \o xs)
    <3>1. /\ Typed(r, at) /\ ValuesTo(r, Len(r)) = m + 1
          /\ Gen!FlattenSeq(Items(r, at)) =
               Gen!FlattenSeq(Items(s, at)) \o
                 (Gen!NumberBytes(<< at[m + 1] >>, t) \o Gen!Placeholder(p))
      <4>1. /\ s \in Seq(Characters) /\ t \in BasicTypes /\ p \in Nat /\ Typed(s, at) /\ m \in Nat
            /\ ValuesTo(s, Len(s)) = m /\ << at[m + 1] >> \in Path
            /\ xs \in Seq({"x"}) /\ Len(xs) = p
        BY <2>1, <2>2, <2>3, <2>4
      <4> HIDE DEF f, piece
      <4>2. Typed(r, at) /\ ValuesTo(r, Len(r)) = m + 1
        BY <4>1, PackedStep
      <4>3. Gen!FlattenSeq(Items(r, at)) =
               Gen!FlattenSeq(Items(s, at)) \o
                 (Gen!NumberBytes(<< at[m + 1] >>, t) \o Gen!Placeholder(p))
        <5>1. ItemsGrow(r, s, at, m, t, p)
          BY <4>1, PackedStep
        <5> QED
          BY <5>1 DEF ItemsGrow
      <4> QED
        BY <4>2, <4>3
    <3>2. u[j] = r
      BY <2>2
    <3> HIDE DEF r
    <3> QED
      BY <3>1, <3>2
  <2>8. Gen!FlattenSeq(Items(u[j], at)) = Span(F, i0, j)
    BY <2>1, <2>5, <2>6, <2>7
  <2> QED
    BY <2>1, <2>7, <2>8 DEF Done
<1> HIDE DEF Done
<1>11. 0..n \subseteq Done
  <2>1. n \in Nat
    BY <1>1
  <2> QED
    BY <1>9, <1>10, <2>1, SegmentInduction
<1>12. Gen!FlattenSeq(Items(u[n], at)) = Span(F, i0, n)
  <2>1. n \in Done
    BY <1>1, <1>11
  <2> QED
    BY <2>1 DEF Done
<1> QED
  BY <1>4, <1>5, <1>8, <1>12 DEF F, i0, n

\* The types the fields are bonded by.
LEMMA FieldTypesAre ==
  ASSUME NEW doc, NEW node, NEW A, node.fields \in Seq(A)
  PROVE  /\ Len(node.fields) \in Nat /\ Len(Gen!FieldTypes(doc, node)) = Len(node.fields)
         /\ \A k \in 1..Len(node.fields) :
              Gen!FieldTypes(doc, node)[k] = Gen!VarType(doc, node.fields[k])
<1> DEFINE types == Gen!FieldTypes(doc, node)
           n == Len(node.fields)
           T == {types[k] : k \in 1..n}
<1>1. n \in Nat /\ types = [k \in 1..n |-> Gen!VarType(doc, node.fields[k])]
  BY DEF Gen!FieldTypes
<1> HIDE DEF types, n
<1>2. types \in Seq(T) /\ Len(types) = n
  BY <1>1
<1> QED
  BY <1>1, <1>2 DEF types, n

\* A group of Python's bonding is alone or single numbers.
LEMMA PyGroupKinds ==
  ASSUME NEW doc, NEW node, node.fields \in Seq(FieldRecord),
         NEW g \in SoundGroups(Gen!FieldTypes(doc, node), Gen!PyBond)
  PROVE  /\ g.is_bonded \in BOOLEAN /\ g.first \in 1..Len(node.fields)
         /\ g.is_bonded => SingleNumbers(node.fields, g)
         /\ ~g.is_bonded => g.len = 1
<1> DEFINE types == Gen!FieldTypes(doc, node)
           l == Len(node.fields)
<1>1. l \in Nat /\ Len(types) = l /\ \A k \in 1..l : types[k] = Gen!VarType(doc, node.fields[k])
  BY FieldTypesAre
<1> HIDE DEF types, l
<1>2. /\ g.is_bonded \in BOOLEAN /\ g.first \in 1..l /\ g.len \in 1..l
      /\ g.first + g.len <= l + 1
      /\ g.is_bonded => \A j \in g.first..(g.first + g.len - 1) : types[j] \in Gen!PyBond
      /\ ~g.is_bonded => g.len = 1
  BY <1>1 DEF SoundGroups, types
<1>3. ASSUME g.is_bonded, NEW j \in 1..g.len
      PROVE  /\ g.first + j - 1 \in 1..l
             /\ ~node.fields[g.first + j - 1].array.is_array
             /\ node.fields[g.first + j - 1].type.full \in BasicTypes \ {"string"}
  <2> DEFINE k == g.first + j - 1
             f == node.fields[k]
  <2>1. k \in g.first..(g.first + g.len - 1) /\ k \in 1..l
    BY <1>1, <1>2
  <2> HIDE DEF k
  <2>2. Gen!VarType(doc, f) = <<"single", "primitive">>
    BY <1>1, <1>2, <1>3, <2>1 DEF Gen!PyBond
  <2> HIDE DEF f
  <2>3. Gen!VarType(doc, f)[1] = "single" /\ Gen!VarType(doc, f)[2] = "primitive"
    BY <2>2
  <2>4. ~f.array.is_array
    BY <2>3, ElementKinds
  <2>5. f.type.full # "string"
    BY <2>3, ElementKinds
  <2>6. f.type.full \in BasicTypes
    BY <2>2, PrimitiveIsNumber
  <2> QED
    BY <2>1, <2>4, <2>5, <2>6 DEF k, f
<1>4. g.is_bonded => SingleNumbers(node.fields, g)
  <2> HIDE <1>3
  <2>1. ASSUME g.is_bonded PROVE SingleNumbers(node.fields, g)
    BY <1>2, <1>3, <2>1 DEF SingleNumbers, l
  <2> QED
    BY <2>1
<1> QED
  BY <1>2, <1>4 DEF l

\* A packed array of numbers.
LEMMA PackedArray ==
  ASSUME NEW inner, NEW node, NEW g, ~g.is_bonded, g.first \in Nat,
         node.fields[g.first] \in FieldRecord,
         node.fields[g.first].type.full \in BasicTypes \ {"string"}
  PROVE  Items(Gen!PackerFmt(node, g), Gen!PackedPlaces(node, g)) =
           Ones(inner, node.fields[g.first], g.first)
<1> DEFINE f == node.fields[g.first]
           n == f.array.static_array_len
           t == f.type.full
           k == g.first
<1>1. n \in Nat /\ t \in BasicTypes /\ k \in Nat
  BY FieldNumbers
<1>2. Gen!PackerFmt(node, g) = [i \in 1..n |-> t]
  BY DEF Gen!PackerFmt
<1>3. Gen!PackedPlaces(node, g) = [i \in 1..n |-> <<k, i>>]
  BY DEF Gen!PackedPlaces
<1>4. Ones(inner, f, k) = [i \in 1..n |-> Gen!NumberBytes(<< <<k, i>> >>, t)]
  BY DEF Ones, One
<1> HIDE DEF n, t, k
<1>5. Items([i \in 1..n |-> t], [i \in 1..n |-> <<k, i>>]) =
        [i \in 1..n |-> Gen!NumberBytes(<< <<k, i>> >>, t)]
  BY <1>1, ArrayItems
<1> QED
  BY <1>2, <1>3, <1>4, <1>5 DEF k

\* The statements of a group write its fields, when the class has its packer
\* at the index they give.
LEMMA PyGroupWrites ==
  ASSUME NEW packers, NEW inner, NEW doc, NEW node, KnowsAll(inner, node.fields),
         NEW g \in SoundGroups(Gen!FieldTypes(doc, node), Gen!PyBond),
         NEW groups, NEW i, groups[i] = g, NEW index,
         Gen!UsesPacker(doc, node, g) => packers[index + 1] = Gen!PackerFmt(node, g)
  PROVE  GroupWrites(packers, inner, node, g, Gen!PyGroupInstr(doc, node, groups, i, index))
<1> DEFINE f == node.fields[g.first]
           F == FieldTexts(inner, node.fields)
           packed == Gen!Packed(node, g, index)
           s == Gen!PyGroupInstr(doc, node, groups, i, index)
<1>1. /\ g.is_bonded \in BOOLEAN /\ g.first \in 1..Len(node.fields) /\ g.first \in Nat
      /\ (g.is_bonded => SingleNumbers(node.fields, g)) /\ (~g.is_bonded => g.len = 1)
  <2>1. node.fields \in Seq(FieldRecord)
    BY DEF KnowsAll
  <2>2. g.is_bonded \in BOOLEAN /\ g.first \in 1..Len(node.fields)
    BY <2>1, PyGroupKinds
  <2>3. g.is_bonded => SingleNumbers(node.fields, g)
    BY <2>1, PyGroupKinds
  <2>4. ~g.is_bonded => g.len = 1
    BY <2>1, PyGroupKinds
  <2> QED
    BY <2>2, <2>3, <2>4
<1>2. f \in FieldRecord /\ Knows(inner, f)
  BY <1>1 DEF KnowsAll
<1>3. s = IF g.is_bonded THEN << packed >>
          ELSE IF Gen!UsesPacker(doc, node, g) THEN << packed >> \o Gen!PadInstr(f)
          ELSE Gen!Spread(f, g.first, IF f.type.full \in Gen!BasicTypes \ {"string"}
                                        THEN Gen!NumberOf(f, "number") ELSE Gen!TextOrNested(f))
               \o Gen!PadInstr(f)
  BY DEF Gen!PyGroupInstr, Gen!UsesPacker
<1>4. Gen!InstrBytes(packers, inner, packed) =
        Gen!FlattenSeq(Items(packers[index + 1], Gen!PackedPlaces(node, g)))
  BY PackedIs
<1> HIDE DEF packed, s
<1>5. CASE g.is_bonded
  <2>1. SingleNumbers(node.fields, g) /\ Gen!UsesPacker(doc, node, g) /\ s = << packed >>
    BY <1>1, <1>3, <1>5 DEF Gen!UsesPacker
  <2>2. packers[index + 1] = Gen!PackFmt(node, g)
    BY <1>5, <2>1 DEF Gen!PackerFmt
  <2>3. Gen!InstrBytes(packers, inner, packed) = Span(F, g.first, g.len)
    BY <1>4, <2>1, <2>2, PackedFields
  <2>4. Span(F, g.first, g.len) \in Seq(CellType)
    <3>1. F \in Seq(Seq(CellType)) /\ Len(F) = Len(node.fields) /\ Len(F) \in Nat
      BY FieldTextsAre DEF KnowsAll
    <3> HIDE DEF F
    <3>2. g.first + g.len + 0 <= Len(F) + 1 /\ g.first \in 1..Len(F) + 1 /\ g.len \in Nat
      <4>1. g.len \in 1..Len(F) /\ g.first \in 1..Len(F) /\ g.first + g.len - 1 \in 1..Len(F)
        <5>1. g.len \in 1..Len(F) /\ g.first \in 1..Len(F)
          BY <2>1, <3>1 DEF SingleNumbers
        <5>2. g.len \in 1..g.len
          BY <5>1
        <5> QED
          BY <2>1, <3>1, <5>1, <5>2 DEF SingleNumbers
      <4> QED
        BY <3>1, <4>1, SMTT(60)
    <3> QED
      BY <3>1, <3>2, SpanJoin
  <2>5. Written(packers, inner, << packed >>)
        /\ Gen!StructBytes(packers, inner, << packed >>) = Gen!InstrBytes(packers, inner, packed)
    BY <2>3, <2>4, BytesSmall
  <2> QED
    BY <2>1, <2>3, <2>5 DEF GroupWrites, s
<1>6. CASE ~g.is_bonded /\ Gen!UsesPacker(doc, node, g)
  <2>1. Gen!VarType(doc, f) = <<"static", "primitive">>
    BY <1>6 DEF Gen!UsesPacker, Gen!StaticPrimitive
  <2>2. f.array.is_array /\ f.array.is_static_array /\ f.type.full \in BasicTypes \ {"string"}
    <3> HIDE DEF f
    <3>1. Gen!VarType(doc, f)[1] = "static" /\ Gen!VarType(doc, f)[2] = "primitive"
      BY <2>1
    <3>2. f.array.is_array /\ f.array.is_static_array
      BY <3>1, ElementKinds
    <3>3. f.type.full # "string"
      BY <3>1, ElementKinds
    <3>4. f.type.full \in BasicTypes
      BY <2>1, PrimitiveIsNumber
    <3> QED
      BY <3>2, <3>3, <3>4
  <2>3. Gen!InstrBytes(packers, inner, packed) = Gen!FlattenSeq(Ones(inner, f, g.first))
    <3>1. Items(Gen!PackerFmt(node, g), Gen!PackedPlaces(node, g)) = Ones(inner, f, g.first)
      BY <1>1, <1>2, <1>6, <2>2, PackedArray, ZenonT(60)
    <3> QED
      BY <1>4, <1>6, <3>1
  <2>4. Gen!FlattenSeq(Ones(inner, f, g.first)) \in Seq(CellType)
    <3>1. f.array.static_array_len \in Nat
      BY <1>2, FieldNumbers
    <3> QED
      BY <1>1, <1>2, <3>1, OnesAre
  <2>5. Written(packers, inner, << packed >>)
        /\ Gen!StructBytes(packers, inner, << packed >>) = Gen!FlattenSeq(Ones(inner, f, g.first))
    BY <2>3, <2>4, BytesSmall
  <2>6. Written(packers, inner, Gen!PadInstr(f))
        /\ Gen!StructBytes(packers, inner, Gen!PadInstr(f)) = PadBytes(f)
    BY <1>2, PadInstrBytes
  <2>7. s = << packed >> \o Gen!PadInstr(f)
    BY <1>3, <1>6
  <2>8. FieldBytes(inner, f, g.first) = Gen!FlattenSeq(Ones(inner, f, g.first)) \o PadBytes(f)
    BY <2>2 DEF FieldBytes
  <2>9. /\ Written(packers, inner, s)
        /\ Gen!StructBytes(packers, inner, s) =
             Gen!FlattenSeq(Ones(inner, f, g.first)) \o PadBytes(f)
    <3> HIDE DEF f
    <3> QED
      BY <2>5, <2>6, <2>7, BytesJoin, SMTT(60)
  <2>10. /\ Written(packers, inner, s)
         /\ Gen!StructBytes(packers, inner, s) = FieldBytes(inner, f, g.first)
    BY <2>8, <2>9
  <2>11. g.len = 1
    BY <1>1, <1>6
  <2>12. GroupWrites(packers, inner, node, g, s)
    BY <1>1, <2>10, <2>11, AloneWrites
  <2> QED
    BY <2>12 DEF s
<1>7. CASE ~g.is_bonded /\ ~Gen!UsesPacker(doc, node, g)
  <2> DEFINE elem == IF f.type.full \in BasicTypes \ {"string"}
                       THEN Gen!NumberOf(f, "number") ELSE Gen!TextOrNested(f)
  <2>1. Copies(packers, inner, elem, f)
    <3> HIDE DEF f
    <3>1. CASE f.type.full \notin BasicTypes \ {"string"}
      BY <3>1, TextOrNestedCopies
    <3>2. CASE f.type.full \in BasicTypes \ {"string"}
      BY <3>2, NumberCopies
    <3> QED
      BY <3>1, <3>2
  <2>2. s = Gen!Spread(f, g.first, elem) \o Gen!PadInstr(f)
    BY <1>3, <1>7, SameTypes
  <2>3. /\ Written(packers, inner, s)
        /\ Gen!StructBytes(packers, inner, s) = FieldBytes(inner, f, g.first)
    <3> HIDE DEF elem, f
    <3> QED
      BY <1>1, <1>2, <2>1, <2>2, SpreadBytes
  <2>4. g.len = 1
    BY <1>1, <1>7
  <2>5. GroupWrites(packers, inner, node, g, s)
    BY <1>1, <2>3, <2>4, AloneWrites
  <2> QED
    BY <2>5 DEF s
<1> QED
  BY <1>1, <1>5, <1>6, <1>7

\* A Python function writes the struct or msg, with the packers of its class.
LEMMA PyWrites ==
  ASSUME NEW inner, NEW doc, NEW node, KnowsAll(inner, node.fields)
  PROVE  LET packers == Gen!StructPacker(doc, node)
         IN  /\ Gen!StructBytes(packers, inner, Gen!PySerialize(doc, node)) = NodeBytes(inner, node)
             /\ Gen!StructBytes(packers, inner, Gen!PyDeserialize(doc, node)) = NodeBytes(inner, node)
<1> DEFINE packers == Gen!StructPacker(doc, node)
           groups == Gen!GroupsOf(doc, node, Gen!PyBond)
           m == Len(groups)
           U == PackerGroups(doc, node)
           G == SoundGroups(Gen!FieldTypes(doc, node), Gen!PyBond)
           Piece(i) == Gen!PyGroupInstr(doc, node, groups, i,
                                        Gen!PresetStructIndex(doc, node, groups, i))
           pieces == [i \in DOMAIN groups |-> Piece(i)]
<1>1. groups \in Seq(G)
  BY GroupsAre
<1>2. Gen!PyGroups(doc, node) = groups
  BY DEF Gen!PyGroups
<1>3. /\ m \in Nat /\ DOMAIN groups = 1..m /\ \A i \in 1..m : groups[i] \in G
      /\ U \in SUBSET (1..m)
      /\ \A i \in 1..m : i \in U <=> Gen!UsesPacker(doc, node, groups[i])
  <2>1. m \in Nat /\ DOMAIN groups = 1..m /\ \A i \in 1..m : groups[i] \in G
    <3> HIDE DEF groups, G
    <3> QED
      BY <1>1
  <2>2. U = {i \in 1..m : Gen!UsesPacker(doc, node, groups[i])}
    BY <1>2 DEF PackerGroups
  <2> HIDE DEF groups, m, U
  <2> QED
    BY <2>1, <2>2
<1>4. \A i \in U : packers[Before(U, i) + 1] = Gen!PackerFmt(node, groups[i])
  <2>1. Gen!PyGroups(doc, node) \in Seq(G)
    BY <1>1, <1>2
  <2>2. \A i \in U : packers[Before(U, i) + 1] = Gen!PackerFmt(node, Gen!PyGroups(doc, node)[i])
    <3> HIDE DEF G, packers, U
    <3> QED
      BY <2>1, StructPackerFacts DEF packers, U
  <2> QED
    BY <1>2, <2>2
<1>5. Gen!PyDeserialize(doc, node) = Gen!Body(pieces) /\ Gen!PySerialize(doc, node) = Gen!Body(pieces)
  BY <1>2 DEF Gen!PyDeserialize, Gen!PySerialize
<1> HIDE DEF groups, m, U, packers, G
<1>6. ASSUME NEW i \in 1..m PROVE Gen!PresetStructIndex(doc, node, groups, i) = Before(U, i)
  <2>1. {h \in 1..(i - 1) : Gen!UsesPacker(doc, node, groups[h])} = {h \in U : h < i}
    <3>1. \A h : h \in 1..(i - 1) <=> h \in 1..m /\ h < i
      BY <1>3
    <3> QED
      BY <1>3, <3>1
  <2> QED
    BY <2>1, GenCount DEF Gen!PresetStructIndex, Before
<1>7. ASSUME NEW i \in 1..m PROVE GroupWrites(packers, inner, node, groups[i], Piece(i))
  <2> DEFINE g == groups[i]
             index == Before(U, i)
  <2>1. Piece(i) = Gen!PyGroupInstr(doc, node, groups, i, index)
    BY <1>6
  <2>2. g \in SoundGroups(Gen!FieldTypes(doc, node), Gen!PyBond)
    BY <1>3 DEF G
  <2>3. Gen!UsesPacker(doc, node, g) => packers[index + 1] = Gen!PackerFmt(node, g)
    BY <1>3, <1>4
  <2>4. groups[i] = g
    OBVIOUS
  <2> HIDE DEF g, index, Piece
  <2>5. GroupWrites(packers, inner, node, g, Gen!PyGroupInstr(doc, node, groups, i, index))
    BY <2>2, <2>3, <2>4, PyGroupWrites
  <2> QED
    BY <2>1, <2>4, <2>5
<1>8. /\ pieces = [i \in DOMAIN groups |-> pieces[i]]
      /\ \A i \in DOMAIN groups : GroupWrites(packers, inner, node, groups[i], pieces[i])
  BY <1>3, <1>7
<1> HIDE DEF pieces
<1>9. Gen!StructBytes(packers, inner, Gen!Body(pieces)) = NodeBytes(inner, node)
  BY <1>8, BodyBytes DEF groups
<1> QED
  BY <1>5, <1>9 DEF packers

-----------------------------------------------------------------------------
(* C++: the memory of the members *)

Bonds(doc, f) == Gen!VarType(doc, f) \in Gen!CppBond

\* The kinds of variables C++ copies as memory.
LEMMA BondKinds ==
  ASSUME NEW doc, NEW f, Bonds(doc, f)
  PROVE  /\ ~f.array.is_array \/ f.array.is_static_array
         /\ f.type.full # "string"
         /\ f.type.full \notin BasicTypes => ~Gen!NodeOf(doc, f.type.type).modifier.is_narrow
<1> DEFINE t == Gen!VarType(doc, f)
<1>1. /\ t[1] = IF ~f.array.is_array THEN "single"
                ELSE IF f.array.is_static_array THEN "static" ELSE "dynamic"
      /\ t[2] = IF f.type.full = "string" THEN "string"
                ELSE IF f.type.full \in BasicTypes THEN "primitive"
                ELSE IF Gen!NodeOf(doc, f.type.type).modifier.is_narrow THEN "narrow"
                ELSE "natural"
  BY ElementKinds
<1>2. t[1] \in {"single", "static"} /\ t[2] \in {"primitive", "natural"}
  BY DEF Bonds, Gen!CppBond
<1> HIDE DEF t
<1>3. ~f.array.is_array \/ f.array.is_static_array
  BY <1>1, <1>2
<1>4. f.type.full # "string"
  BY <1>1, <1>2
<1>5. f.type.full \notin BasicTypes => ~Gen!NodeOf(doc, f.type.type).modifier.is_narrow
  BY <1>1, <1>2
<1> QED
  BY <1>3, <1>4, <1>5

\* The table of the memory of the natural structs has for a field what is
\* written for its struct.
SameStruct(doc, P, inner, f) ==
  Bonds(doc, f) /\ f.type.full \notin BasicTypes => P[f.type.type] = inner[f.type.type]

\* One element of a member.
MemberElement(P, f, p) ==
  IF f.type.full \in Gen!BasicTypes
    THEN [b \in 1..Gen!SizeOf(f.type.full) |-> Gen!Cell(<<p>>, b, Gen!SizeOf(f.type.full))]
    ELSE [c \in DOMAIN P[f.type.type] |-> Gen!Inside(p, P[f.type.type][c])]

\* An element in the memory of C++ is what everyone writes for it.
LEMMA MemberElementIs ==
  ASSUME NEW doc, NEW P, NEW inner, NEW f, Bonds(doc, f), SameStruct(doc, P, inner, f), NEW p
  PROVE  MemberElement(P, f, p) = One(inner, f, <<p>>)
<1>0. f.type.full # "string"
  BY BondKinds
<1>1. CASE f.type.full \in BasicTypes
  BY <1>0, <1>1, SameTypes DEF MemberElement, One, Gen!NumberBytes
<1>2. CASE f.type.full \notin BasicTypes
  <2>1. P[f.type.type] = inner[f.type.type]
    BY <1>2 DEF SameStruct
  <2>2. MemberElement(P, f, p) = [c \in DOMAIN inner[f.type.type] |-> Gen!Inside(p, inner[f.type.type][c])]
    BY <1>2, <2>1, SameTypes DEF MemberElement
  <2>3. One(inner, f, <<p>>) = Moved(inner[f.type.type], <<p>>)
    BY <1>0, <1>2 DEF One, BasicTypes
  <2> QED
    BY <2>2, <2>3 DEF Moved, Gen!Inside
<1> QED
  BY <1>1, <1>2

\* A bonded member is the field with its padding, as everyone writes it; any
\* member is cells.
LEMMA MemberIs ==
  ASSUME NEW doc, NEW node, NEW P, NEW inner, KnowsAll(inner, node.fields),
         NEW k \in 1..Len(node.fields), SameStruct(doc, P, inner, node.fields[k])
  PROVE  /\ Bonds(doc, node.fields[k]) =>
              Gen!PaddedMember(doc, node, P, k) = FieldBytes(inner, node.fields[k], k)
         /\ Gen!PaddedMember(doc, node, P, k) \in Seq(CellType)
<1> DEFINE f == node.fields[k]
           Element(p) == MemberElement(P, f, p)
           places == Gen!Places(f, k)
           texts == [i \in DOMAIN places |-> Element(places[i])]
           opaque == << Gen!Cell(<< <<k, 0>> >>, 0, 0) >>
           member == IF Bonds(doc, f) THEN Gen!FlattenSeq(texts) ELSE opaque
<1>1. f \in FieldRecord /\ Knows(inner, f) /\ k \in Nat
  BY DEF KnowsAll
<1>2. Gen!PaddedMember(doc, node, P, k) = member \o PadBytes(f)
  <2>1. Gen!Member(doc, node, P, k) = member
    BY DEF Gen!Member, MemberElement, Bonds
  <2>2. Gen!PaddedMember(doc, node, P, k) = Gen!Member(doc, node, P, k) \o PadBytes(f)
    BY DEF Gen!PaddedMember, PadBytes
  <2> HIDE DEF member, f
  <2> QED
    BY <2>1, <2>2
<1>3. opaque \in Seq(CellType)
  BY <1>1 DEF Gen!Cell, CellType
<1>4. PadBytes(f) \in Seq(CellType) /\ FieldBytes(inner, f, k) \in Seq(CellType)
  BY <1>1, FieldBytesAre
<1>5. \A p \in {places[i] : i \in DOMAIN places} :
        Bonds(doc, f) => Element(p) = One(inner, f, <<p>>)
  <2> HIDE DEF f, places
  <2> QED
    BY MemberElementIs DEF f
<1> HIDE DEF f, opaque, Element, texts, places
<1>6. CASE Bonds(doc, f)
  <2> DEFINE n == f.array.static_array_len
  <2>1. f.array.is_array \in BOOLEAN /\ f.array.is_static_array \in BOOLEAN /\ n \in Nat
    BY <1>1, FieldNumbers
  <2>2. ~f.array.is_array \/ f.array.is_static_array
    BY <1>6, BondKinds
  <2>3. CASE ~f.array.is_array
    <3> DEFINE one == One(inner, f, << <<k, 0>> >>)
    <3>1. places = << <<k, 0>> >>
      BY <2>3 DEF places, Gen!Places
    <3>2. << <<k, 0>> >> \in Path
      BY <1>1 DEF Path
    <3>3. one \in Seq(CellType)
      BY <1>1, <3>2, OneIs
    <3>4. DOMAIN places = {1} /\ places[1] = <<k, 0>>
      BY <3>1
    <3>5. Element(<<k, 0>>) = one
      BY <1>5, <1>6, <3>4
    <3> HIDE DEF one
    <3>6. texts = << one >>
      BY <3>4, <3>5 DEF texts
    <3>7. Gen!FlattenSeq(texts) = one
      BY <3>3, <3>6, FlattenSmall
    <3>8. FieldBytes(inner, f, k) = one \o PadBytes(f)
      BY <2>3 DEF FieldBytes, one
    <3> QED
      BY <1>2, <1>4, <1>6, <3>7, <3>8 DEF f
  <2>4. CASE f.array.is_array /\ f.array.is_static_array
    <3>1. places = [i \in 1..n |-> <<k, i>>]
      BY <2>4 DEF places, Gen!Places
    <3>2. DOMAIN places = 1..n /\ \A i \in 1..n : places[i] = <<k, i>>
      BY <3>1
    <3>3. \A i \in 1..n : Element(places[i]) = One(inner, f, << <<k, i>> >>)
      BY <1>5, <1>6, <3>2
    <3>4. texts = Ones(inner, f, k)
      BY <3>2, <3>3 DEF texts, Ones
    <3>5. FieldBytes(inner, f, k) = Gen!FlattenSeq(Ones(inner, f, k)) \o PadBytes(f)
      BY <2>4 DEF FieldBytes
    <3> QED
      BY <1>2, <1>4, <1>6, <3>4, <3>5 DEF f
  <2> QED
    BY <2>1, <2>2, <2>3, <2>4
<1>7. CASE ~Bonds(doc, f)
  <2>1. Gen!PaddedMember(doc, node, P, k) = opaque \o PadBytes(f)
    BY <1>2, <1>7
  <2>2. opaque \o PadBytes(f) \in Seq(CellType)
    BY <1>3, <1>4
  <2> QED
    BY <1>7, <2>1, <2>2 DEF f
<1> QED
  BY <1>6, <1>7

\* The table has what is written for the structs of all bonded fields.
SameStructs(doc, P, inner, fields) ==
  \A k \in 1..Len(fields) : SameStruct(doc, P, inner, fields[k])

\* A stretch of the fields is all bonded.
BondedFrom(doc, fields, first, len) ==
  /\ first \in 1..Len(fields) /\ len \in 1..Len(fields) /\ first + len <= Len(fields) + 1
  /\ \A k \in first..(first + len - 1) : Bonds(doc, fields[k])

\* The memory from a member on begins with the bonded fields, as everyone
\* writes them; behind them is what the other members hold.
LEMMA PayloadIs ==
  ASSUME NEW doc, NEW node, NEW P, NEW inner, KnowsAll(inner, node.fields),
         SameStructs(doc, P, inner, node.fields),
         NEW first, NEW len, BondedFrom(doc, node.fields, first, len)
  PROVE  \E rest \in Seq(CellType) :
           /\ Gen!PayloadFrom(doc, node, P, first) =
                Span(FieldTexts(inner, node.fields), first, len) \o rest
           /\ Span(FieldTexts(inner, node.fields), first, len) \in Seq(CellType)
           /\ first + len = Len(node.fields) + 1 => rest = <<>>
<1> DEFINE n == Len(node.fields)
           F == FieldTexts(inner, node.fields)
           M == [k \in 1..n |-> Gen!PaddedMember(doc, node, P, k)]
           l == n - first + 1
<1>1. /\ n \in Nat /\ first \in 1..n /\ len \in 1..n /\ first + len <= n + 1 /\ node.fields # <<>>
      /\ \A k \in first..(first + len - 1) : Bonds(doc, node.fields[k])
  BY DEF BondedFrom, KnowsAll
<1>2. \A k \in 1..n :
        /\ Bonds(doc, node.fields[k]) =>
             Gen!PaddedMember(doc, node, P, k) = FieldBytes(inner, node.fields[k], k)
        /\ Gen!PaddedMember(doc, node, P, k) \in Seq(CellType)
  <2> SUFFICES ASSUME NEW k \in 1..n
               PROVE  /\ Bonds(doc, node.fields[k]) =>
                           Gen!PaddedMember(doc, node, P, k) = FieldBytes(inner, node.fields[k], k)
                      /\ Gen!PaddedMember(doc, node, P, k) \in Seq(CellType)
    OBVIOUS
  <2>1. SameStruct(doc, P, inner, node.fields[k])
    BY DEF SameStructs
  <2> QED
    BY <2>1, MemberIs
<1>3. /\ F \in Seq(Seq(CellType)) /\ Len(F) = n
      /\ \A k \in 1..n : F[k] = FieldBytes(inner, node.fields[k], k)
  BY FieldTextsAre
<1>4. M \in [1..n -> Seq(CellType)] /\ \A k \in 1..n : M[k] = Gen!PaddedMember(doc, node, P, k)
  BY <1>2
<1>5. Gen!PayloadFrom(doc, node, P, first) =
        Gen!FlattenSeq([j \in 1..l |-> Gen!PaddedMember(doc, node, P, first + j - 1)])
  BY <1>1 DEF Gen!PayloadFrom
<1> HIDE DEF M, F, n
<1>6. M \in Seq(Seq(CellType)) /\ Len(M) = n
  BY <1>1, <1>4, SeqIs
<1>7. /\ l \in Nat /\ l - len \in Nat /\ len \in Nat /\ len + (l - len) = l
      /\ first \in 1..Len(M) + 1 /\ first + len + (l - len) <= Len(M) + 1
      /\ \A j \in 1..l : first + j - 1 \in 1..n
      /\ \A j \in 1..len : first + j - 1 \in 1..n /\ first + j - 1 \in first..(first + len - 1)
  BY <1>1, <1>6
<1>8. Gen!PayloadFrom(doc, node, P, first) = Span(M, first, l)
  <2>1. [j \in 1..l |-> Gen!PaddedMember(doc, node, P, first + j - 1)] = [j \in 1..l |-> M[first + j - 1]]
    BY <1>4, <1>7
  <2> QED
    BY <1>5, <2>1 DEF Span
<1>9. Span(M, first, len) = Span(F, first, len)
  <2>1. \A j \in 1..len : M[first + j - 1] = F[first + j - 1]
    <3> SUFFICES ASSUME NEW j \in 1..len PROVE M[first + j - 1] = F[first + j - 1]
      OBVIOUS
    <3> DEFINE k == first + j - 1
    <3>1. k \in 1..n /\ k \in first..(first + len - 1)
      <4>1. j \in 1..len /\ first \in 1..n /\ n \in Nat /\ len \in 1..n /\ first + len <= n + 1
        BY <1>1
      <4> QED
        BY <4>1
    <3> HIDE DEF k
    <3>2. M[k] = F[k]
      BY <1>1, <1>2, <1>3, <1>4, <3>1
    <3> QED
      BY <3>2 DEF k
  <2>2. [j \in 1..len |-> M[first + j - 1]] = [j \in 1..len |-> F[first + j - 1]]
    BY <2>1
  <2> QED
    BY <2>2 DEF Span
<1> DEFINE r == l - len
           rest == Span(M, first + len, r)
<1>10. /\ Span(M, first, len) \in Seq(CellType)
       /\ Span(M, first, len + r) = Span(M, first, len) \o rest
  <2> HIDE DEF r
  <2>1. r \in Nat /\ len \in Nat /\ first \in 1..Len(M) + 1 /\ first + len + r <= Len(M) + 1
    BY <1>7 DEF r
  <2> QED
    BY <1>6, <2>1, SpanJoin
<1>11. rest \in Seq(CellType) /\ (first + len = n + 1 => rest = <<>>)
  <2>1. first + len \in 1..Len(M) + 1 /\ first + len + r + 0 <= Len(M) + 1 /\ r \in Nat /\ 0 \in Nat
        /\ first + len \in Nat
    BY <1>1, <1>6, <1>7
  <2> DEFINE i == first + len
  <2> HIDE DEF r, i
  <2>2. i \in 1..Len(M) + 1 /\ i + r + 0 <= Len(M) + 1 /\ i \in Nat
    BY <2>1 DEF i
  <2>3. Span(M, i, r) \in Seq(CellType)
    BY <1>6, <2>1, <2>2, SpanJoin
  <2>4. Span(M, i, 0) = <<>>
    BY <1>6, <2>2, SpanSmall
  <2>5. i = n + 1 => r = 0
    BY <1>1, <1>7 DEF i, r
  <2> QED
    BY <2>3, <2>4, <2>5 DEF i
<1> QED
  BY <1>7, <1>8, <1>9, <1>10, <1>11 DEF F, n

\* The memory of a struct whose fields are all bonded is what everyone writes.
LEMMA PayloadWhole ==
  ASSUME NEW doc, NEW node, NEW P, NEW inner, KnowsAll(inner, node.fields),
         SameStructs(doc, P, inner, node.fields),
         \A k \in 1..Len(node.fields) : Bonds(doc, node.fields[k])
  PROVE  Gen!PayloadFrom(doc, node, P, 1) = NodeBytes(inner, node)
<1> DEFINE n == Len(node.fields)
           F == FieldTexts(inner, node.fields)
<1>1. n \in Nat /\ (n = 0 <=> node.fields = <<>>)
  BY DEF KnowsAll
<1>2. CASE node.fields = <<>>
  BY <1>2 DEF Gen!PayloadFrom, NodeBytes
<1>3. CASE node.fields # <<>>
  <2>1. BondedFrom(doc, node.fields, 1, n)
    <3>1. 1 \in 1..n /\ n \in 1..n /\ 1 + n <= n + 1 /\ \A k \in 1..(1 + n - 1) : k \in 1..n
      BY <1>1, <1>3
    <3> QED
      BY <3>1 DEF BondedFrom
  <2> HIDE DEF n
  <2>2. PICK rest \in Seq(CellType) :
          /\ Gen!PayloadFrom(doc, node, P, 1) = Span(F, 1, n) \o rest
          /\ Span(F, 1, n) \in Seq(CellType)
          /\ 1 + n = Len(node.fields) + 1 => rest = <<>>
    BY <2>1, PayloadIs
  <2>3. rest = <<>>
    BY <2>2, <1>1 DEF n
  <2>4. F \in Seq(Seq(CellType)) /\ Len(F) = n
    BY FieldTextsAre DEF n
  <2> HIDE DEF F
  <2>5. Span(F, 1, n) = Gen!FlattenSeq(F)
    BY <2>4, SpanSmall
  <2>6. Span(F, 1, n) \o <<>> = Span(F, 1, n)
    BY <2>2, JoinNothing
  <2> QED
    BY <1>3, <2>2, <2>3, <2>5, <2>6 DEF NodeBytes, F
<1> QED
  BY <1>2, <1>3

\* A raw copy from the address of a member writes the memory there.
LEMMA BlockIs ==
  ASSUME NEW packers, NEW inner, NEW a \in Seq(CellType), NEW rest \in Seq(CellType)
  PROVE  Gen!InstrBytes(packers, inner,
           [op |-> "block", at |-> <<>>, arg |-> [mem |-> a \o rest, size |-> Len(a)]]) = a
<1> DEFINE n == Len(a)
           mem == a \o rest
           in == [op |-> "block", at |-> <<>>, arg |-> [mem |-> mem, size |-> n]]
           out == [c \in 1..n |-> IF mem[c].at = <<>> THEN mem[c] ELSE [mem[c] EXCEPT !.at = <<>> \o @]]
<1>1. n \in Nat /\ \A c \in 1..n : mem[c] = a[c] /\ a[c] \in CellType
  OBVIOUS
<1>2. Gen!InstrBytes(packers, inner, in) = Gen!ElementBytes(packers, inner, in, <<>>)
  BY DEF Gen!InstrBytes
<1>3. Gen!ElementBytes(packers, inner, in, <<>>) = out
  BY DEF Gen!ElementBytes
<1> HIDE DEF mem, in, n
<1>4. ASSUME NEW c \in 1..n
      PROVE  (IF mem[c].at = <<>> THEN mem[c] ELSE [mem[c] EXCEPT !.at = <<>> \o @]) = a[c]
  <2>1. mem[c] \in CellType /\ mem[c] = a[c]
    BY <1>1
  <2>2. mem[c].at \in Seq(Nat \X Nat)
    BY <2>1 DEF CellType
  <2>3. <<>> \o mem[c].at = mem[c].at
    BY <2>2
  <2>4. [mem[c] EXCEPT !.at = <<>> \o @] = mem[c]
    BY <2>1, <2>3 DEF CellType
  <2> QED
    BY <2>1, <2>4
<1>5. a = [c \in 1..n |-> a[c]]
  BY DEF n
<1>6. out = a
  BY <1>4, <1>5
<1> QED
  BY <1>2, <1>3, <1>6 DEF in, mem, n

-----------------------------------------------------------------------------
(* C++: the sizes the generator adds up *)

\* One more of a size.
LEMMA OneMore ==
  ASSUME NEW s \in Nat, NEW k \in Nat \ {0}
  PROVE  s * (k - 1) + s = s * k /\ s * k \in Nat
OBVIOUS

\* The length of two lists.
LEMMA JoinLen ==
  ASSUME NEW S
  PROVE  \A s, t \in Seq(S) : s \o t \in Seq(S) /\ Len(s \o t) = Len(s) + Len(t)
OBVIOUS

\* Pieces of one length.
LEMMA SamePieces ==
  ASSUME NEW S, NEW pieces \in Seq(Seq(S)), NEW s \in Nat,
         \A i \in 1..Len(pieces) : Len(pieces[i]) = s
  PROVE  Len(Gen!FlattenSeq(pieces)) = s * Len(pieces)
<1> DEFINE n == Len(pieces)
<1>1. n \in Nat /\ \A k \in 1..n : pieces[k] \in Seq(S) /\ Len(pieces[k]) = s
  OBVIOUS
<1>2. PICK u \in [0..n -> Seq(S)] :
        /\ u[0] = <<>> /\ Gen!FlattenSeq(pieces) = u[n]
        /\ \A k \in 1..n : u[k] = u[k - 1] \o pieces[k]
  BY FlattenRecursion
<1> HIDE DEF n
<1> DEFINE Right == {k \in 0..n : Len(u[k]) = s * k}
<1>3. 0 \in Right
  BY <1>1, <1>2
<1>4. ASSUME NEW k \in 1..n, k - 1 \in Right PROVE k \in Right
  <2>1. k \in 0..n /\ k - 1 \in 0..n /\ u[k - 1] \in Seq(S) /\ k \in Nat \ {0}
    BY <1>1, <1>2
  <2>2. Len(u[k]) = Len(u[k - 1]) + s
    <3>1. u[k - 1] \in Seq(S) /\ pieces[k] \in Seq(S) /\ u[k] = u[k - 1] \o pieces[k] /\ Len(pieces[k]) = s
      BY <1>1, <1>2, <2>1
    <3> QED
      BY <3>1, JoinLen
  <2>3. Len(u[k - 1]) = s * (k - 1)
    BY <1>4
  <2>4. Len(u[k]) = s * k
    BY <2>1, <2>2, <2>3, OneMore
  <2> QED
    BY <2>1, <2>4
<1> HIDE DEF Right
<1>5. 0..n \subseteq Right
  BY <1>1, <1>3, <1>4, SegmentInduction
<1>6. Len(u[n]) = s * n
  BY <1>1, <1>5 DEF Right
<1> QED
  BY <1>2, <1>6 DEF n

\* The bytes of a bonded field, as the generator computes them.
RawSize(doc, f) ==
  Gen!ElementSize(doc, f) * (IF f.array.is_array THEN f.array.static_array_len ELSE 1)

FieldSize(doc, f) == RawSize(doc, f) + PaddingOf(f)

\* The struct a bonded field contains takes the bytes its layout says.
SizeKnown(doc, inner, f) ==
  Bonds(doc, f) /\ f.type.full \notin BasicTypes =>
    /\ Len(inner[f.type.type]) = Gen!NodeOf(doc, f.type.type).modifier.struct_size
    /\ inner[f.type.type] # <<>>

\* An element of a bonded field takes the bytes the generator counts for it.
LEMMA ElementSizeIs ==
  ASSUME NEW doc, NEW inner, NEW f, Knows(inner, f), Bonds(doc, f), SizeKnown(doc, inner, f),
         NEW at \in Path
  PROVE  /\ Gen!ElementSize(doc, f) \in Nat \ {0}
         /\ Len(One(inner, f, at)) = Gen!ElementSize(doc, f)
         /\ One(inner, f, at) \in Seq(CellType)
<1>1. f.type.full # "string"
  BY BondKinds
<1>2. One(inner, f, at) \in Seq(CellType)
  BY OneIs
<1>3. CASE f.type.full \in BasicTypes
  <2>1. One(inner, f, at) = Gen!NumberBytes(at, f.type.full)
    BY <1>1, <1>3 DEF One
  <2>2. Len(Gen!NumberBytes(at, f.type.full)) = SizeOf(f.type.full)
    BY <1>3, CellsAre
  <2>3. SizeOf(f.type.full) \in Nat \ {0} /\ Gen!SizeOf(f.type.full) = SizeOf(f.type.full)
    BY <1>3, SizeOfNumber
  <2>4. Gen!ElementSize(doc, f) = SizeOf(f.type.full)
    BY <1>3, <2>3, SameTypes DEF Gen!ElementSize
  <2> QED
    BY <1>2, <2>1, <2>2, <2>3, <2>4
<1>4. CASE f.type.full \notin BasicTypes
  <2> DEFINE cells == inner[f.type.type]
             size == Gen!NodeOf(doc, f.type.type).modifier.struct_size
  <2>1. cells \in Seq(CellType) /\ Len(cells) = size /\ cells # <<>>
    BY <1>4 DEF Knows, SizeKnown
  <2>2. One(inner, f, at) = Moved(cells, at)
    BY <1>1, <1>4 DEF One, BasicTypes
  <2>3. Gen!ElementSize(doc, f) = size
    BY <1>4, SameTypes DEF Gen!ElementSize
  <2> HIDE DEF cells, size
  <2>4. Len(Moved(cells, at)) = Len(cells)
    BY <2>1, MovedIs
  <2>5. Len(cells) \in Nat \ {0}
    BY <2>1
  <2> QED
    BY <1>2, <2>1, <2>2, <2>3, <2>4, <2>5
<1> QED
  BY <1>3, <1>4

\* A static array has elements.
LEMMA TupleHasLength ==
  ASSUME NEW a \in ArrayType
  PROVE  a.is_array /\ a.is_static_array => a.static_array_len > 0
<1>1. CASE a = NoArray
  BY <1>1 DEF NoArray
<1>2. CASE a = ListArray
  BY <1>2 DEF ListArray
<1>3. CASE a # NoArray /\ a # ListArray
  <2>1. PICK n \in U32Values \ {0} : a = TupleArray(n)
    BY <1>3 DEF ArrayType
  <2>2. n \in Nat /\ n > 0
    BY U32Facts
  <2>3. a = [is_array |-> TRUE, is_static_array |-> TRUE, static_array_len |-> n]
    BY <2>1 DEF TupleArray
  <2> QED
    BY <2>2, <2>3
<1> QED
  BY <1>1, <1>2, <1>3

\* A bonded field takes the bytes the generator counts for it.
LEMMA FieldSizeIs ==
  ASSUME NEW doc, NEW inner, NEW f \in FieldRecord, Knows(inner, f), Bonds(doc, f),
         SizeKnown(doc, inner, f), NEW k \in Nat
  PROVE  /\ Len(FieldBytes(inner, f, k)) = FieldSize(doc, f)
         /\ RawSize(doc, f) \in Nat \ {0} /\ PaddingOf(f) \in Nat
<1> DEFINE n == f.array.static_array_len
           s == Gen!ElementSize(doc, f)
           p == PaddingOf(f)
<1>1. /\ f.array.is_array \in BOOLEAN /\ n \in Nat
      /\ f.array.is_array /\ f.array.is_static_array => n > 0
  <2>1. f.array \in ArrayType
    BY DEF FieldRecord
  <2> QED
    BY <2>1, ArrayNumbers, TupleHasLength
<1>2. f.array.is_array => f.array.is_static_array
  BY BondKinds
<1>3. p \in Nat /\ PadBytes(f) = Gen!Placeholder(p)
  BY PadFmtIs
<1>4. PadBytes(f) \in Seq(CellType) /\ Len(PadBytes(f)) = p
  BY <1>3, CellsAre
<1>5. ASSUME NEW at \in Path
      PROVE  s \in Nat \ {0} /\ Len(One(inner, f, at)) = s /\ One(inner, f, at) \in Seq(CellType)
  BY ElementSizeIs
<1>6. CASE ~f.array.is_array
  <2>1. << <<k, 0>> >> \in Path
    BY DEF Path
  <2> DEFINE one == One(inner, f, << <<k, 0>> >>)
  <2>2. s \in Nat \ {0} /\ Len(one) = s /\ one \in Seq(CellType)
    BY <1>5, <2>1
  <2>3. FieldBytes(inner, f, k) = one \o PadBytes(f)
    BY <1>6 DEF FieldBytes
  <2>4. FieldSize(doc, f) = s * 1 + p /\ RawSize(doc, f) = s * 1
    BY <1>6 DEF FieldSize, RawSize
  <2> HIDE DEF one, s, p
  <2>5. Len(one \o PadBytes(f)) = Len(one) + Len(PadBytes(f))
    BY <1>4, <2>2, JoinLen
  <2>6. Len(FieldBytes(inner, f, k)) = FieldSize(doc, f)
    BY <1>3, <1>4, <2>2, <2>3, <2>4, <2>5
  <2>7. RawSize(doc, f) \in Nat \ {0}
    BY <2>2, <2>4
  <2>8. PaddingOf(f) \in Nat
    BY <1>3 DEF p
  <2> QED
    BY <2>6, <2>7, <2>8
<1>7. CASE f.array.is_array
  <2> DEFINE ones == Ones(inner, f, k)
  <2>1. ones \in Seq(Seq(CellType)) /\ Len(ones) = n /\ Gen!FlattenSeq(ones) \in Seq(CellType)
    BY <1>1, OnesAre
  <2>2. \A i \in 1..n : ones[i] = One(inner, f, << <<k, i>> >>) /\ << <<k, i>> >> \in Path
    BY <1>1 DEF Ones, Path
  <2>3. FieldBytes(inner, f, k) = Gen!FlattenSeq(ones) \o PadBytes(f)
    BY <1>2, <1>7 DEF FieldBytes
  <2>4. FieldSize(doc, f) = s * n + p /\ RawSize(doc, f) = s * n
    BY <1>7 DEF FieldSize, RawSize
  <2>5. n \in Nat \ {0}
    BY <1>1, <1>2, <1>7
  <2> HIDE DEF ones, s, p, n
  <2>6. \A i \in 1..n : s \in Nat \ {0} /\ Len(ones[i]) = s
    BY <1>5, <2>2
  <2>7. s \in Nat \ {0}
    <3>1. 1 \in 1..n
      BY <2>5
    <3> QED
      BY <2>6, <3>1
  <2>8. Len(Gen!FlattenSeq(ones)) = s * n
    BY <2>1, <2>6, <2>7, SamePieces
  <2>9. s * n \in Nat \ {0}
    BY <2>5, <2>7
  <2>10. Len(FieldBytes(inner, f, k)) = Len(Gen!FlattenSeq(ones)) + Len(PadBytes(f))
    BY <1>4, <2>1, <2>3, JoinLen
  <2>11. Len(FieldBytes(inner, f, k)) = FieldSize(doc, f)
    BY <1>4, <2>4, <2>8, <2>10
  <2>12. RawSize(doc, f) \in Nat \ {0}
    BY <2>4, <2>9
  <2>13. PaddingOf(f) \in Nat
    BY <1>3 DEF p
  <2> QED
    BY <2>11, <2>12, <2>13
<1> QED
  BY <1>1, <1>6, <1>7

\* The sizes of the structs of all bonded fields are known.
SizesKnown(doc, inner, fields) ==
  \A k \in 1..Len(fields) : SizeKnown(doc, inner, fields[k])

\* The lengths of the first pieces of a stretch.
Lengths(F, first, len) == [j \in 0..len |-> Len(Span(F, first, j))]

\* They are the sums of the lengths of the pieces.
LEMMA LengthsAre ==
  ASSUME NEW S, NEW F \in Seq(Seq(S)), NEW first \in 1..Len(F), NEW len \in Nat,
         first + len <= Len(F) + 1
  PROVE  /\ Lengths(F, first, len)[0] = 0
         /\ \A j \in 1..len :
              Lengths(F, first, len)[j] = Lengths(F, first, len)[j - 1] + Len(F[first + j - 1])
         /\ \A j \in 0..len : Lengths(F, first, len)[j] \in Nat
         /\ Lengths(F, first, len)[len] = Len(Span(F, first, len))
         /\ \A j \in 0..len : Lengths(F, first, len)[j] <= Lengths(F, first, len)[len]
<1> DEFINE L == Lengths(F, first, len)
<1>1. Len(F) \in Nat /\ first \in Nat
  OBVIOUS
<1>2. \A j \in 0..len : L[j] = Len(Span(F, first, j))
  BY DEF Lengths
<1>3. L[0] = 0
  <2>1. Span(F, first, 0) = <<>>
    BY <1>1, SpanSmall
  <2> QED
    BY <1>2, <2>1
<1>4. ASSUME NEW j \in 0..len
      PROVE  /\ Span(F, first, j) \in Seq(S) /\ Span(F, first, len) \in Seq(S)
             /\ Len(Span(F, first, j)) <= Len(Span(F, first, len))
  <2> DEFINE r == len - j
             i == first + j
  <2>1. /\ j \in Nat /\ r \in Nat /\ j + r = len /\ first \in 1..Len(F) + 1 /\ first + j + r <= Len(F) + 1
        /\ i \in 1..Len(F) + 1 /\ i + r + 0 <= Len(F) + 1 /\ 0 \in Nat
    BY <1>1
  <2> HIDE DEF r, i
  <2>2. Span(F, first, j) \in Seq(S) /\ Span(F, first, j + r) = Span(F, first, j) \o Span(F, first + j, r)
    BY <2>1, SpanJoin, SMTT(60)
  <2>3. Span(F, i, r) \in Seq(S)
    BY <2>1, SpanJoin
  <2>4. Span(F, first, len) = Span(F, first, j) \o Span(F, i, r)
    BY <2>1, <2>2 DEF i
  <2> DEFINE a == Span(F, first, j)
             b == Span(F, i, r)
  <2>5. a \in Seq(S) /\ b \in Seq(S) /\ Span(F, first, len) = a \o b
    BY <2>2, <2>3, <2>4
  <2> HIDE DEF a, b
  <2>6. a \o b \in Seq(S) /\ Len(a \o b) = Len(a) + Len(b) /\ Len(a) \in Nat /\ Len(b) \in Nat
    BY <2>5, JoinLen
  <2>7. Len(a) <= Len(a \o b)
    BY <2>6
  <2> QED
    BY <2>5, <2>6, <2>7 DEF a
<1>5. ASSUME NEW j \in 1..len PROVE L[j] = L[j - 1] + Len(F[first + j - 1])
  <2> DEFINE i == first + j - 1
             m == j - 1
  <2>1. /\ m \in Nat /\ 1 \in Nat /\ m + 1 = j /\ first \in 1..Len(F) + 1 /\ first + m + 1 <= Len(F) + 1
        /\ i = first + m /\ i \in 1..Len(F) /\ m \in 0..len /\ j \in 0..len
    BY <1>1
  <2>2. F[i] \in Seq(S)
    BY <2>1
  <2> HIDE DEF i, m
  <2>3. Span(F, first, m + 1) = Span(F, first, m) \o Span(F, first + m, 1)
    BY <2>1, SpanJoin, ZenonT(60)
  <2>4. Span(F, i, 1) = F[i]
    BY <2>1, SpanSmall
  <2>5. Span(F, first, j) = Span(F, first, m) \o F[i]
    BY <2>1, <2>3, <2>4
  <2>6. Span(F, first, m) \in Seq(S)
    BY <1>4, <2>1
  <2>7. Len(Span(F, first, m) \o F[i]) = Len(Span(F, first, m)) + Len(F[i])
    BY <2>2, <2>6, JoinLen
  <2>8. L[j] = L[m] + Len(F[i])
    BY <1>2, <2>1, <2>5, <2>7
  <2> QED
    BY <2>8 DEF i, m
<1>6. \A j \in 0..len : L[j] \in Nat /\ L[j] <= L[len]
  <2>1. len \in 0..len
    OBVIOUS
  <2>2. ASSUME NEW j \in 0..len PROVE L[j] \in Nat /\ L[j] <= L[len]
    <3>1. L[j] = Len(Span(F, first, j)) /\ L[len] = Len(Span(F, first, len))
      BY <1>2, <2>1
    <3>2. Len(Span(F, first, j)) \in Nat
      BY <1>4
    <3> QED
      BY <1>4, <3>1, <3>2
  <2> QED
    BY <2>2
<1>7. L[len] = Len(Span(F, first, len))
  BY <1>2
<1> QED
  BY <1>3, <1>5, <1>6, <1>7

\* The numbers a run of bonded fields adds up.
LEMMA RunNumbers ==
  ASSUME NEW doc, NEW node, NEW inner, KnowsAll(inner, node.fields),
         SizesKnown(doc, inner, node.fields),
         NEW first, NEW len, BondedFrom(doc, node.fields, first, len)
  PROVE  LET L == Lengths(FieldTexts(inner, node.fields), first, len)
             Raw(j) == RawSize(doc, node.fields[first + j - 1])
             Pad(j) == PaddingOf(node.fields[first + j - 1])
         IN  /\ len \in Nat \ {0} /\ L[0] = 0
             /\ \A j \in 0..len : L[j] \in Nat /\ L[j] <= L[len]
             /\ \A j \in 1..len : /\ L[j] = L[j - 1] + (Raw(j) + Pad(j))
                                  /\ Raw(j) \in Nat \ {0} /\ Pad(j) \in Nat
             /\ L[len] = Len(Span(FieldTexts(inner, node.fields), first, len))
             /\ L[len] \in Nat \ {0}
<1> DEFINE n == Len(node.fields)
           F == FieldTexts(inner, node.fields)
           L == Lengths(F, first, len)
           Raw(j) == RawSize(doc, node.fields[first + j - 1])
           Pad(j) == PaddingOf(node.fields[first + j - 1])
<1>1. /\ n \in Nat /\ first \in 1..n /\ len \in 1..n /\ first + len <= n + 1
      /\ \A k \in first..(first + len - 1) : Bonds(doc, node.fields[k])
  BY DEF BondedFrom, KnowsAll
<1>2. /\ F \in Seq(Seq(CellType)) /\ Len(F) = n
      /\ \A k \in 1..n : F[k] = FieldBytes(inner, node.fields[k], k)
  BY FieldTextsAre
<1> HIDE DEF F
<1>3. /\ L[0] = 0 /\ \A j \in 1..len : L[j] = L[j - 1] + Len(F[first + j - 1])
      /\ \A j \in 0..len : L[j] \in Nat /\ L[j] <= L[len]
      /\ L[len] = Len(Span(F, first, len))
  <2>1. first \in 1..Len(F) /\ len \in Nat /\ first + len <= Len(F) + 1
    BY <1>1, <1>2
  <2> QED
    BY <1>2, <2>1, LengthsAre
<1> HIDE DEF L
<1>4. ASSUME NEW j \in 1..len
      PROVE  Len(F[first + j - 1]) = Raw(j) + Pad(j) /\ Raw(j) \in Nat \ {0} /\ Pad(j) \in Nat
  <2> DEFINE k == first + j - 1
             f == node.fields[k]
  <2>1. k \in 1..n /\ k \in first..(first + len - 1) /\ k \in Nat
    BY <1>1
  <2> HIDE DEF k, n
  <2>2. f \in FieldRecord /\ Knows(inner, f) /\ SizeKnown(doc, inner, f) /\ Bonds(doc, f)
    BY <1>1, <2>1 DEF KnowsAll, SizesKnown, n
  <2> HIDE DEF f
  <2>3. /\ Len(FieldBytes(inner, f, k)) = FieldSize(doc, f)
        /\ RawSize(doc, f) \in Nat \ {0} /\ PaddingOf(f) \in Nat
    BY <2>1, <2>2, FieldSizeIs
  <2>4. Len(F[k]) = RawSize(doc, f) + PaddingOf(f)
    BY <1>2, <2>1, <2>3 DEF f, FieldSize
  <2> QED
    BY <2>3, <2>4 DEF f, k
<1>5. \A j \in 1..len : L[j] = L[j - 1] + (Raw(j) + Pad(j)) /\ Raw(j) \in Nat \ {0} /\ Pad(j) \in Nat
  BY <1>3, <1>4
<1>6. L[len] \in Nat \ {0}
  <2>1. len \in 1..len /\ len - 1 \in 0..len /\ len \in 0..len
    BY <1>1
  <2>2. L[len - 1] \in Nat /\ L[len] = L[len - 1] + (Raw(len) + Pad(len))
        /\ Raw(len) \in Nat \ {0} /\ Pad(len) \in Nat
    BY <1>3, <1>5, <2>1
  <2> HIDE DEF Raw, Pad
  <2> QED
    BY <2>2
<1>7. len \in Nat \ {0}
  BY <1>1
<1> HIDE DEF Raw, Pad
<1>8. /\ len \in Nat \ {0} /\ L[0] = 0
      /\ \A j \in 0..len : L[j] \in Nat /\ L[j] <= L[len]
      /\ \A j \in 1..len : /\ L[j] = L[j - 1] + (Raw(j) + Pad(j))
                           /\ Raw(j) \in Nat \ {0} /\ Pad(j) \in Nat
      /\ L[len] = Len(Span(F, first, len))
      /\ L[len] \in Nat \ {0}
  BY <1>3, <1>5, <1>6, <1>7
<1> QED
  BY <1>8 DEF L, F, Raw, Pad

\* The bytes of a bonded run, whoever adds them up.
RunIs(doc, node, inner, g) ==
  LET size == Len(Span(FieldTexts(inner, node.fields), g.first, g.len))
  IN  /\ size \in Nat \ {0}
      /\ RunSize(doc, node, g)[g.len] = size
      /\ size <= MaxOf["uint32"] => Gen!BondVarsSize(doc, node, g) = size

\* The size computed for a raw copy is the length of what everyone writes for
\* its fields, unless uint32_t is too narrow for it.
LEMMA RunSizes ==
  ASSUME NEW doc, NEW node, NEW inner, KnowsAll(inner, node.fields),
         SizesKnown(doc, inner, node.fields),
         NEW g, BondedFrom(doc, node.fields, g.first, g.len)
  PROVE  RunIs(doc, node, inner, g)
<1> DEFINE first == g.first
           len == g.len
           L == Lengths(FieldTexts(inner, node.fields), first, len)
           Raw(j) == RawSize(doc, node.fields[first + j - 1])
           Pad(j) == PaddingOf(node.fields[first + j - 1])
           d == [j \in 1..len |-> Raw(j) + Pad(j)]
           size == Len(Span(FieldTexts(inner, node.fields), first, len))
           Rec(h) == [j \in 0..len |-> IF j = 0 THEN 0 ELSE h[j - 1] + Raw(j) + Pad(j)]
           RecU(h) == [j \in 0..len |-> IF j = 0 THEN 0 ELSE U32(h[j - 1] + Raw(j) + Pad(j))]
           r == CHOOSE h : h = Rec(h)
           s == CHOOSE h : h = RecU(h)
<1>1. /\ len \in Nat \ {0} /\ L[0] = 0
      /\ \A j \in 0..len : L[j] \in Nat /\ L[j] <= L[len]
      /\ \A j \in 1..len : /\ L[j] = L[j - 1] + (Raw(j) + Pad(j))
                           /\ Raw(j) \in Nat \ {0} /\ Pad(j) \in Nat
      /\ L[len] = size /\ L[len] \in Nat \ {0}
  BY RunNumbers
<1>2. RunSize(doc, node, g) = r
  BY DEF RunSize, RawSize, PaddingOf
<1>3. Gen!BondVarsSize(doc, node, g) = IF s[len] = 0 THEN 1 ELSE s[len]
  BY DEF Gen!BondVarsSize, RawSize, PaddingOf, Gen!U32, U32
<1>4. L = [j \in 0..len |-> L[j]]
  BY DEF Lengths
<1> HIDE DEF Raw, Pad, L, size, first, len
<1>5. \A j \in 1..len : d[j] = Raw(j) + Pad(j) /\ d[j] \in Nat
  BY <1>1
<1> HIDE DEF d
<1>6. \A j \in 1..len : L[j] = L[j - 1] + d[j] /\ L[j - 1] \in Nat
  <2>1. \A j \in 1..len : j - 1 \in 0..len
    BY <1>1
  <2> QED
    BY <1>1, <1>5, <2>1
<1>7. r[len] = size
  <2>1. \A j \in 0..len : j # 0 => L[j] = L[j - 1] + Raw(j) + Pad(j)
    <3> SUFFICES ASSUME NEW j \in 0..len, j # 0 PROVE L[j] = L[j - 1] + Raw(j) + Pad(j)
      OBVIOUS
    <3>1. j \in 1..len
      BY <1>1
    <3> QED
      BY <1>1, <1>6, <3>1
  <2>2. L = Rec(L)
    BY <1>1, <1>4, <2>1
  <2> HIDE DEF Rec
  <2>3. r = Rec(r)
    BY <2>2
  <2> HIDE DEF r
  <2>4. r[0] = 0 /\ \A j \in 1..len : r[j] = r[j - 1] + Raw(j) + Pad(j)
    <3>1. 0 \in 0..len /\ \A j \in 1..len : j \in 0..len /\ j # 0
      BY <1>1
    <3> QED
      BY <2>3, <3>1 DEF Rec
  <2> DEFINE Good == {j \in 0..len : r[j] = L[j]}
  <2>5. 0 \in Good
    BY <1>1, <2>4
  <2>6. ASSUME NEW j \in 1..len, j - 1 \in Good PROVE j \in Good
    <3>1. r[j - 1] = L[j - 1] /\ j \in 0..len
      BY <2>6
    <3>2. r[j] = L[j - 1] + Raw(j) + Pad(j)
      BY <2>4, <3>1
    <3>3. r[j] = L[j]
      BY <1>1, <1>6, <3>2
    <3> QED
      BY <3>1, <3>3
  <2> HIDE DEF Good
  <2>7. 0..len \subseteq Good
    BY <1>1, <2>5, <2>6, SegmentInduction
  <2> QED
    BY <1>1, <2>7 DEF Good
<1>8. ASSUME size <= MaxOf["uint32"] PROVE s[len] = size
  <2>1. \A j \in 0..len : L[j] \in Nat /\ L[j] <= MaxOf["uint32"]
    BY <1>1, <1>8, WidthFacts
  <2>2. \A j \in 1..len : U32(L[j]) = L[j] /\ j \in 0..len
    <3> SUFFICES ASSUME NEW j \in 1..len PROVE U32(L[j]) = L[j]
      OBVIOUS
    <3>1. L[j] \in Nat /\ L[j] <= MaxOf["uint32"]
      BY <2>1
    <3> QED
      BY <3>1, WidthFacts DEF U32
  <2>3. \A j \in 1..len : L[j] = U32(L[j - 1] + Raw(j) + Pad(j))
    <3> SUFFICES ASSUME NEW j \in 1..len PROVE L[j] = U32(L[j - 1] + Raw(j) + Pad(j))
      OBVIOUS
    <3>1. L[j - 1] + Raw(j) + Pad(j) = L[j]
      BY <1>1, <1>6
    <3> QED
      BY <2>2, <3>1
  <2>4. L = RecU(L)
    <3>1. \A j \in 0..len : j # 0 => j \in 1..len
      BY <1>1
    <3>2. \A j \in 0..len : j # 0 => L[j] = U32(L[j - 1] + Raw(j) + Pad(j))
      BY <2>3, <3>1
    <3> QED
      BY <1>1, <1>4, <3>2
  <2> HIDE DEF RecU
  <2>5. s = RecU(s)
    BY <2>4
  <2> HIDE DEF s
  <2>6. s[0] = 0 /\ \A j \in 1..len : s[j] = U32(s[j - 1] + Raw(j) + Pad(j))
    <3>1. 0 \in 0..len /\ \A j \in 1..len : j \in 0..len /\ j # 0
      BY <1>1
    <3> QED
      BY <2>5, <3>1 DEF RecU
  <2> DEFINE Good == {j \in 0..len : s[j] = L[j]}
  <2>7. 0 \in Good
    BY <1>1, <2>6
  <2>8. ASSUME NEW j \in 1..len, j - 1 \in Good PROVE j \in Good
    <3>1. s[j - 1] = L[j - 1] /\ j \in 0..len
      BY <2>8
    <3>2. s[j] = U32(L[j - 1] + Raw(j) + Pad(j))
      BY <2>6, <3>1
    <3> QED
      BY <2>3, <3>1, <3>2
  <2> HIDE DEF Good
  <2>9. 0..len \subseteq Good
    BY <1>1, <2>7, <2>8, SegmentInduction
  <2> QED
    BY <1>1, <2>9 DEF Good
<1>9. size \in Nat \ {0}
  BY <1>1
<1>10. size <= MaxOf["uint32"] => Gen!BondVarsSize(doc, node, g) = size
  BY <1>3, <1>8, <1>9
<1> QED
  BY <1>2, <1>7, <1>9, <1>10 DEF size, first, len, RunIs

-----------------------------------------------------------------------------
(* C++: the functions *)

\* The table P has for a natural struct what is written for it.
SameNatural(doc, P, inner, f) ==
  Gen!VarType(doc, f)[2] = "natural" => P[f.type.type] = inner[f.type.type]

SameNaturals(doc, P, inner, fields) ==
  \A k \in 1..Len(fields) : SameNatural(doc, P, inner, fields[k])

\* A table right about natural structs is right about those bonded fields contain.
LEMMA NaturalIsStruct ==
  ASSUME NEW doc, NEW P, NEW inner, NEW fields, SameNaturals(doc, P, inner, fields)
  PROVE  SameStructs(doc, P, inner, fields)
<1> SUFFICES ASSUME NEW k \in 1..Len(fields) PROVE SameStruct(doc, P, inner, fields[k])
  BY DEF SameStructs
<1> DEFINE f == fields[k]
<1>1. SameNatural(doc, P, inner, f)
  BY DEF SameNaturals
<1> HIDE DEF f
<1>2. SUFFICES ASSUME Bonds(doc, f), f.type.full \notin BasicTypes
               PROVE  P[f.type.type] = inner[f.type.type]
  BY DEF SameStruct, f
<1>3. f.type.full # "string" /\ ~Gen!NodeOf(doc, f.type.type).modifier.is_narrow
  BY <1>2, BondKinds
<1>4. Gen!VarType(doc, f)[2] = "natural"
  BY <1>2, <1>3, ElementKinds
<1> QED
  BY <1>1, <1>4 DEF SameNatural

\* A group of C++ is alone or a bonded stretch.
LEMMA CppGroupKinds ==
  ASSUME NEW doc, NEW node, node.fields \in Seq(FieldRecord),
         NEW g \in SoundGroups(Gen!FieldTypes(doc, node), Gen!CppBond)
  PROVE  /\ g.is_bonded \in BOOLEAN /\ g.first \in 1..Len(node.fields)
         /\ g.is_bonded => BondedFrom(doc, node.fields, g.first, g.len)
         /\ ~g.is_bonded => g.len = 1
<1> DEFINE types == Gen!FieldTypes(doc, node)
           l == Len(node.fields)
<1>1. l \in Nat /\ Len(types) = l /\ \A k \in 1..l : types[k] = Gen!VarType(doc, node.fields[k])
  BY FieldTypesAre
<1> HIDE DEF types, l
<1>2. /\ g.is_bonded \in BOOLEAN /\ g.first \in 1..l /\ g.len \in 1..l
      /\ g.first + g.len <= l + 1
      /\ g.is_bonded => \A j \in g.first..(g.first + g.len - 1) : types[j] \in Gen!CppBond
      /\ ~g.is_bonded => g.len = 1
  BY <1>1 DEF SoundGroups, types
<1>3. \A j \in g.first..(g.first + g.len - 1) : j \in 1..l
  BY <1>1, <1>2
<1>4. g.is_bonded => BondedFrom(doc, node.fields, g.first, g.len)
  <2>1. g.is_bonded =>
          \A j \in g.first..(g.first + g.len - 1) : Bonds(doc, node.fields[j])
    BY <1>1, <1>2, <1>3 DEF Bonds
  <2> QED
    BY <1>2, <2>1 DEF BondedFrom, l
<1> QED
  BY <1>2, <1>4 DEF l

\* The raw copy of an element of a list.
LEMMA ElementBlockCopies ==
  ASSUME NEW packers, NEW inner, NEW doc, NEW f, Knows(inner, f),
         Gen!VarType(doc, f)[2] = "natural",
         SameNatural(doc, Gen!Payloads(doc), inner, f)
  PROVE  Copies(packers, inner, Gen!ElementBlock(doc, f), f)
<1> DEFINE cells == inner[f.type.type]
           r == [mem |-> cells, size |-> Len(cells)]
           in(a) == [op |-> "block", at |-> a, arg |-> r]
<1>1. f.type.full # "string" /\ f.type.full \notin BasicTypes
  BY ElementKinds
<1>2. cells \in Seq(CellType)
  BY <1>1 DEF Knows
<1>3. Gen!Payloads(doc)[f.type.type] = cells
  BY DEF SameNatural
<1>4. Gen!ElementBlock(doc, f) = in(<<>>)
  BY <1>3 DEF Gen!ElementBlock, Gen!Instr
<1>5. ASSUME NEW a, NEW at \in Path
      PROVE  Gen!ElementBytes(packers, inner, in(a), at) = One(inner, f, at)
  <2>1. in(a).op = "block" /\ in(a).arg.mem = cells /\ in(a).arg.size = Len(cells)
    OBVIOUS
  <2>2. DOMAIN cells = 1..Len(cells)
    BY <1>2
  <2> HIDE DEF in, cells
  <2>3. Gen!ElementBytes(packers, inner, in(a), at) =
          [c \in 1..Len(cells) |-> IF cells[c].at = <<>> THEN cells[c]
                                   ELSE [cells[c] EXCEPT !.at = at \o @]]
    BY <2>1 DEF Gen!ElementBytes
  <2>4. Gen!ElementBytes(packers, inner, in(a), at) = Moved(cells, at)
    BY <2>2, <2>3 DEF Moved
  <2> QED
    BY <1>1, <2>4 DEF One, cells
<1> HIDE DEF r
<1> QED
  BY <1>4, <1>5 DEF Copies

\* The call for a variable that is not bonded.
UnbondedCopies(packers, inner, doc, f, k) ==
  \E elem : /\ Copies(packers, inner, elem, f)
            /\ Gen!CppUnbonded(doc, f, k) = Gen!Spread(f, k, elem)

\* C++ writes such a variable as everyone does.
LEMMA CppUnbondedIs ==
  ASSUME NEW packers, NEW inner, NEW doc, NEW f \in FieldRecord, Knows(inner, f),
         SameNatural(doc, Gen!Payloads(doc), inner, f), NEW k
  PROVE  UnbondedCopies(packers, inner, doc, f, k)
<1> DEFINE t == Gen!VarType(doc, f)[2]
<1>1. t = IF f.type.full = "string" THEN "string"
          ELSE IF f.type.full \in BasicTypes THEN "primitive"
          ELSE IF Gen!NodeOf(doc, f.type.type).modifier.is_narrow THEN "narrow"
          ELSE "natural"
  BY ElementKinds
<1>2. Gen!CppUnbonded(doc, f, k) =
        Gen!Spread(f, k, CASE t = "primitive" -> Gen!NumberOf(f, "raw")
                           [] t = "natural"   -> Gen!ElementBlock(doc, f)
                           [] OTHER           -> Gen!TextOrNested(f))
  BY DEF Gen!CppUnbonded
<1>3. CASE t = "primitive"
  <2>1. f.type.full \in BasicTypes \ {"string"}
    BY <1>1, <1>3
  <2>2. Copies(packers, inner, Gen!NumberOf(f, "raw"), f)
    BY <2>1, NumberCopies
  <2>3. Gen!CppUnbonded(doc, f, k) = Gen!Spread(f, k, Gen!NumberOf(f, "raw"))
    <3> HIDE DEF t
    <3> QED
      BY <1>2, <1>3
  <2> QED
    BY <2>2, <2>3 DEF UnbondedCopies
<1>4. CASE t = "natural"
  <2>1. Copies(packers, inner, Gen!ElementBlock(doc, f), f)
    BY <1>4, ElementBlockCopies
  <2>2. Gen!CppUnbonded(doc, f, k) = Gen!Spread(f, k, Gen!ElementBlock(doc, f))
    <3> HIDE DEF t
    <3> QED
      BY <1>2, <1>4
  <2> QED
    BY <2>1, <2>2 DEF UnbondedCopies
<1>5. CASE t # "primitive" /\ t # "natural"
  <2>1. f.type.full \notin BasicTypes \ {"string"}
    BY <1>1, <1>5
  <2>2. Copies(packers, inner, Gen!TextOrNested(f), f)
    BY <2>1, TextOrNestedCopies
  <2>3. Gen!CppUnbonded(doc, f, k) = Gen!Spread(f, k, Gen!TextOrNested(f))
    <3> HIDE DEF t
    <3> QED
      BY Zenon, <1>2, <1>5
  <2> QED
    BY <2>2, <2>3 DEF UnbondedCopies
<1> QED
  BY <1>3, <1>4, <1>5

\* No raw copy of the node has a size that uint32_t wraps.
RunsFit(doc, node) ==
  LET groups == Gen!GroupsOf(doc, node, Gen!CppBond)
  IN  \A i \in DOMAIN groups : groups[i].is_bonded =>
        RunSize(doc, node, groups[i])[groups[i].len] <= MaxOf["uint32"]

\* A raw copy writes the fields it is for.
LEMMA CppBlockWrites ==
  ASSUME NEW packers, NEW inner, NEW doc, NEW node, KnowsAll(inner, node.fields),
         SizesKnown(doc, inner, node.fields),
         SameStructs(doc, Gen!Payloads(doc), inner, node.fields),
         NEW g, BondedFrom(doc, node.fields, g.first, g.len),
         RunSize(doc, node, g)[g.len] <= MaxOf["uint32"]
  PROVE  GroupWrites(packers, inner, node, g, << Gen!Block(doc, node, g) >>)
<1> DEFINE a == Span(FieldTexts(inner, node.fields), g.first, g.len)
           block == Gen!Block(doc, node, g)
<1>1. PICK rest \in Seq(CellType) :
        /\ Gen!PayloadFrom(doc, node, Gen!Payloads(doc), g.first) = a \o rest
        /\ a \in Seq(CellType)
  <2> DEFINE P == Gen!Payloads(doc)
             first == g.first
             len == g.len
  <2>1. SameStructs(doc, P, inner, node.fields) /\ BondedFrom(doc, node.fields, first, len)
    OBVIOUS
  <2> HIDE DEF P, first, len
  <2>2. \E rest \in Seq(CellType) :
          /\ Gen!PayloadFrom(doc, node, P, first) =
               Span(FieldTexts(inner, node.fields), first, len) \o rest
          /\ Span(FieldTexts(inner, node.fields), first, len) \in Seq(CellType)
          /\ first + len = Len(node.fields) + 1 => rest = <<>>
    BY <2>1, PayloadIs
  <2> QED
    BY <2>2 DEF P, first, len
<1>2. Gen!BondVarsSize(doc, node, g) = Len(a)
  <2> DEFINE size == Len(Span(FieldTexts(inner, node.fields), g.first, g.len))
  <2>1. /\ RunSize(doc, node, g)[g.len] = size
        /\ size <= MaxOf["uint32"] => Gen!BondVarsSize(doc, node, g) = size
    <3>1. RunIs(doc, node, inner, g)
      BY RunSizes
    <3> QED
      BY <3>1 DEF RunIs
  <2> QED
    BY <2>1
<1> HIDE DEF a
<1>3. block = [op |-> "block", at |-> <<>>, arg |-> [mem |-> a \o rest, size |-> Len(a)]]
  BY <1>1, <1>2 DEF Gen!Block, Gen!Instr
<1> HIDE DEF block
<1>4. Gen!InstrBytes(packers, inner, block) = a
  BY <1>1, <1>3, BlockIs, ZenonT(60)
<1>5. Written(packers, inner, << block >>) /\ Gen!StructBytes(packers, inner, << block >>) = a
  BY <1>1, <1>4, BytesSmall
<1> QED
  BY <1>5 DEF GroupWrites, a, block

\* A C++ function writes the struct or msg.
LEMMA CppWrites ==
  ASSUME NEW packers, NEW inner, NEW doc, NEW node, KnowsAll(inner, node.fields),
         SizesKnown(doc, inner, node.fields),
         SameNaturals(doc, Gen!Payloads(doc), inner, node.fields),
         RunsFit(doc, node)
  PROVE  /\ Gen!StructBytes(packers, inner, Gen!CppSerialize(doc, node)) = NodeBytes(inner, node)
         /\ Gen!StructBytes(packers, inner, Gen!CppDeserialize(doc, node)) = NodeBytes(inner, node)
<1> DEFINE groups == Gen!GroupsOf(doc, node, Gen!CppBond)
           types == Gen!FieldTypes(doc, node)
           pieces == [i \in DOMAIN groups |-> Gen!CppGroupInstr(doc, node, groups[i])]
<1>1. groups \in Seq(SoundGroups(types, Gen!CppBond))
  BY GroupsAre
<1>2. SameStructs(doc, Gen!Payloads(doc), inner, node.fields)
  BY NaturalIsStruct
<1>3. ASSUME NEW i \in DOMAIN groups
      PROVE  GroupWrites(packers, inner, node, groups[i], Gen!CppGroupInstr(doc, node, groups[i]))
  <2> DEFINE g == groups[i]
             f == node.fields[g.first]
             s == Gen!CppGroupInstr(doc, node, g)
  <2>1. g \in SoundGroups(types, Gen!CppBond)
    <3> HIDE DEF groups, types
    <3> QED
      BY <1>1, <1>3
  <2>2. g.is_bonded => RunSize(doc, node, g)[g.len] <= MaxOf["uint32"]
    BY DEF RunsFit
  <2>3. node.fields \in Seq(FieldRecord)
    BY DEF KnowsAll
  <2> HIDE DEF g
  <2>4. /\ g.is_bonded \in BOOLEAN /\ g.first \in 1..Len(node.fields)
        /\ ~g.is_bonded => g.len = 1
    BY <2>1, <2>3, CppGroupKinds
  <2>5. g.is_bonded => BondedFrom(doc, node.fields, g.first, g.len)
    BY <2>1, <2>3, CppGroupKinds
  <2>6. CASE g.is_bonded
    <3>1. s = << Gen!Block(doc, node, g) >>
      BY <2>6 DEF Gen!CppGroupInstr
    <3>2. GroupWrites(packers, inner, node, g, << Gen!Block(doc, node, g) >>)
      BY <1>2, <2>2, <2>5, <2>6, CppBlockWrites
    <3> QED
      BY <3>1, <3>2 DEF g
  <2>7. CASE ~g.is_bonded
    <3>1. /\ f \in FieldRecord /\ Knows(inner, f) /\ g.first \in Nat
          /\ SameNatural(doc, Gen!Payloads(doc), inner, f)
      BY <2>3, <2>4 DEF KnowsAll, SameNaturals
    <3>2. s = Gen!CppUnbonded(doc, f, g.first) \o Gen!PadInstr(f)
      BY <2>7 DEF Gen!CppGroupInstr
    <3> HIDE DEF f, s
    <3> DEFINE k == g.first
    <3> HIDE DEF k
    <3>9. UnbondedCopies(packers, inner, doc, f, k)
      BY <3>1, CppUnbondedIs
    <3>3. PICK elem : /\ Copies(packers, inner, elem, f)
                      /\ Gen!CppUnbonded(doc, f, g.first) = Gen!Spread(f, g.first, elem)
      BY <3>9 DEF k, UnbondedCopies
    <3> DEFINE p == Gen!Spread(f, g.first, elem) \o Gen!PadInstr(f)
    <3>4. /\ Written(packers, inner, p)
          /\ Gen!StructBytes(packers, inner, p) = FieldBytes(inner, f, g.first)
      BY <3>1, <3>3, SpreadBytes
    <3>5. s = p
      BY <3>2, <3>3
    <3> HIDE DEF p
    <3>6. GroupWrites(packers, inner, node, g, p)
      BY <2>4, <2>7, <3>4, AloneWrites DEF f
    <3> QED
      BY <3>5, <3>6 DEF s, g
  <2> QED
    BY <2>4, <2>6, <2>7
<1>4. /\ pieces = [i \in DOMAIN groups |-> pieces[i]]
      /\ \A i \in DOMAIN groups : GroupWrites(packers, inner, node, groups[i], pieces[i])
  BY <1>3
<1>5. Gen!CppSerialize(doc, node) = Gen!Body(pieces) /\ Gen!CppDeserialize(doc, node) = Gen!Body(pieces)
  BY DEF Gen!CppSerialize, Gen!CppDeserialize
<1> HIDE DEF pieces
<1>6. Gen!StructBytes(packers, inner, Gen!Body(pieces)) = NodeBytes(inner, node)
  BY <1>4, BodyBytes
<1> QED
  BY <1>5, <1>6

-----------------------------------------------------------------------------
(* The bytes of a document *)

StructLike(node) == node.kind \in {"struct", "msg"}

\* Names are distinct, and a type that is no number or text is that of a
\* struct above.
Orderly(doc) ==
  /\ doc \in Seq(NodeType)
  /\ \A j, k \in 1..Len(doc) : doc[j].name = doc[k].name => j = k
  /\ \A k \in 1..Len(doc) : \A f \in 1..Len(doc[k].fields) :
       doc[k].fields[f].type.full \notin BasicTypes =>
         \E j \in 1..(k - 1) :
           doc[j].name = doc[k].fields[f].type.type /\ doc[j].kind = "struct"

\* The structs and msgs among the first k declarations.
NamesTo(doc, k) == {doc[j].name : j \in {i \in 1..k : StructLike(doc[i])}}

\* What everyone writes for the structs and msgs of a document, by name.
TableOf(doc, h) ==
  /\ h[0] = <<>>
  /\ \A k \in 1..Len(doc) :
       h[k] = IF StructLike(doc[k])
                THEN Gen!Bind(h[k - 1], doc[k].name, NodeBytes(h[k - 1], doc[k]))
                ELSE h[k - 1]
  /\ \A k \in 0..Len(doc) : h[k] \in [NamesTo(doc, k) -> Seq(CellType)]

\* What a document in order consists of.
LEMMA NodeIs ==
  ASSUME NEW doc, Orderly(doc)
  PROVE  /\ Len(doc) \in Nat /\ DOMAIN doc = 1..Len(doc)
         /\ \A k \in 1..Len(doc) : /\ doc[k] \in NodeType /\ doc[k].name \in Names
                                   /\ doc[k].fields \in Seq(FieldRecord)
<1>1. doc \in Seq(NodeType)
  BY DEF Orderly
<1>2. ASSUME NEW k \in 1..Len(doc)
      PROVE  doc[k] \in NodeType /\ doc[k].name \in Names /\ doc[k].fields \in Seq(FieldRecord)
  <2>1. doc[k] \in NodeType
    BY <1>1
  <2>2. doc[k].name \in Names /\ doc[k].fields \in FieldsType
    BY <2>1 DEF NodeType
  <2> QED
    BY <2>1, <2>2, FieldsAreRecords
<1> QED
  BY <1>1, <1>2

\* The table knows the structs of the fields of the next declaration.
LEMMA TableKnows ==
  ASSUME NEW doc, Orderly(doc), NEW k \in 1..Len(doc),
         NEW t \in [NamesTo(doc, k - 1) -> Seq(CellType)]
  PROVE  KnowsAll(t, doc[k].fields)
<1>1. doc[k].fields \in Seq(FieldRecord) /\ Len(doc) \in Nat
  BY NodeIs
<1>2. ASSUME NEW f \in 1..Len(doc[k].fields) PROVE Knows(t, doc[k].fields[f])
  <2> SUFFICES ASSUME doc[k].fields[f].type.full \notin BasicTypes
               PROVE  t[doc[k].fields[f].type.type] \in Seq(CellType)
    BY DEF Knows
  <2>1. PICK j \in 1..(k - 1) : doc[j].name = doc[k].fields[f].type.type /\ doc[j].kind = "struct"
    BY DEF Orderly
  <2>2. doc[j].name \in NamesTo(doc, k - 1)
    BY <2>1 DEF NamesTo, StructLike
  <2> QED
    BY <2>1, <2>2
<1> QED
  BY <1>1, <1>2 DEF KnowsAll

\* A struct or msg is cells.
LEMMA NodeCells ==
  ASSUME NEW inner, NEW node, KnowsAll(inner, node.fields)
  PROVE  NodeBytes(inner, node) \in Seq(CellType)
<1>1. CASE node.fields = <<>>
  BY <1>1, CellsAre DEF NodeBytes
<1>2. CASE node.fields # <<>>
  <2> DEFINE F == FieldTexts(inner, node.fields)
  <2>1. F \in Seq(Seq(CellType))
    BY FieldTextsAre
  <2> HIDE DEF F
  <2>2. Gen!FlattenSeq(F) \in Seq(CellType)
    BY <2>1, FlattenTyped
  <2> QED
    BY <1>2, <2>2 DEF NodeBytes, F
<1> QED
  BY <1>1, <1>2

\* A table with one more.
LEMMA BindIs ==
  ASSUME NEW D, NEW S, NEW t \in [D -> S], NEW name, NEW v \in S
  PROVE  /\ Gen!Bind(t, name, v) \in [D \cup {name} -> S]
         /\ Gen!Bind(t, name, v)[name] = v
         /\ \A m \in D : m # name => Gen!Bind(t, name, v)[m] = t[m]
BY DEF Gen!Bind

\* A declaration adds its name if it is a struct or msg.
LEMMA NamesGrow ==
  ASSUME NEW doc, Orderly(doc), NEW k \in 1..Len(doc)
  PROVE  NamesTo(doc, k) = IF StructLike(doc[k]) THEN NamesTo(doc, k - 1) \cup {doc[k].name}
                                                 ELSE NamesTo(doc, k - 1)
<1>1. Len(doc) \in Nat
  BY NodeIs
<1>2. \A i : i \in 1..k <=> i \in 1..(k - 1) \/ i = k
  BY <1>1
<1> QED
  BY <1>2 DEF NamesTo

\* There is such a table for every document.
LEMMA TableExists ==
  ASSUME NEW doc, Orderly(doc)
  PROVE  \E h : TableOf(doc, h)
<1> DEFINE n == Len(doc)
           S == UNION {[D -> Seq(CellType)] : D \in SUBSET Names}
           Value(k, t) == IF KnowsAll(t, doc[k].fields) THEN NodeBytes(t, doc[k]) ELSE <<>>
           Add(k, t) == IF StructLike(doc[k]) THEN Gen!Bind(t, doc[k].name, Value(k, t)) ELSE t
           step == [k \in 1..n |-> [t \in S |-> Add(k, t)]]
<1>1. n \in Nat /\ \A k \in 1..n : doc[k].name \in Names
  BY NodeIs
<1>2. <<>> \in S
  <2>1. <<>> \in [{} -> Seq(CellType)]
    OBVIOUS
  <2> QED
    BY <2>1
<1>3. ASSUME NEW k \in 1..n, NEW t \in S PROVE Add(k, t) \in S
  <2> DEFINE v == Value(k, t)
             name == doc[k].name
  <2>1. v \in Seq(CellType)
    BY NodeCells
  <2>2. PICK D \in SUBSET Names : t \in [D -> Seq(CellType)]
    OBVIOUS
  <2>3. name \in Names
    BY <1>1
  <2> HIDE DEF v, name
  <2>4. Gen!Bind(t, name, v) \in [D \cup {name} -> Seq(CellType)] /\ D \cup {name} \in SUBSET Names
    BY <2>1, <2>2, <2>3, BindIs
  <2>5. Gen!Bind(t, name, v) \in S
    BY <2>4
  <2> QED
    BY <2>5 DEF v, name
<1> HIDE DEF Add, S
<1>4. step \in [1..n -> [S -> S]]
  BY <1>3
<1>5. PICK h \in [0..n -> S] : Follows(h, n, <<>>, step)
  <2> HIDE DEF step, n
  <2> QED
    BY <1>1, <1>2, <1>4, SegmentRecursion
<1>6. h[0] = <<>> /\ \A k \in 1..n : h[k] = Add(k, h[k - 1])
  <2>1. h[0] = <<>>
    BY <1>5 DEF Follows
  <2>2. ASSUME NEW k \in 1..n PROVE h[k] = Add(k, h[k - 1])
    <3>1. k - 1 \in 0..n /\ h[k - 1] \in S
      BY <1>1, <1>5
    <3>2. h[k] = step[k][h[k - 1]]
      BY <1>5 DEF Follows
    <3> QED
      BY <3>1, <3>2
  <2> QED
    BY <2>1, <2>2
<1> HIDE DEF n
<1> DEFINE Good == {k \in 0..n : h[k] \in [NamesTo(doc, k) -> Seq(CellType)]}
<1>7. 0 \in Good
  <2>1. NamesTo(doc, 0) = {}
    BY DEF NamesTo
  <2>2. <<>> \in [{} -> Seq(CellType)]
    OBVIOUS
  <2>3. h[0] \in [NamesTo(doc, 0) -> Seq(CellType)]
    <3> HIDE DEF step
    <3> QED
      BY <1>6, <2>1, <2>2
  <2>4. 0 \in 0..n
    BY <1>1
  <2> QED
    BY <2>3, <2>4
<1>8. ASSUME NEW k \in 1..n, k - 1 \in Good
      PROVE  /\ k \in Good
             /\ StructLike(doc[k]) =>
                  h[k] = Gen!Bind(h[k - 1], doc[k].name, NodeBytes(h[k - 1], doc[k]))
             /\ ~StructLike(doc[k]) => h[k] = h[k - 1]
  <2> DEFINE t == h[k - 1]
             v == NodeBytes(t, doc[k])
             name == doc[k].name
  <2>1. t \in [NamesTo(doc, k - 1) -> Seq(CellType)] /\ k \in 0..n /\ k \in 1..Len(doc)
    BY <1>1, <1>8 DEF n
  <2>2. h[k] = Add(k, t)
    BY <1>6
  <2> HIDE DEF t
  <2>3. KnowsAll(t, doc[k].fields)
    BY <2>1, TableKnows
  <2>4. v \in Seq(CellType)
    BY <2>3, NodeCells
  <2>5. h[k] = IF StructLike(doc[k]) THEN Gen!Bind(t, name, v) ELSE t
    BY <2>2, <2>3 DEF Add
  <2>6. NamesTo(doc, k) = IF StructLike(doc[k]) THEN NamesTo(doc, k - 1) \cup {name}
                                                ELSE NamesTo(doc, k - 1)
    BY <2>1, NamesGrow
  <2> HIDE DEF v, name
  <2>7. Gen!Bind(t, name, v) \in [NamesTo(doc, k - 1) \cup {name} -> Seq(CellType)]
    BY <2>1, <2>4, BindIs
  <2>8. h[k] \in [NamesTo(doc, k) -> Seq(CellType)]
    BY <2>1, <2>5, <2>6, <2>7
  <2> QED
    BY <2>1, <2>5, <2>8 DEF t, v, name
<1>9. 0..n \subseteq Good
  <2> HIDE DEF Good
  <2> QED
    BY <1>1, <1>7, <1>8, SegmentInduction
<1>10. ASSUME NEW k \in 1..n
       PROVE  h[k] = IF StructLike(doc[k])
                THEN Gen!Bind(h[k - 1], doc[k].name, NodeBytes(h[k - 1], doc[k]))
                ELSE h[k - 1]
  <2>1. k - 1 \in 0..n
    BY <1>1
  <2>2. k - 1 \in Good
    BY <1>9, <2>1
  <2> HIDE DEF Good
  <2> QED
    BY <1>8, <2>2
<1>11. TableOf(doc, h)
  BY <1>6, <1>9, <1>10 DEF TableOf, n
<1> QED
  BY <1>11

\* What the table says of a struct or msg stays, whatever is added.
LEMMA TableKeeps ==
  ASSUME NEW doc, Orderly(doc), NEW h, TableOf(doc, h), NEW j \in 1..Len(doc), StructLike(doc[j])
  PROVE  \A k \in j..Len(doc) : /\ doc[j].name \in NamesTo(doc, k)
                                /\ h[k][doc[j].name] = NodeBytes(h[j - 1], doc[j])
                                /\ NodeBytes(h[j - 1], doc[j]) \in Seq(CellType)
<1> DEFINE n == Len(doc)
           v == NodeBytes(h[j - 1], doc[j])
           name == doc[j].name
           Good == {k \in 0..n : k >= j => h[k][name] = v}
<1>1. n \in Nat /\ j \in 1..n
  BY NodeIs
<1>2. \A k \in 1..n :
        /\ k - 1 \in 0..n
        /\ h[k - 1] \in [NamesTo(doc, k - 1) -> Seq(CellType)]
        /\ h[k] = IF StructLike(doc[k])
                    THEN Gen!Bind(h[k - 1], doc[k].name, NodeBytes(h[k - 1], doc[k]))
                    ELSE h[k - 1]
  <2>1. \A k \in 1..n : k - 1 \in 0..n
    BY <1>1
  <2> QED
    BY <2>1 DEF TableOf
<1>3. \A k \in 1..n : NodeBytes(h[k - 1], doc[k]) \in Seq(CellType)
  <2> SUFFICES ASSUME NEW k \in 1..n PROVE NodeBytes(h[k - 1], doc[k]) \in Seq(CellType)
    OBVIOUS
  <2> DEFINE t == h[k - 1]
  <2>1. t \in [NamesTo(doc, k - 1) -> Seq(CellType)]
    BY <1>2
  <2> HIDE DEF t
  <2>2. KnowsAll(t, doc[k].fields)
    BY <2>1, TableKnows
  <2>3. NodeBytes(t, doc[k]) \in Seq(CellType)
    BY <2>2, NodeCells
  <2> QED
    BY <2>3 DEF t
<1>4. 0 \in Good
  BY <1>1
<1>5. ASSUME NEW k \in 1..n, k - 1 \in Good PROVE k \in Good
  <2> DEFINE t == h[k - 1]
             w == NodeBytes(t, doc[k])
             D == NamesTo(doc, k - 1)
  <2>1. t \in [D -> Seq(CellType)] /\ w \in Seq(CellType)
        /\ h[k] = IF StructLike(doc[k]) THEN Gen!Bind(t, doc[k].name, w) ELSE t
    BY <1>2, <1>3
  <2>2. k \in 0..n
    BY <1>1
  <2>3. CASE k < j
    BY <1>1, <2>2, <2>3
  <2>4. CASE k = j
    <3>1. w = v /\ StructLike(doc[k]) /\ doc[k].name = name
      BY <2>4
    <3> DEFINE S == Seq(CellType)
    <3>3. t \in [D -> S] /\ w \in S
          /\ h[k] = IF StructLike(doc[k]) THEN Gen!Bind(t, doc[k].name, w) ELSE t
      BY <2>1
    <3> HIDE DEF t, w, v, D, S, name
    <3>4. Gen!Bind(t, name, w)[name] = w
      BY DEF Gen!Bind
    <3>2. h[k][name] = v
      BY <3>1, <3>3, <3>4
    <3> QED
      BY <2>2, <3>2
  <2>5. CASE k > j
    <3>1. t[name] = v
      BY <1>1, <1>5, <2>5
    <3>2. name \in D /\ doc[k].name # name
      <4>1. j \in 1..(k - 1)
        BY <1>1, <2>5
      <4>2. name \in D
        BY <4>1 DEF NamesTo
      <4>3. doc[k].name # name
        BY <1>1, <2>5 DEF Orderly
      <4> QED
        BY <4>2, <4>3
    <3> DEFINE S == Seq(CellType)
               nm == doc[k].name
    <3>5. t \in [D -> S] /\ w \in S /\ name \in D /\ nm # name
          /\ h[k] = IF StructLike(doc[k]) THEN Gen!Bind(t, nm, w) ELSE t
      BY <2>1, <3>2
    <3> HIDE DEF t, w, v, D, name, S, nm
    <3>6. \A m \in D : m # nm => Gen!Bind(t, nm, w)[m] = t[m]
      BY <3>5 DEF Gen!Bind
    <3>3. Gen!Bind(t, nm, w)[name] = t[name]
      BY <3>5, <3>6
    <3>4. h[k][name] = v
      BY <3>1, <3>3, <3>5
    <3> QED
      BY <2>2, <3>4
  <2> QED
    BY <1>1, <2>3, <2>4, <2>5
<1> HIDE DEF Good
<1>6. 0..n \subseteq Good
  BY <1>1, <1>4, <1>5, SegmentInduction
<1>7. ASSUME NEW k \in j..n PROVE name \in NamesTo(doc, k) /\ h[k][name] = v
  <2>1. k \in 0..n /\ k >= j /\ j \in 1..k
    BY <1>1
  <2>2. k \in Good
    BY <1>6, <2>1
  <2>3. h[k][name] = v
    BY <2>1, <2>2 DEF Good
  <2>4. name \in NamesTo(doc, k)
    BY <2>1 DEF NamesTo
  <2> QED
    BY <2>3, <2>4
<1> QED
  BY <1>1, <1>3, <1>7

\* A function of each class writes what the table says.
WritesTable(lang, fn, doc, h) ==
  \A k \in 1..Len(doc) : StructLike(doc[k]) =>
    Gen!StructBytes(Gen!StructPacker(doc, doc[k]), h[k - 1], Gen!Instrs(lang, fn, doc, doc[k]))
      = NodeBytes(h[k - 1], doc[k])

\* Then what the function writes for the whole document is the table.
LEMMA WireIs ==
  ASSUME NEW doc, Orderly(doc), NEW h, TableOf(doc, h), NEW lang, NEW fn,
         WritesTable(lang, fn, doc, h)
  PROVE  Gen!WireBytes(lang, fn, doc) = h[Len(doc)]
<1> DEFINE n == Len(doc)
           Text(k, t) == Gen!StructBytes(Gen!StructPacker(doc, doc[k]), t,
                                         Gen!Instrs(lang, fn, doc, doc[k]))
           Add(k, t) == IF ~Gen!IsStructLike(doc[k]) THEN t
                        ELSE Gen!Bind(t, doc[k].name, Text(k, t))
           Rec(u) == [k \in 0..n |-> IF k = 0 THEN <<>> ELSE Add(k, u[k - 1])]
           upto == CHOOSE u : u = Rec(u)
           r == [k \in 0..n |-> h[k]]
<1>1. Gen!WireBytes(lang, fn, doc) = upto[n]
  BY DEF Gen!WireBytes
<1>2. n \in Nat
  BY NodeIs
<1>3. h[0] = <<>> /\ \A k \in 1..n : h[k] = Add(k, h[k - 1])
  <2>1. h[0] = <<>>
    BY DEF TableOf
  <2>2. ASSUME NEW k \in 1..n PROVE h[k] = Add(k, h[k - 1])
    <3>1. StructLike(doc[k]) => Text(k, h[k - 1]) = NodeBytes(h[k - 1], doc[k])
      BY DEF WritesTable
    <3>2. h[k] = IF StructLike(doc[k])
                   THEN Gen!Bind(h[k - 1], doc[k].name, NodeBytes(h[k - 1], doc[k]))
                   ELSE h[k - 1]
      BY DEF TableOf
    <3>3. StructLike(doc[k]) <=> Gen!IsStructLike(doc[k])
      BY DEF StructLike, Gen!IsStructLike
    <3> HIDE DEF Text
    <3> QED
      BY <3>1, <3>2, <3>3
  <2> QED
    BY <2>1, <2>2
<1> HIDE DEF Add
<1>4. \A k \in 0..n : k # 0 => k \in 1..n /\ k - 1 \in 0..n
  BY <1>2
<1>5. r = Rec(r)
  <2> SUFFICES ASSUME NEW k \in 0..n
               PROVE  r[k] = IF k = 0 THEN <<>> ELSE Add(k, r[k - 1])
    BY Zenon
  <2>1. CASE k = 0
    BY <1>3, <2>1
  <2>2. CASE k # 0
    BY <1>3, <1>4, <2>2
  <2> QED
    BY <2>1, <2>2
<1> HIDE DEF Rec, r
<1>6. upto = Rec(upto)
  BY <1>5
<1> HIDE DEF upto, n
<1>7. upto[0] = <<>> /\ \A k \in 1..n : upto[k] = Add(k, upto[k - 1])
  <2>1. 0 \in 0..n /\ \A k \in 1..n : k \in 0..n /\ k # 0
    BY <1>2
  <2> QED
    BY <1>6, <2>1 DEF Rec
<1> DEFINE Same == {k \in 0..n : upto[k] = h[k]}
<1>8. 0 \in Same
  BY <1>2, <1>3, <1>7
<1>9. ASSUME NEW k \in 1..n, k - 1 \in Same PROVE k \in Same
  BY <1>2, <1>3, <1>7, <1>9
<1> HIDE DEF Same
<1>10. 0..n \subseteq Same
  BY <1>2, <1>8, <1>9, SegmentInduction
<1>11. upto[n] = h[n]
  BY <1>2, <1>10 DEF Same
<1> QED
  BY <1>1, <1>11 DEF n

\* Variables that all match are one run.
LEMMA OneRun ==
  ASSUME NEW T, NEW types \in Seq(T), types # <<>>, NEW rules,
         \A k \in 1..Len(types) : types[k] \in rules
  PROVE  /\ 1 \in DOMAIN BondVars(types, rules)
         /\ BondVars(types, rules)[1] = Group(TRUE, 1, Len(types))
<1> DEFINE n == Len(types)
           g == GroupAt(types, rules, 1)
<1>1. n \in Nat /\ n >= 1
  OBVIOUS
<1>2. 1 \in 1..n
  BY <1>1
<1>3. RunLength(types, rules, 1) = n
  <2> DEFINE r == RunLength(types, rules, 1)
  <2>1. /\ r \in 0..(n - 1 + 1)
        /\ 1 + r > n \/ types[1 + r] \notin rules
    BY <1>2, RunFacts
  <2> HIDE DEF r
  <2>2. ~(1 + r <= n)
    <3> SUFFICES ASSUME 1 + r <= n PROVE FALSE
      OBVIOUS
    <3>1. 1 + r \in 1..n
      BY <1>1, <2>1
    <3> QED
      BY <1>1, <2>1, <3>1
  <2>3. r = n
    BY <1>1, <2>1, <2>2
  <2> QED
    BY <2>3 DEF r
<1>4. g = Group(TRUE, 1, n)
  <2>1. n # 0
    BY <1>1
  <2> HIDE DEF n
  <2> QED
    BY <1>3, <2>1 DEF GroupAt
<1>5. PICK from : BondsFrom(types, rules, from) /\ BondVars(types, rules) = from[1]
  BY BondVarsRecursion
<1>6. g.len = n
  BY <1>4 DEF Group
<1>7. from[1] = <<g>> \o from[1 + g.len] /\ from[n + 1] = <<>>
  BY <1>2, <1>5 DEF BondsFrom
<1> HIDE DEF g
<1>8. from[1 + g.len] = <<>>
  <2>1. 1 + n = n + 1
    BY <1>1
  <2> QED
    BY <1>6, <1>7, <2>1
<1>9. from[1] = <<g>>
  BY <1>7, <1>8
<1> QED
  BY <1>4, <1>5, <1>9

\* A name leads to its declaration.
LEMMA NodeOfIs ==
  ASSUME NEW doc, Orderly(doc), NEW j \in 1..Len(doc)
  PROVE  Gen!NodeOf(doc, doc[j].name) = doc[j]
<1>1. DOMAIN doc = 1..Len(doc)
  BY NodeIs
<1>2. \A k \in 1..Len(doc) : doc[k].name = doc[j].name => k = j
  BY DEF Orderly
<1> QED
  BY <1>1, <1>2 DEF Gen!NodeOf

\* What a field of a natural struct takes, as the front end computes it.
LaidSize(doc, f) ==
  IF f.array.is_array THEN U32(Gen!ElementSize(doc, f) * f.array.static_array_len)
                      ELSE Gen!ElementSize(doc, f)

\* Sizes and paddings, added up in uint32_t, lead to the size of the struct.
Adds(doc, node, run) ==
  /\ run[0] = 0
  /\ \A k \in 1..Len(node.fields) :
       run[k] = U32(run[k - 1] + LaidSize(doc, node.fields[k]) + PaddingOf(node.fields[k]))
  /\ node.modifier.struct_size =
       IF run[Len(node.fields)] = 0 THEN 1 ELSE run[Len(node.fields)]

NodeSized(doc, node) ==
  /\ \A k \in 1..Len(node.fields) : Bonds(doc, node.fields[k])
  /\ \E run : Adds(doc, node, run)

\* Every natural struct or msg was laid out with the sizes of those in it.
Sized(doc) ==
  \A k \in 1..Len(doc) : NaturalKind(doc[k]) => NodeSized(doc, doc[k])

\* The one run of a natural struct fits.
LEMMA WholeFits ==
  ASSUME NEW doc, NEW node, node.fields \in Seq(FieldRecord), node.fields # <<>>,
         \A k \in 1..Len(node.fields) : Bonds(doc, node.fields[k]),
         RunsFit(doc, node)
  PROVE  RunSize(doc, node, Group(TRUE, 1, Len(node.fields)))[Len(node.fields)]
           <= MaxOf["uint32"]
<1> DEFINE types == Gen!FieldTypes(doc, node)
           groups == Gen!GroupsOf(doc, node, Gen!CppBond)
           n == Len(node.fields)
           A == {types[k] : k \in 1..n}
<1>1. n \in Nat /\ Len(types) = n /\ \A k \in 1..n : types[k] = Gen!VarType(doc, node.fields[k])
  BY FieldTypesAre
<1>2. types \in Seq(A)
  <2>1. types = [k \in 1..n |-> types[k]]
    BY <1>1 DEF Gen!FieldTypes
  <2>2. types \in [1..n -> A]
    BY <2>1
  <2> HIDE DEF types, A, n
  <2> QED
    BY <1>1, <2>2, SeqIs
<1>3. types # <<>>
  <2>1. n # 0
    OBVIOUS
  <2> HIDE DEF types, n
  <2> QED
    BY <1>1, <2>1
<1>4. \A k \in 1..Len(types) : types[k] \in Gen!CppBond
  BY <1>1 DEF Bonds
<1>5. groups = BondVars(types, Gen!CppBond)
  BY SameBonds DEF Gen!GroupsOf
<1> HIDE DEF types, A
<1>6. /\ 1 \in DOMAIN BondVars(types, Gen!CppBond)
      /\ BondVars(types, Gen!CppBond)[1] = Group(TRUE, 1, Len(types))
  BY <1>2, <1>3, <1>4, OneRun
<1>7. 1 \in DOMAIN groups /\ groups[1] = Group(TRUE, 1, n)
  BY <1>1, <1>5, <1>6
<1>8. groups[1].is_bonded /\ groups[1].len = n
  BY <1>7 DEF Group
<1>9. RunSize(doc, node, groups[1])[groups[1].len] <= MaxOf["uint32"]
  BY <1>7, <1>8 DEF RunsFit
<1> QED
  BY <1>7, <1>8, <1>9

\* A size that fits is the same in uint32_t.
LEMMA FitsU32 ==
  ASSUME NEW x \in Nat, x <= MaxOf["uint32"]
  PROVE  U32(x) = x
BY WidthFacts DEF U32

\* The layout and the generator agree on the size of a bonded field.
LEMMA LaidIsRaw ==
  ASSUME NEW doc, NEW inner, NEW f \in FieldRecord, Knows(inner, f), Bonds(doc, f),
         SizeKnown(doc, inner, f), RawSize(doc, f) <= MaxOf["uint32"]
  PROVE  LaidSize(doc, f) = RawSize(doc, f)
<1> DEFINE e == Gen!ElementSize(doc, f)
           n == f.array.static_array_len
<1>1. e \in Nat
  <2>1. <<>> \in Path
    BY DEF Path
  <2> QED
    BY <2>1, ElementSizeIs
<1>2. RawSize(doc, f) \in Nat
  BY FieldSizeIs
<1>3. RawSize(doc, f) = IF f.array.is_array THEN e * n ELSE e * 1
  BY DEF RawSize
<1>4. LaidSize(doc, f) = IF f.array.is_array THEN U32(e * n) ELSE e
  BY DEF LaidSize
<1> HIDE DEF e, n
<1>5. CASE f.array.is_array
  <2>1. U32(RawSize(doc, f)) = RawSize(doc, f)
    BY <1>2, FitsU32
  <2> QED
    BY <1>3, <1>4, <1>5, <2>1
<1>6. CASE ~f.array.is_array
  BY <1>1, <1>3, <1>4, <1>6
<1> QED
  BY <1>5, <1>6

\* A natural struct takes the bytes its layout says, if those in it do.
LEMMA NaturalSizeIs ==
  ASSUME NEW doc, NEW node, NEW inner, KnowsAll(inner, node.fields),
         SizesKnown(doc, inner, node.fields), NodeSized(doc, node), RunsFit(doc, node)
  PROVE  /\ Len(NodeBytes(inner, node)) = node.modifier.struct_size
         /\ NodeBytes(inner, node) # <<>>
<1> DEFINE n == Len(node.fields)
           F == FieldTexts(inner, node.fields)
           size == Len(Span(F, 1, n))
           Raw(j) == RawSize(doc, node.fields[1 + j - 1])
           Pad(j) == PaddingOf(node.fields[1 + j - 1])
           L == Lengths(F, 1, n)
<1>1. node.fields \in Seq(FieldRecord) /\ n \in Nat
  BY DEF KnowsAll
<1>2. PICK run : Adds(doc, node, run)
  BY DEF NodeSized
<1>3. CASE node.fields = <<>>
  <2>1. n = 0
    BY <1>3
  <2>2. node.modifier.struct_size = 1
    BY <1>2, <2>1 DEF Adds
  <2>3. Len(Gen!Placeholder(1)) = 1
    BY CellsAre
  <2>4. NodeBytes(inner, node) = Gen!Placeholder(1)
    BY <1>3 DEF NodeBytes
  <2> DEFINE p == Gen!Placeholder(1)
  <2>5. NodeBytes(inner, node) = p /\ Len(p) = 1
    BY <2>3, <2>4
  <2> HIDE DEF n, p
  <2>6. p # <<>>
    BY <2>5
  <2> QED
    BY <2>2, <2>5, <2>6
<1>4. CASE node.fields # <<>>
  <2>1. n \in Nat \ {0}
    BY <1>1, <1>4
  <2>2. BondedFrom(doc, node.fields, 1, n)
    <3>1. \A k \in 1..(1 + n - 1) : Bonds(doc, node.fields[k])
      BY <2>1 DEF NodeSized
    <3> QED
      BY <2>1, <3>1 DEF BondedFrom
  <2>3. /\ L[0] = 0
        /\ \A j \in 0..n : L[j] \in Nat /\ L[j] <= L[n]
        /\ \A j \in 1..n : /\ L[j] = L[j - 1] + (Raw(j) + Pad(j))
                           /\ Raw(j) \in Nat \ {0} /\ Pad(j) \in Nat
        /\ L[n] = size /\ L[n] \in Nat \ {0}
    <3> DEFINE first == 1
               len == n
               LL == Lengths(FieldTexts(inner, node.fields), first, len)
               RawR(j) == RawSize(doc, node.fields[first + j - 1])
               PadR(j) == PaddingOf(node.fields[first + j - 1])
    <3>1. BondedFrom(doc, node.fields, first, len)
      BY <2>2
    <3> HIDE DEF first, len
    <3>2. /\ len \in Nat \ {0} /\ LL[0] = 0
          /\ \A j \in 0..len : LL[j] \in Nat /\ LL[j] <= LL[len]
          /\ \A j \in 1..len : /\ LL[j] = LL[j - 1] + (RawR(j) + PadR(j))
                               /\ RawR(j) \in Nat \ {0} /\ PadR(j) \in Nat
          /\ LL[len] = Len(Span(FieldTexts(inner, node.fields), first, len))
          /\ LL[len] \in Nat \ {0}
      BY <3>1, RunNumbers
    <3> HIDE DEF F
    <3> QED
      BY <3>2 DEF first, len, F
  <2>4. size <= MaxOf["uint32"]
    <3> DEFINE g == Group(TRUE, 1, n)
    <3>1. g.first = 1 /\ g.len = n
      BY DEF Group
    <3>2. \A k \in 1..n : Bonds(doc, node.fields[k])
      BY DEF NodeSized
    <3>3. RunSize(doc, node, g)[n] <= MaxOf["uint32"]
      BY <1>1, <1>4, <3>2, WholeFits
    <3> HIDE DEF g, n
    <3>4. BondedFrom(doc, node.fields, g.first, g.len)
      BY <2>2, <3>1
    <3>5. RunIs(doc, node, inner, g)
      BY <3>4, RunSizes
    <3>6. RunSize(doc, node, g)[g.len] = Len(Span(F, g.first, g.len))
      BY <3>5 DEF RunIs
    <3> HIDE DEF F
    <3>7. RunSize(doc, node, g)[n] = Len(Span(F, 1, n))
      BY <3>1, <3>6
    <3> QED
      BY <3>3, <3>7
  <2>5. NodeBytes(inner, node) = Gen!FlattenSeq(F) /\ Len(NodeBytes(inner, node)) = size
    <3>1. F \in Seq(Seq(CellType)) /\ Len(F) = n
      BY FieldTextsAre
    <3>2. NodeBytes(inner, node) = Gen!FlattenSeq(F)
      BY <1>4 DEF NodeBytes
    <3> HIDE DEF F, n
    <3>3. Span(F, 1, Len(F)) = Gen!FlattenSeq(F)
      BY <3>1, SpanSmall
    <3> QED
      BY <3>1, <3>2, <3>3
  <2>6. \A j \in 1..n :
          run[j] = U32(run[j - 1] + LaidSize(doc, node.fields[1 + j - 1]) + Pad(j))
    <3>1. \A j \in 1..n : 1 + j - 1 = j
      BY <1>1
    <3> QED
      BY <1>2, <3>1 DEF Adds
  <2>7. \A j \in 1..n : 1 + j - 1 \in 1..n
    BY <1>1
  <2> DEFINE Good == {j \in 0..n : run[j] = L[j]}
  <2>8. 0 \in Good
    BY <1>1, <1>2, <2>3 DEF Adds
  <2>9. ASSUME NEW j \in 1..n, j - 1 \in Good PROVE j \in Good
    <3> DEFINE f == node.fields[1 + j - 1]
    <3>1. Raw(j) = RawSize(doc, f) /\ Pad(j) = PaddingOf(f)
      OBVIOUS
    <3>2. f \in FieldRecord /\ Knows(inner, f) /\ Bonds(doc, f) /\ SizeKnown(doc, inner, f)
      <4>1. 1 + j - 1 \in 1..Len(node.fields)
        BY <2>7
      <4> QED
        BY <1>1, <4>1 DEF KnowsAll, SizesKnown, NodeSized
    <3>3. run[j] = U32(run[j - 1] + LaidSize(doc, f) + Pad(j))
      BY <2>6
    <3> HIDE DEF f, L, Raw, Pad, n, size
    <3>4. j - 1 \in 0..n /\ j \in 0..n /\ run[j - 1] = L[j - 1]
      BY <1>1, <2>9
    <3>5. /\ L[j - 1] \in Nat /\ L[j] \in Nat /\ L[j] <= MaxOf["uint32"]
          /\ L[j] = L[j - 1] + (Raw(j) + Pad(j)) /\ Raw(j) \in Nat /\ Pad(j) \in Nat
      BY <2>3, <2>4, <3>4, WidthFacts
    <3>6. Raw(j) <= MaxOf["uint32"]
      BY <3>5, WidthFacts
    <3>7. LaidSize(doc, f) = Raw(j)
      BY <3>1, <3>2, <3>6, LaidIsRaw
    <3>8. run[j - 1] + LaidSize(doc, f) + Pad(j) = L[j]
      BY <3>4, <3>5, <3>7
    <3>9. run[j] = L[j]
      BY <3>3, <3>5, <3>8, FitsU32
    <3> QED
      BY <3>4, <3>9
  <2> HIDE DEF Good
  <2>10. 0..n \subseteq Good
    BY <1>1, <2>8, <2>9, SegmentInduction
  <2>11. run[n] = size
    BY <2>1, <2>3, <2>10, SMTT(60) DEF Good
  <2>12. node.modifier.struct_size = size
    <3>1. node.modifier.struct_size = IF run[n] = 0 THEN 1 ELSE run[n]
      BY <1>2 DEF Adds
    <3> HIDE DEF size, n, L
    <3> QED
      BY <2>3, <2>11, <3>1
  <2>13. size # 0
    BY <2>3
  <2>14. NodeBytes(inner, node) # <<>>
    <3> HIDE DEF size
    <3> QED
      BY <2>5, <2>13
  <2> QED
    BY <2>5, <2>12, <2>14
<1> QED
  BY <1>3, <1>4

\* Declaration j is the natural struct that a field of declaration k contains.
Contains(doc, h, k, f, j) ==
  /\ j \in 1..(k - 1) /\ doc[j].name = f.type.type /\ NaturalKind(doc[j])
  /\ Gen!NodeOf(doc, f.type.type) = doc[j]
  /\ h[k - 1][f.type.type] = NodeBytes(h[j - 1], doc[j])
  /\ h[Len(doc)][f.type.type] = NodeBytes(h[j - 1], doc[j])

\* The struct a field contains is declared before, and the table has its bytes.
LEMMA ContainsStruct ==
  ASSUME NEW doc, Orderly(doc), NEW h, TableOf(doc, h), NEW k \in 1..Len(doc),
         NEW i \in 1..Len(doc[k].fields), doc[k].fields[i].type.full \notin BasicTypes,
         ~Gen!NodeOf(doc, doc[k].fields[i].type.type).modifier.is_narrow
  PROVE  \E j : Contains(doc, h, k, doc[k].fields[i], j)
<1> DEFINE f == doc[k].fields[i]
           n == Len(doc)
<1>1. n \in Nat
  BY NodeIs
<1>2. PICK j \in 1..(k - 1) : doc[j].name = f.type.type /\ doc[j].kind = "struct"
  BY DEF Orderly
<1>3. j \in 1..n /\ k - 1 \in j..n /\ n \in j..n
  BY <1>1
<1>4. Gen!NodeOf(doc, f.type.type) = doc[j]
  BY <1>2, <1>3, NodeOfIs
<1>5. NaturalKind(doc[j]) /\ StructLike(doc[j])
  BY <1>2, <1>4 DEF NaturalKind, StructLike
<1> DEFINE v == NodeBytes(h[j - 1], doc[j])
           name == doc[j].name
<1>6. \A m \in j..n : h[m][name] = v
  BY <1>3, <1>5, TableKeeps
<1> HIDE DEF v, n
<1>7. h[k - 1][name] = v /\ h[n][name] = v
  BY <1>3, <1>6
<1> QED
  BY <1>2, <1>4, <1>5, <1>7 DEF Contains, v, n

\* Declaration j takes the bytes its layout says.
SizeRight(doc, h, j) ==
  /\ Len(NodeBytes(h[j - 1], doc[j])) = doc[j].modifier.struct_size
  /\ NodeBytes(h[j - 1], doc[j]) # <<>>

\* If the declarations above take the bytes their layouts say, the sizes of the
\* structs that the fields contain are known.
LEMMA SizesFromAbove ==
  ASSUME NEW doc, Orderly(doc), NEW h, TableOf(doc, h), NEW k \in 1..Len(doc),
         \A j \in 1..(k - 1) : NaturalKind(doc[j]) => SizeRight(doc, h, j)
  PROVE  SizesKnown(doc, h[k - 1], doc[k].fields)
<1> SUFFICES ASSUME NEW i \in 1..Len(doc[k].fields)
             PROVE  SizeKnown(doc, h[k - 1], doc[k].fields[i])
  BY DEF SizesKnown
<1> DEFINE f == doc[k].fields[i]
<1> SUFFICES ASSUME Bonds(doc, f), f.type.full \notin BasicTypes
             PROVE  /\ Len(h[k - 1][f.type.type]) = Gen!NodeOf(doc, f.type.type).modifier.struct_size
                    /\ h[k - 1][f.type.type] # <<>>
  BY DEF SizeKnown
<1>1. ~Gen!NodeOf(doc, f.type.type).modifier.is_narrow
  BY BondKinds
<1>2. PICK j : Contains(doc, h, k, f, j)
  BY <1>1, ContainsStruct
<1>3. SizeRight(doc, h, j)
  BY <1>2 DEF Contains
<1> QED
  BY <1>2, <1>3 DEF Contains, SizeRight

\* The fields of a declaration are known when it comes to it.
LEMMA FieldsKnown ==
  ASSUME NEW doc, Orderly(doc), NEW h, TableOf(doc, h), NEW k \in 1..Len(doc)
  PROVE  KnowsAll(h[k - 1], doc[k].fields)
<1> DEFINE t == h[k - 1]
<1>1. k - 1 \in 0..Len(doc)
  BY NodeIs
<1>2. t \in [NamesTo(doc, k - 1) -> Seq(CellType)]
  BY <1>1 DEF TableOf
<1> HIDE DEF t
<1>3. KnowsAll(t, doc[k].fields)
  BY <1>2, TableKnows
<1> QED
  BY <1>3 DEF t

\* No raw copy of the document has a size that uint32_t wraps.
AllFit(doc) == \A k \in 1..Len(doc) : StructLike(doc[k]) => RunsFit(doc, doc[k])

\* All natural structs and msgs take the bytes their layouts say.
LEMMA SizesAreRight ==
  ASSUME NEW doc, Orderly(doc), NEW h, TableOf(doc, h), Sized(doc), AllFit(doc)
  PROVE  /\ \A k \in 1..Len(doc) : NaturalKind(doc[k]) => SizeRight(doc, h, k)
         /\ \A k \in 1..Len(doc) : SizesKnown(doc, h[k - 1], doc[k].fields)
<1> DEFINE n == Len(doc)
           Good == {k \in 0..n : \A j \in 1..k : NaturalKind(doc[j]) => SizeRight(doc, h, j)}
<1>1. n \in Nat
  BY NodeIs
<1>2. 0 \in Good
  BY <1>1
<1>3. ASSUME NEW k \in 1..n, k - 1 \in Good
      PROVE  k \in Good /\ SizesKnown(doc, h[k - 1], doc[k].fields)
  <2>1. \A j \in 1..(k - 1) : NaturalKind(doc[j]) => SizeRight(doc, h, j)
    BY <1>3
  <2>2. SizesKnown(doc, h[k - 1], doc[k].fields)
    BY <2>1, SizesFromAbove
  <2>3. ASSUME NaturalKind(doc[k]) PROVE SizeRight(doc, h, k)
    <3>1. NodeSized(doc, doc[k]) /\ StructLike(doc[k])
      BY <2>3 DEF Sized, NaturalKind, StructLike
    <3>2. RunsFit(doc, doc[k])
      BY <3>1 DEF AllFit
    <3>3. KnowsAll(h[k - 1], doc[k].fields)
      BY FieldsKnown
    <3> DEFINE node == doc[k]
               inner == h[k - 1]
    <3>4. /\ KnowsAll(inner, node.fields) /\ SizesKnown(doc, inner, node.fields)
          /\ NodeSized(doc, node) /\ RunsFit(doc, node)
      BY <2>2, <3>1, <3>2, <3>3
    <3> HIDE DEF node, inner
    <3>5. /\ Len(NodeBytes(inner, node)) = node.modifier.struct_size
          /\ NodeBytes(inner, node) # <<>>
      BY <3>4, NaturalSizeIs
    <3> QED
      BY <3>5 DEF SizeRight, node, inner
  <2>4. k \in 0..n /\ \A j \in 1..k : j = k \/ j \in 1..(k - 1)
    BY <1>1
  <2> QED
    BY <2>1, <2>2, <2>3, <2>4
<1> HIDE DEF Good
<1>4. 0..n \subseteq Good
  BY <1>1, <1>2, <1>3, SegmentInduction
<1>5. \A k \in 1..n : k - 1 \in 0..n /\ k \in 0..n /\ k \in 1..k
  BY <1>1
<1>6. \A k \in 1..n : k - 1 \in Good /\ k \in Good
  BY <1>4, <1>5
<1>7. \A k \in 1..n : NaturalKind(doc[k]) => SizeRight(doc, h, k)
  BY <1>5, <1>6 DEF Good
<1>8. \A k \in 1..n : SizesKnown(doc, h[k - 1], doc[k].fields)
  BY <1>3, <1>6
<1> QED
  BY <1>7, <1>8

\* The natural structs and msgs among the first k declarations.
NaturalsTo(doc, k) == {doc[j].name : j \in {i \in 1..k : NaturalKind(doc[i])}}

\* The memory of the natural structs is what everyone writes for them.
LEMMA PayloadsAre ==
  ASSUME NEW doc, Orderly(doc), NEW h, TableOf(doc, h), Sized(doc)
  PROVE  \A j \in 1..Len(doc) : NaturalKind(doc[j]) =>
           Gen!Payloads(doc)[doc[j].name] = NodeBytes(h[j - 1], doc[j])
<1> DEFINE n == Len(doc)
           p == [k \in 0..n |-> [m \in NaturalsTo(doc, k) |-> h[n][m]]]
           Memory(k, t) == Gen!PayloadFrom(doc, doc[k], t, 1)
           Add(k, t) == IF ~Gen!IsStructLike(doc[k]) \/ doc[k].modifier.is_narrow THEN t
                        ELSE Gen!Bind(t, doc[k].name, Memory(k, t))
           Rec(u) == [k \in 0..n |-> IF k = 0 THEN <<>> ELSE Add(k, u[k - 1])]
           upto == CHOOSE u : u = Rec(u)
<1>1. Gen!Payloads(doc) = upto[n]
  BY DEF Gen!Payloads
<1>2. n \in Nat
  BY NodeIs
<1>3. p[0] = <<>>
  <2>1. NaturalsTo(doc, 0) = {}
    BY DEF NaturalsTo
  <2>2. 0 \in 0..n
    BY <1>2
  <2> QED
    BY <2>1, <2>2
<1>4. \A j \in 1..n : NaturalKind(doc[j]) => h[n][doc[j].name] = NodeBytes(h[j - 1], doc[j])
  <2> SUFFICES ASSUME NEW j \in 1..n, NaturalKind(doc[j])
               PROVE  h[n][doc[j].name] = NodeBytes(h[j - 1], doc[j])
    OBVIOUS
  <2>1. StructLike(doc[j]) /\ n \in j..n
    BY <1>2 DEF NaturalKind, StructLike
  <2> DEFINE v == NodeBytes(h[j - 1], doc[j])
             name == doc[j].name
  <2>2. \A m \in j..n : h[m][name] = v
    BY <2>1, TableKeeps
  <2> HIDE DEF v, name, n
  <2>3. h[n][name] = v
    BY <2>1, <2>2
  <2> QED
    BY <2>3 DEF v, name
<1>5. ASSUME NEW k \in 1..n PROVE p[k] = Add(k, p[k - 1])
  <2>1. k \in 0..n /\ k - 1 \in 0..n
    BY <1>2
  <2>2. p[k] = [m \in NaturalsTo(doc, k) |-> h[n][m]]
        /\ p[k - 1] = [m \in NaturalsTo(doc, k - 1) |-> h[n][m]]
    BY <2>1
  <2>3. \A i : i \in 1..k <=> i \in 1..(k - 1) \/ i = k
    BY <1>2
  <2>4. CASE ~NaturalKind(doc[k])
    <3>1. NaturalsTo(doc, k) = NaturalsTo(doc, k - 1)
      BY <2>3, <2>4 DEF NaturalsTo
    <3>2. p[k] = p[k - 1]
      BY <2>2, <3>1
    <3>3. ~Gen!IsStructLike(doc[k]) \/ doc[k].modifier.is_narrow
      BY <2>4 DEF NaturalKind, Gen!IsStructLike
    <3> HIDE DEF Memory, p
    <3> QED
      BY <3>2, <3>3
  <2>5. CASE NaturalKind(doc[k])
    <3>1. NaturalsTo(doc, k) = NaturalsTo(doc, k - 1) \cup {doc[k].name}
      BY <2>3, <2>5 DEF NaturalsTo
    <3>2. ~(~Gen!IsStructLike(doc[k]) \/ doc[k].modifier.is_narrow)
      BY <2>5 DEF NaturalKind, Gen!IsStructLike
    <3>3. \A i \in 1..Len(doc[k].fields) : Bonds(doc, doc[k].fields[i])
      BY <2>5 DEF Sized, NodeSized
    <3>4. KnowsAll(h[k - 1], doc[k].fields)
      BY FieldsKnown
    <3>5. SameStructs(doc, p[k - 1], h[k - 1], doc[k].fields)
      <4> SUFFICES ASSUME NEW i \in 1..Len(doc[k].fields)
                   PROVE  SameStruct(doc, p[k - 1], h[k - 1], doc[k].fields[i])
        BY DEF SameStructs
      <4> DEFINE f == doc[k].fields[i]
      <4> SUFFICES ASSUME Bonds(doc, f), f.type.full \notin BasicTypes
                   PROVE  p[k - 1][f.type.type] = h[k - 1][f.type.type]
        BY DEF SameStruct
      <4>1. ~Gen!NodeOf(doc, f.type.type).modifier.is_narrow
        BY BondKinds
      <4>2. PICK j : Contains(doc, h, k, f, j)
        BY <4>1, ContainsStruct
      <4>3. f.type.type \in NaturalsTo(doc, k - 1)
        BY <4>2 DEF Contains, NaturalsTo
      <4>4. p[k - 1][f.type.type] = h[n][f.type.type]
        <5> HIDE DEF p, f
        <5> QED
          BY <2>2, <4>3
      <4>5. h[n][f.type.type] = h[k - 1][f.type.type]
        BY <4>2 DEF Contains
      <4> QED
        BY <4>4, <4>5
    <3> DEFINE t == p[k - 1]
               inner == h[k - 1]
               node == doc[k]
    <3>6. Memory(k, t) = NodeBytes(inner, node)
      <4>1. /\ KnowsAll(inner, node.fields) /\ SameStructs(doc, t, inner, node.fields)
            /\ \A i \in 1..Len(node.fields) : Bonds(doc, node.fields[i])
        BY <3>3, <3>4, <3>5
      <4> HIDE DEF t, inner, node, p
      <4>2. Gen!PayloadFrom(doc, node, t, 1) = NodeBytes(inner, node)
        BY <4>1, PayloadWhole
      <4> QED
        BY <4>2 DEF node
    <3> DEFINE name == doc[k].name
               v == NodeBytes(inner, node)
    <3>7. Add(k, t) = Gen!Bind(t, name, v)
      <4> HIDE DEF Memory, p, t
      <4> QED
        BY <3>2, <3>6
    <3>8. h[n][name] = v
      BY <1>4, <2>5
    <3> HIDE DEF Add, v, name, p
    <3>9. Gen!Bind(t, name, v) = [m \in NaturalsTo(doc, k) |-> h[n][m]]
      <4>1. t = [m \in NaturalsTo(doc, k - 1) |-> h[n][m]]
            /\ NaturalsTo(doc, k) = NaturalsTo(doc, k - 1) \cup {name}
        BY <2>2, <3>1 DEF name
      <4> HIDE DEF t
      <4> QED
        BY <3>8, <4>1 DEF Gen!Bind
    <3> QED
      BY <2>2, <3>7, <3>9
  <2> QED
    BY <2>4, <2>5
<1> HIDE DEF Add
<1>6. \A k \in 0..n : k # 0 => k \in 1..n
  BY <1>2
<1>7. p = Rec(p)
  <2> SUFFICES ASSUME NEW k \in 0..n
               PROVE  p[k] = IF k = 0 THEN <<>> ELSE Add(k, p[k - 1])
    BY Zenon
  <2> HIDE DEF p
  <2> QED
    BY <1>3, <1>5, <1>6
<1> HIDE DEF Rec
<1>8. upto = Rec(upto)
  BY <1>7
<1> HIDE DEF upto, n
<1>9. upto[0] = <<>> /\ \A k \in 1..n : upto[k] = Add(k, upto[k - 1])
  <2>1. 0 \in 0..n /\ \A k \in 1..n : k \in 0..n /\ k # 0
    BY <1>2
  <2> QED
    BY <1>8, <2>1 DEF Rec
<1> HIDE DEF p
<1> DEFINE Same == {k \in 0..n : upto[k] = p[k]}
<1>10. 0 \in Same
  BY <1>2, <1>3, <1>9
<1>11. ASSUME NEW k \in 1..n, k - 1 \in Same PROVE k \in Same
  BY <1>2, <1>5, <1>9, <1>11
<1> HIDE DEF Same
<1>12. 0..n \subseteq Same
  BY <1>2, <1>10, <1>11, SegmentInduction
<1>13. upto[n] = p[n]
  BY <1>2, <1>12 DEF Same
<1>14. ASSUME NEW j \in 1..n, NaturalKind(doc[j])
       PROVE  p[n][doc[j].name] = NodeBytes(h[j - 1], doc[j])
  <2>1. doc[j].name \in NaturalsTo(doc, n) /\ n \in 0..n
    BY <1>2, <1>14 DEF NaturalsTo
  <2>2. p[n] = [m \in NaturalsTo(doc, n) |-> h[n][m]]
    BY <2>1 DEF p
  <2> QED
    BY <1>4, <1>14, <2>1, <2>2
<1> QED
  BY <1>1, <1>13, <1>14 DEF n

\* The memory of C++ has for each natural struct what the table has.
LEMMA NaturalsAreSame ==
  ASSUME NEW doc, Orderly(doc), NEW h, TableOf(doc, h), Sized(doc), NEW k \in 1..Len(doc)
  PROVE  SameNaturals(doc, Gen!Payloads(doc), h[k - 1], doc[k].fields)
<1> SUFFICES ASSUME NEW i \in 1..Len(doc[k].fields),
                    Gen!VarType(doc, doc[k].fields[i])[2] = "natural"
             PROVE  Gen!Payloads(doc)[doc[k].fields[i].type.type]
                      = h[k - 1][doc[k].fields[i].type.type]
  BY DEF SameNaturals, SameNatural
<1> DEFINE f == doc[k].fields[i]
           P == Gen!Payloads(doc)
<1>1. f.type.full \notin BasicTypes /\ ~Gen!NodeOf(doc, f.type.type).modifier.is_narrow
  <2> DEFINE t == Gen!VarType(doc, f)
  <2>1. t[2] = IF f.type.full = "string" THEN "string"
               ELSE IF f.type.full \in BasicTypes THEN "primitive"
               ELSE IF Gen!NodeOf(doc, f.type.type).modifier.is_narrow THEN "narrow"
               ELSE "natural"
    BY ElementKinds
  <2>2. t[2] = "natural"
    OBVIOUS
  <2> HIDE DEF t, f
  <2> QED
    BY <2>1, <2>2
<1>2. PICK j : Contains(doc, h, k, f, j)
  BY <1>1, ContainsStruct
<1>3. j \in 1..Len(doc)
  <2>1. Len(doc) \in Nat
    BY NodeIs
  <2> QED
    BY <1>2, <2>1 DEF Contains
<1>4. \A m \in 1..Len(doc) : NaturalKind(doc[m]) => P[doc[m].name] = NodeBytes(h[m - 1], doc[m])
  BY PayloadsAre
<1> HIDE DEF P, f
<1>5. P[doc[j].name] = NodeBytes(h[j - 1], doc[j])
  BY <1>2, <1>3, <1>4 DEF Contains
<1>6. P[f.type.type] = h[k - 1][f.type.type]
  BY <1>2, <1>5 DEF Contains
<1> QED
  BY <1>6 DEF P, f

\* All functions of all classes write what the table says.
LEMMA AllWriteTable ==
  ASSUME NEW doc, Orderly(doc), NEW h, TableOf(doc, h), Sized(doc), AllFit(doc),
         NEW lang \in Gen!Langs, NEW fn \in {"ser", "deser"}
  PROVE  WritesTable(lang, fn, doc, h)
<1> SUFFICES ASSUME NEW k \in 1..Len(doc), StructLike(doc[k])
             PROVE  Gen!StructBytes(Gen!StructPacker(doc, doc[k]), h[k - 1],
                                    Gen!Instrs(lang, fn, doc, doc[k]))
                      = NodeBytes(h[k - 1], doc[k])
  BY DEF WritesTable
<1> DEFINE node == doc[k]
           inner == h[k - 1]
           packers == Gen!StructPacker(doc, node)
           fields == node.fields
           Wrote(s) == Gen!StructBytes(packers, inner, s) = NodeBytes(inner, node)
<1>1. KnowsAll(inner, node.fields)
  BY FieldsKnown
<1>2. SizesKnown(doc, inner, node.fields)
  BY SizesAreRight
<1>3. SameNaturals(doc, Gen!Payloads(doc), inner, node.fields)
  BY NaturalsAreSame
<1>4. RunsFit(doc, node)
  BY DEF AllFit
<1> HIDE DEF node, inner
<1>5. Wrote(Gen!PySerialize(doc, node)) /\ Wrote(Gen!PyDeserialize(doc, node))
  BY <1>1, PyWrites
<1> HIDE DEF packers
<1>6. Wrote(Gen!CsSerialize(doc, node)) /\ Wrote(Gen!CsDeserialize(doc, node))
  BY <1>1, CsWrites
<1>7. Wrote(Gen!CppSerialize(doc, node)) /\ Wrote(Gen!CppDeserialize(doc, node))
  BY <1>1, <1>2, <1>3, <1>4, CppWrites
<1> HIDE DEF Wrote
<1>8. Gen!Instrs(lang, fn, doc, node) \in
        {Gen!PySerialize(doc, node), Gen!PyDeserialize(doc, node),
         Gen!CsSerialize(doc, node), Gen!CsDeserialize(doc, node),
         Gen!CppSerialize(doc, node), Gen!CppDeserialize(doc, node)}
  BY DEF Gen!Instrs, Gen!Langs
<1>9. Wrote(Gen!Instrs(lang, fn, doc, node))
  BY <1>5, <1>6, <1>7, <1>8
<1> QED
  BY <1>9 DEF Wrote, packers, node, inner

\* The bytes of every language are those of the table.
LEMMA WireIsTable ==
  ASSUME NEW doc, Orderly(doc), NEW h, TableOf(doc, h), Sized(doc), AllFit(doc)
  PROVE  \A lang \in Gen!Langs, fn \in {"ser", "deser"} :
           Gen!WireBytes(lang, fn, doc) = h[Len(doc)]
<1> SUFFICES ASSUME NEW lang \in Gen!Langs, NEW fn \in {"ser", "deser"}
             PROVE  Gen!WireBytes(lang, fn, doc) = h[Len(doc)]
  OBVIOUS
<1>1. WritesTable(lang, fn, doc, h)
  BY AllWriteTable
<1> QED
  BY <1>1, WireIs

\* The classes of all languages write the same bytes.
LEMMA DocumentAgrees ==
  ASSUME NEW doc, Orderly(doc), Sized(doc), AllFit(doc)
  PROVE  \A lang \in Gen!Langs, fn \in {"ser", "deser"} :
           Gen!WireBytes(lang, fn, doc) = Gen!WireBytes("python", "ser", doc)
<1>1. PICK h : TableOf(doc, h)
  BY TableExists
<1>2. \A lang \in Gen!Langs, fn \in {"ser", "deser"} :
        Gen!WireBytes(lang, fn, doc) = h[Len(doc)]
  BY <1>1, WireIsTable
<1>3. "python" \in Gen!Langs /\ "ser" \in {"ser", "deser"}
  BY DEF Gen!Langs
<1> QED
  BY <1>2, <1>3

\* A natural struct or msg takes the bytes its layout says.
LEMMA DocumentSizes ==
  ASSUME NEW doc, Orderly(doc), Sized(doc), AllFit(doc), NEW k \in 1..Len(doc),
         NaturalKind(doc[k])
  PROVE  Len(Gen!WireBytes("csharp", "ser", doc)[doc[k].name]) = doc[k].modifier.struct_size
<1>1. PICK h : TableOf(doc, h)
  BY TableExists
<1> DEFINE v == NodeBytes(h[k - 1], doc[k])
           name == doc[k].name
           n == Len(doc)
           w == Gen!WireBytes("csharp", "ser", doc)
<1>2. w = h[n]
  <2>1. "csharp" \in Gen!Langs /\ "ser" \in {"ser", "deser"}
    BY DEF Gen!Langs
  <2> QED
    BY <1>1, <2>1, WireIsTable
<1>3. StructLike(doc[k]) /\ n \in k..n
  <2>1. n \in Nat
    BY NodeIs
  <2> QED
    BY <2>1 DEF NaturalKind, StructLike
<1>4. \A m \in k..n : h[m][name] = v
  BY <1>1, <1>3, TableKeeps
<1>5. Len(v) = doc[k].modifier.struct_size
  BY <1>1, SizesAreRight DEF SizeRight
<1> HIDE DEF v, n, w
<1>6. w[name] = v
  BY <1>2, <1>3, <1>4
<1> QED
  BY <1>5, <1>6 DEF w

\* The bytes of the members of a raw copy.
MemberBytes(doc, node, P, g) ==
  LET upto[n \in 0..g.len] ==
        IF n = 0 THEN 0
        ELSE upto[n - 1] + Len(Gen!PaddedMember(doc, node, P, g.first + n - 1))
  IN  upto[g.len]

\* They are what everyone writes for the fields.
MembersWritten(doc, node, P, inner, g) ==
  MemberBytes(doc, node, P, g) = Len(Span(FieldTexts(inner, node.fields), g.first, g.len))

\* So it is for every raw copy.
LEMMA MemberBytesAre ==
  ASSUME NEW doc, NEW node, NEW P, NEW inner, KnowsAll(inner, node.fields),
         SameStructs(doc, P, inner, node.fields),
         NEW g, BondedFrom(doc, node.fields, g.first, g.len)
  PROVE  MembersWritten(doc, node, P, inner, g)
<1> DEFINE first == g.first
           len == g.len
           F == FieldTexts(inner, node.fields)
           L == Lengths(F, first, len)
           Size(j) == Len(Gen!PaddedMember(doc, node, P, first + j - 1))
           Rec(u) == [j \in 0..len |-> IF j = 0 THEN 0 ELSE u[j - 1] + Size(j)]
           r == CHOOSE u : u = Rec(u)
<1>1. MemberBytes(doc, node, P, g) = r[len]
  BY DEF MemberBytes
<1>2. /\ F \in Seq(Seq(CellType)) /\ Len(F) = Len(node.fields)
      /\ \A k \in 1..Len(node.fields) : F[k] = FieldBytes(inner, node.fields[k], k)
  BY FieldTextsAre
<1>3. /\ first \in 1..Len(node.fields) /\ len \in 1..Len(node.fields)
      /\ first + len <= Len(node.fields) + 1
      /\ \A k \in first..(first + len - 1) : Bonds(doc, node.fields[k])
  BY DEF BondedFrom
<1>4. Len(node.fields) \in Nat
  BY DEF KnowsAll
<1> HIDE DEF first, len
<1>5. ASSUME NEW j \in 1..len PROVE Size(j) = Len(F[first + j - 1])
  <2> DEFINE k == first + j - 1
  <2>1. k \in 1..Len(node.fields) /\ k \in first..(first + len - 1)
    BY <1>3, <1>4
  <2>2. SameStruct(doc, P, inner, node.fields[k])
    BY <2>1 DEF SameStructs
  <2>3. Bonds(doc, node.fields[k])
    BY <1>3, <2>1
  <2> HIDE DEF k
  <2>4. Gen!PaddedMember(doc, node, P, k) = FieldBytes(inner, node.fields[k], k)
    BY <2>1, <2>2, <2>3, MemberIs, ZenonT(60)
  <2>5. Gen!PaddedMember(doc, node, P, k) = F[k]
    BY <1>2, <2>1, <2>4
  <2> QED
    BY <2>5 DEF k
<1>6. /\ L[0] = 0
      /\ \A j \in 1..len : L[j] = L[j - 1] + Len(F[first + j - 1])
      /\ L[len] = Len(Span(F, first, len))
  <2>1. first \in 1..Len(F) /\ len \in Nat /\ first + len <= Len(F) + 1
    BY <1>2, <1>3, <1>4
  <2> HIDE DEF F
  <2>2. F \in Seq(Seq(CellType))
    BY <1>2
  <2> QED
    BY <2>1, <2>2, LengthsAre
<1>7. L = [j \in 0..len |-> L[j]]
  BY DEF Lengths
<1> HIDE DEF L, Size, F
<1>8. \A j \in 1..len : L[j] = L[j - 1] + Size(j)
  BY <1>5, <1>6
<1>9. len \in Nat
  BY <1>3, <1>4
<1>10. L = Rec(L)
  <2>1. \A j \in 0..len : j # 0 => j \in 1..len
    BY <1>9
  <2>2. \A j \in 0..len : j # 0 => L[j] = L[j - 1] + Size(j)
    BY <1>8, <2>1
  <2> QED
    BY <1>6, <1>7, <2>2
<1> HIDE DEF Rec
<1>11. r = Rec(r)
  BY <1>10
<1> HIDE DEF r
<1>12. r[0] = 0 /\ \A j \in 1..len : r[j] = r[j - 1] + Size(j)
  <2>1. 0 \in 0..len /\ \A j \in 1..len : j \in 0..len /\ j # 0
    BY <1>9
  <2> QED
    BY <1>11, <2>1 DEF Rec
<1> DEFINE Same == {j \in 0..len : r[j] = L[j]}
<1>13. 0 \in Same
  BY <1>6, <1>9, <1>12
<1>14. ASSUME NEW j \in 1..len, j - 1 \in Same PROVE j \in Same
  BY <1>8, <1>9, <1>12, <1>14
<1> HIDE DEF Same
<1>15. 0..len \subseteq Same
  BY <1>9, <1>13, <1>14, SegmentInduction
<1>16. r[len] = L[len]
  BY <1>9, <1>15 DEF Same
<1> QED
  BY <1>1, <1>6, <1>16 DEF F, first, len, MembersWritten

\* A raw copy takes the bytes of its members.
BlockRight(doc, node, g) ==
  g.is_bonded => Gen!BondVarsSize(doc, node, g) = MemberBytes(doc, node, Gen!Payloads(doc), g)

\* So it is in every document in order.
LEMMA DocumentBlocks ==
  ASSUME NEW doc, Orderly(doc), Sized(doc), AllFit(doc), NEW k \in 1..Len(doc),
         StructLike(doc[k]), NEW i \in DOMAIN Gen!GroupsOf(doc, doc[k], Gen!CppBond)
  PROVE  BlockRight(doc, doc[k], Gen!GroupsOf(doc, doc[k], Gen!CppBond)[i])
<1>1. PICK h : TableOf(doc, h)
  BY TableExists
<1> DEFINE node == doc[k]
           inner == h[k - 1]
           groups == Gen!GroupsOf(doc, node, Gen!CppBond)
           g == groups[i]
           P == Gen!Payloads(doc)
           S == SoundGroups(Gen!FieldTypes(doc, node), Gen!CppBond)
<1> SUFFICES ASSUME g.is_bonded
             PROVE  Gen!BondVarsSize(doc, node, g) = MemberBytes(doc, node, P, g)
  BY DEF BlockRight
<1>2. KnowsAll(inner, node.fields)
  BY <1>1, FieldsKnown
<1>3. SizesKnown(doc, inner, node.fields)
  BY <1>1, SizesAreRight
<1>4. SameStructs(doc, P, inner, node.fields)
  <2>1. SameNaturals(doc, P, inner, node.fields)
    BY <1>1, NaturalsAreSame
  <2> HIDE DEF P, inner, node
  <2> QED
    BY <2>1, NaturalIsStruct
<1>5. RunsFit(doc, node)
  BY DEF AllFit
<1>6. node.fields \in Seq(FieldRecord)
  BY <1>2 DEF KnowsAll
<1>7. i \in DOMAIN groups /\ g.is_bonded
  OBVIOUS
<1>8. RunSize(doc, node, g)[g.len] <= MaxOf["uint32"]
  BY <1>5, <1>7 DEF RunsFit
<1> HIDE DEF node, inner, P
<1>9. groups \in Seq(S)
  BY <1>2, GroupsAre
<1>10. g \in S
  <2> HIDE DEF groups, S
  <2> QED
    BY <1>7, <1>9
<1> HIDE DEF g
<1>11. BondedFrom(doc, node.fields, g.first, g.len)
  BY <1>6, <1>7, <1>10, CppGroupKinds
<1>12. RunIs(doc, node, inner, g)
  BY <1>2, <1>3, <1>11, RunSizes
<1>13. MembersWritten(doc, node, P, inner, g)
  BY <1>2, <1>4, <1>11, MemberBytesAre
<1> QED
  BY <1>8, <1>12, <1>13 DEF RunIs, MembersWritten

-----------------------------------------------------------------------------
(* The parser's documents *)

\* A settled document is in order.
LEMMA BodyOrderly ==
  ASSUME IInv, Settled
  PROVE  Orderly(body)
<1>1. body \in Seq(NodeType)
  BY DEF IInv, TypeOK
<1>2. \A j, k \in 1..Len(body) : body[j].name = body[k].name => j = k
  BY DEF Settled
<1>3. ASSUME NEW k \in 1..Len(body), NEW f \in 1..Len(body[k].fields),
             body[k].fields[f].type.full \notin BasicTypes
      PROVE  \E j \in 1..(k - 1) :
               body[j].name = body[k].fields[f].type.type /\ body[j].kind = "struct"
  <2> DEFINE type == body[k].fields[f].type
  <2>1. TypeSettled(type, k)
    BY DEF Settled
  <2> HIDE DEF type
  <2>2. type.full \notin BasicTypes
    BY <1>3 DEF type
  <2>3. PICK j \in 1..(k - 1) : DeclaredAs(type, body[j])
    BY <2>1, <2>2 DEF TypeSettled
  <2>4. j \in 1..Len(body)
    BY <1>1
  <2> DEFINE entry == body[j]
  <2>5. entry \in NodeType /\ (entry.kind \in {"alias", "enum"} => entry.bt \in BasicTypes)
    BY <1>1, <2>4 DEF Settled, BasesTyped
  <2>6. DeclaredAs(type, entry)
    BY <2>3
  <2> HIDE DEF entry
  <2>7. entry.kind = "struct"
    BY <2>2, <2>5, <2>6 DEF DeclaredAs, NodeType, Kinds
  <2>8. entry.name = type.type
    BY <2>6 DEF DeclaredAs
  <2> QED
    BY <2>7, <2>8 DEF entry, type
<1> QED
  BY <1>1, <1>2, <1>3 DEF Orderly

\* What the parser looks up behind a name is the node the generators find.
LEMMA SameNode ==
  ASSUME IInv, Open, Orderly(body), NEW name, IdentifierTest(name)
  PROVE  Gen!NodeOf(body, name) = IdentifierGet(name)
<1>1. PICK j \in 1..Len(body) : name = body[j].name
  BY DEF IInv, BodyInv, RegistryMatchesBody, IdentifierTest
<1>2. idents[name] = j
  BY <1>1 DEF IInv, BodyInv, RegistryMatchesBody
<1>3. Gen!NodeOf(body, body[j].name) = body[j]
  BY NodeOfIs
<1> QED
  BY <1>1, <1>2, <1>3 DEF IdentifierGet

\* A field that a natural struct may have is one that C++ copies.
LEMMA AllowedBonds ==
  ASSUME IInv, Open, Orderly(body), NEW k \in 1..Len(body), NEW i \in 1..Len(body[k].fields),
         Allowed(body[k].fields[i])
  PROVE  /\ Bonds(body, body[k].fields[i])
         /\ TypeSize(body[k].fields[i]) = Gen!ElementSize(body, body[k].fields[i])
<1> DEFINE f == body[k].fields[i]
           t == Gen!VarType(body, f)
<1>1. f \in FieldRecord /\ Resolved(f.type) /\ Allowed(f)
  BY BodyFields
<1>2. /\ t[1] = IF ~f.array.is_array THEN "single"
                ELSE IF f.array.is_static_array THEN "static" ELSE "dynamic"
      /\ t[2] = IF f.type.full = "string" THEN "string"
                ELSE IF f.type.full \in BasicTypes THEN "primitive"
                ELSE IF Gen!NodeOf(body, f.type.type).modifier.is_narrow THEN "narrow"
                ELSE "natural"
      /\ t = << t[1], t[2] >>
  BY ElementKinds
<1>3. t \in Gen!CppBond <=> Bonds(body, f)
  BY DEF Bonds
<1>4. Gen!ElementSize(body, f) =
        IF f.type.full \in BasicTypes THEN SizeOf(f.type.full)
        ELSE Gen!NodeOf(body, f.type.type).modifier.struct_size
  BY SameTypes, SizeOfNumber DEF Gen!ElementSize
<1> HIDE DEF f, t
<1>5. f.array \in ArrayType /\ f.type \in VariableType
  BY <1>1 DEF FieldRecord
<1>6. f.array.is_array => f.array.is_static_array
  <2>1. f.array.is_array => f.array.static_array_len > 0
    BY <1>1 DEF Allowed
  <2> DEFINE a == f.array
  <2>2. a = NoArray \/ a = ListArray \/ \E n \in U32Values \ {0} : a = TupleArray(n)
    BY <1>5 DEF ArrayType
  <2>3. a.is_array => a.static_array_len > 0
    BY <2>1
  <2> HIDE DEF a
  <2>4. a = NoArray => ~a.is_array
    BY DEF NoArray
  <2>5. a = ListArray => a.static_array_len = 0
    BY DEF ListArray
  <2>6. \A n : a = TupleArray(n) => a.is_static_array
    BY DEF TupleArray
  <2>7. a.is_array => a.is_static_array
    BY <2>2, <2>3, <2>4, <2>5, <2>6
  <2> QED
    BY <2>7 DEF a
<1>7. f.type.full \in BasicTypes \/ f.type.full = None
  BY <1>5 DEF VariableType
<1>8. None \notin BasicTypes
  BY NoneFacts
<1>9. ASSUME f.type.full = None
      PROVE  Gen!NodeOf(body, f.type.type) = IdentifierGet(f.type.type)
  <2> DEFINE type == f.type
  <2>1. Resolved(type) /\ type.full = None
    BY <1>1, <1>9
  <2> HIDE DEF type
  <2>2. IdentifierTest(type.type)
    BY <2>1, BehindStruct
  <2> DEFINE name == type.type
  <2> HIDE DEF name
  <2>3. IdentifierTest(name)
    BY <2>2 DEF name
  <2>4. Gen!NodeOf(body, name) = IdentifierGet(name)
    BY <2>3, SameNode
  <2> QED
    BY <2>4 DEF name, type
<1>10. f.type.full # "string"
  BY <1>1 DEF Allowed
<1>11. f.type.full \notin BasicTypes => ~Gen!NodeOf(body, f.type.type).modifier.is_narrow
  BY <1>1, <1>7, <1>9 DEF Allowed
<1>12. t[1] \in {"single", "static"} /\ t[2] \in {"primitive", "natural"}
  BY <1>2, <1>6, <1>10, <1>11
<1>13. Bonds(body, f)
  BY <1>2, <1>3, <1>12 DEF Gen!CppBond
<1>14. TypeSize(f) = Gen!ElementSize(body, f)
  BY <1>4, <1>7, <1>8, <1>9 DEF TypeSize
<1> QED
  BY <1>13, <1>14 DEF f

AddsUp(run, n, size, pad) ==
  run[0] = 0 /\ \A k \in 1..n : run[k] = U32(run[k - 1] + size[k] + pad[k])

\* Adding up has a result.
LEMMA OffsetsRun ==
  ASSUME NEW n \in Nat, NEW size, NEW pad,
         \A k \in 1..n : size[k] \in Nat /\ pad[k] \in Nat
  PROVE  \E run : AddsUp(run, n, size, pad)
<1> DEFINE step == [k \in 1..n |-> [x \in Nat |-> U32(x + size[k] + pad[k])]]
<1>1. step \in [1..n -> [Nat -> Nat]]
  <2> SUFFICES ASSUME NEW k \in 1..n, NEW x \in Nat PROVE U32(x + size[k] + pad[k]) \in Nat
    OBVIOUS
  <2>1. x + size[k] + pad[k] \in Int
    OBVIOUS
  <2> QED
    BY <2>1, U32Range, WidthFacts
<1>2. \A k \in 1..n : \A x \in Nat : step[k][x] = U32(x + size[k] + pad[k])
  OBVIOUS
<1> HIDE DEF step
<1>3. PICK run \in [0..n -> Nat] : Follows(run, n, 0, step)
  BY <1>1, SegmentRecursion
<1>4. \A k \in 1..n : k - 1 \in 0..n /\ run[k - 1] \in Nat
  OBVIOUS
<1>5. \A k \in 1..n : run[k] = U32(run[k - 1] + size[k] + pad[k])
  BY <1>2, <1>3, <1>4 DEF Follows
<1>6. run[0] = 0
  BY <1>3 DEF Follows
<1> QED
  BY <1>5, <1>6 DEF AddsUp

\* The natural structs and msgs of the document were laid out with the sizes
\* the generators use.
LEMMA BodySized ==
  ASSUME IInv, Open, Settled, NaturalClosed, NaturalAligned
  PROVE  Sized(body)
<1> SUFFICES ASSUME NEW k \in 1..Len(body), NaturalKind(body[k])
             PROVE  NodeSized(body, body[k])
  BY DEF Sized
<1>1. Orderly(body)
  BY BodyOrderly
<1> DEFINE fields == body[k].fields
           view == LayoutView(fields)
           n == Len(fields)
           size == [j \in 1..n |-> RealSize(view[j])]
           pad == [j \in 1..n |-> PaddingOf(fields[j])]
<1>2. IsNaturalNode(k)
  BY DEF IsNaturalNode, NaturalKind
<1>3. \A j \in 1..n : Allowed(fields[j])
  BY <1>2 DEF NaturalClosed, Allowed
<1>4. \A j \in 1..n : Bonds(body, fields[j]) /\ TypeSize(fields[j]) = Gen!ElementSize(body, fields[j])
  BY <1>1, <1>3, AllowedBonds
<1>5. \A j \in 1..n : fields[j] \in FieldRecord /\ Resolved(fields[j].type)
  BY BodyFields
<1>6. body[k] \in NodeType /\ fields \in FieldsType /\ n \in Nat
  <2>1. body[k] \in NodeType
    BY DEF IInv, TypeOK
  <2>2. fields \in FieldsType
    BY <2>1 DEF NodeType
  <2> QED
    BY <2>1, <2>2, FieldsAreRecords
<1>7. Len(view) = n /\ WellFormed(view)
  <2> HIDE DEF fields
  <2> QED
    BY <1>5, <1>6, LayoutViewFacts DEF IInv
<1>8. \A j \in 1..n : RealSize(view[j]) \in Nat /\ PaddingOf(fields[j]) \in Nat
  <2> SUFFICES ASSUME NEW j \in 1..n PROVE RealSize(view[j]) \in Nat /\ PaddingOf(fields[j]) \in Nat
    OBVIOUS
  <2>1. view[j].size \in Nat /\ view[j].array.static_array_len \in Nat
    BY <1>7 DEF WellFormed
  <2>2. RealSize(view[j]) \in Nat
    <3> DEFINE v == view[j]
    <3>1. v.size \in Nat /\ v.array.static_array_len \in Nat
      BY <2>1
    <3> HIDE DEF v
    <3>2. RealSize(v) \in Nat
      BY <3>1, RealSizeIsNat
    <3> QED
      BY <3>2 DEF v
  <2>3. PaddingOf(fields[j]) \in Nat
    BY <1>5, PadFmtIs
  <2> QED
    BY <2>2, <2>3 DEF PaddingOf
<1>9. PICK run : AddsUp(run, n, size, pad)
  <2>1. \A j \in 1..n : size[j] \in Nat /\ pad[j] \in Nat
    BY <1>8
  <2> HIDE DEF size, pad, n
  <2> QED
    BY <1>6, <2>1, OffsetsRun
<1>10. \A j \in 1..n : run[j] = U32(run[j - 1] + RealSize(view[j]) + PaddingOf(fields[j]))
  BY <1>9 DEF AddsUp
<1>11. Offsets(fields, view)[n + 1] = run[n]
  <2>1. \A j \in 1..(n + 1) : Offsets(fields, view)[j] = run[j - 1]
    <3> HIDE DEF fields, view
    <3> QED
      BY <1>6, <1>9, <1>10, OffsetsFacts DEF AddsUp
  <2>2. n + 1 \in 1..(n + 1) /\ (n + 1) - 1 = n
    BY <1>6
  <2> HIDE DEF fields, view, n
  <2> QED
    BY <2>1, <2>2
<1>12. body[k].modifier.struct_size = IF run[n] = 0 THEN 1 ELSE run[n]
  <2>1. LET end == Offsets(fields, view)[n + 1]
        IN  body[k].modifier.struct_size = IF end = 0 THEN 1 ELSE end
    BY <1>2 DEF NaturalAligned
  <2> HIDE DEF fields, view, n
  <2> QED
    BY <1>11, <2>1
<1>13. \A j \in 1..n : LaidSize(body, fields[j]) = RealSize(view[j])
  <2> SUFFICES ASSUME NEW j \in 1..n PROVE LaidSize(body, fields[j]) = RealSize(view[j])
    OBVIOUS
  <2>1. view[j].size = TypeSize(fields[j]) /\ view[j].array = fields[j].array
    BY DEF LayoutView
  <2> HIDE DEF view, fields
  <2> QED
    BY <1>4, <2>1 DEF LaidSize, RealSize
<1>14. Adds(body, body[k], run)
  <2>1. \A j \in 1..n : run[j] = U32(run[j - 1] + LaidSize(body, fields[j]) + PaddingOf(fields[j]))
    BY <1>10, <1>13 DEF PaddingOf
  <2> QED
    BY <1>9, <1>12, <2>1 DEF Adds, AddsUp
<1> QED
  BY <1>4, <1>14 DEF NodeSized

\* The document is published as it stands, or gone.
LEMMA SizedStep ==
  ASSUME IInv, Sized(body), [Next]_vars, ~Open'
  PROVE  Sized(body')
<1>1. UNCHANGED body \/ body' = <<>>
  BY EndStep
<1>2. CASE UNCHANGED body
  BY <1>2
<1>3. CASE body' = <<>>
  <2>1. Len(body') = 0
    BY <1>3
  <2> QED
    BY <2>1 DEF Sized
<1> QED
  BY <1>1, <1>2, <1>3

LaidOutRight == Sized(body)

\* Every document ever published was laid out with the sizes the generators
\* use.
LEMMA SizedAlways == Spec => [](IInv /\ Settled /\ LaidOutRight)
<1>1. IInv /\ Open /\ Settled /\ NaturalSound => LaidOutRight
  BY BodySized DEF NaturalSound, LaidOutRight
<1>2. Init => Open
  BY DEF Init, Open, Final
<1>3. IInv /\ LaidOutRight /\ [Next]_vars /\ ~Open' => LaidOutRight'
  BY SizedStep DEF LaidOutRight
<1> QED
  BY <1>1, <1>2, <1>3, SettledAlways, NaturalSoundHolds, PTL DEF Spec

\* The fits of this document.
LEMMA BodyFits ==
  ASSUME IInv, SizesFit
  PROVE  AllFit(body)
<1> SUFFICES ASSUME NEW k \in 1..Len(body), StructLike(body[k])
             PROVE  RunsFit(body, body[k])
  BY DEF AllFit
<1>1. DOMAIN body = 1..Len(body)
  BY DEF IInv, TypeOK
<1>2. k \in StructNodes
  BY <1>1 DEF StructNodes, StructLike
<1> QED
  BY <1>2 DEF SizesFit, RunsFit

\* The six functions generated for a struct or msg write the same bytes, for
\* every document the parser publishes whose raw copies fit in uint32_t: the
\* packers of Python, the calls of C# and the memory of C++ put the same data
\* at the same offset, padding included.
THEOREM LanguagesAgreeHolds == Spec => []LanguagesAgree
<1>1. IInv /\ Settled /\ LaidOutRight => LanguagesAgree
  <2> SUFFICES ASSUME IInv, Settled, Sized(body), SizesFit
               PROVE  \A lang \in Gen!Langs, fn \in {"ser", "deser"} :
                        Gen!WireBytes(lang, fn, body) = Gen!WireBytes("python", "ser", body)
    BY DEF LanguagesAgree, LaidOutRight
  <2>1. Orderly(body) /\ AllFit(body)
    BY BodyOrderly, BodyFits
  <2> QED
    BY <2>1, DocumentAgrees
<1> QED
  BY <1>1, SizedAlways, PTL

\* The sizes the generator adds up in uint32_t are the bytes that are written,
\* for every document the parser publishes whose raw copies fit in uint32_t:
\* struct_size, which the front end computed while parsing, is what the
\* generated code writes, and what a raw copy of C++ spans are its members.
THEOREM SizesAreBytesHolds == Spec => []SizesAreBytes
<1>1. IInv /\ Settled /\ LaidOutRight => NaturalSizes
  <2> SUFFICES ASSUME IInv, Settled, Sized(body), SizesFit,
                      NEW k \in StructNodes, IsNaturalNode(k)
               PROVE  Len(Gen!WireBytes("csharp", "ser", body)[body[k].name])
                        = body[k].modifier.struct_size
    BY DEF NaturalSizes, LaidOutRight
  <2>1. Orderly(body) /\ AllFit(body)
    BY BodyOrderly, BodyFits
  <2>2. k \in 1..Len(body) /\ NaturalKind(body[k])
    BY DEF IInv, TypeOK, StructNodes, IsNaturalNode, NaturalKind
  <2> QED
    BY <2>1, <2>2, DocumentSizes
<1>2. IInv /\ Settled /\ LaidOutRight => BlocksAreTheirMembers
  <2> SUFFICES ASSUME IInv, Settled, Sized(body), SizesFit, NEW k \in StructNodes,
                      NEW i \in DOMAIN Gen!GroupsOf(body, body[k], Gen!CppBond)
               PROVE  BlockRight(body, body[k], Gen!GroupsOf(body, body[k], Gen!CppBond)[i])
    BY DEF BlocksAreTheirMembers, LaidOutRight, BlockRight, MemberBytes
  <2>1. Orderly(body) /\ AllFit(body)
    BY BodyOrderly, BodyFits
  <2>2. k \in 1..Len(body) /\ StructLike(body[k])
    BY DEF IInv, TypeOK, StructNodes, StructLike
  <2> QED
    BY <2>1, <2>2, DocumentBlocks
<1> QED
  BY <1>1, <1>2, SizedAlways, PTL DEF SizesAreBytes
=============================================================================
