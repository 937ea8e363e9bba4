-------------------------- MODULE DeviceStreamProofs --------------------------
(***************************************************************************)
(* Proofs about DeviceStream, for any set of streams a unit may send, of    *)
(* any length, however TCP cuts them.  What is handed on while a connection *)
(* lasts is whole frames, in order and none skipped (StreamInv).  On a      *)
(* clean stream no byte is lost: all that has been put away, in the order   *)
(* it was read, is the stream up to the bytes in hand (Accounts).           *)
(***************************************************************************)
EXTENDS DeviceStream, WellFoundedInduction, TLAPS

-----------------------------------------------------------------------------
(* Numbers and sequences *)

Cell == STRING \X Nat \X Nat

\* A set of numbers that is not empty has a least one.
LEMMA LeastIsOne ==
  ASSUME NEW S \in SUBSET Nat, S # {}
  PROVE  Least(S) \in S /\ \A y \in S : Least(S) <= y
<1> DEFINE R == OpToRel(<, Nat)
<1>1. IsWellFoundedOn(R, Nat)
  BY NatLessThanWellFounded
<1>2. \A x, y \in Nat : <<y, x>> \in R <=> y < x
  BY DEF OpToRel
<1> HIDE DEF R
<1>3. PICK x \in S : \A y \in S : ~(<<y, x>> \in R)
  BY <1>1, WFMin
<1>4. \A y \in S : ~(y < x)
  BY <1>2, <1>3
<1>5. \A y \in S : x <= y
  BY <1>4
<1>. QED  BY <1>5 DEF Least

\* Where a kind of cell stands.
LEMMA WhereIs ==
  ASSUME NEW s \in Seq(Cell), NEW kind
  PROVE  /\ Where(s, kind) \in SUBSET Nat
         /\ \A i : i \in Where(s, kind) <=> i \in 1..Len(s) /\ s[i][1] = kind
BY DEF Where, Kind

\* The first cell of a kind, and none of the kind before it.
LEMMA FirstOfKind ==
  ASSUME NEW s \in Seq(Cell), NEW kind, Where(s, kind) # {}
  PROVE  /\ Least(Where(s, kind)) \in 1..Len(s)
         /\ s[Least(Where(s, kind))][1] = kind
         /\ \A i \in 1..Len(s) : i < Least(Where(s, kind)) => s[i][1] # kind
<1> DEFINE W == Where(s, kind)
<1>1. W \in SUBSET Nat /\ \A i : i \in W <=> i \in 1..Len(s) /\ s[i][1] = kind
  BY WhereIs
<1>2. W # {}
  OBVIOUS
<1> HIDE DEF W
<1>3. Least(W) \in W /\ \A y \in W : Least(W) <= y
  BY <1>1, <1>2, LeastIsOne
<1>4. \A i \in 1..Len(s) : i < Least(W) => s[i][1] # kind
  BY <1>1, <1>3
<1>. QED  BY <1>1, <1>3, <1>4 DEF W

\* A piece of a sequence of cells, by its places.
LEMMA Piece ==
  ASSUME NEW s \in Seq(Cell), NEW i \in Nat \ {0}, NEW j \in Nat, i <= j + 1, j <= Len(s)
  PROVE  /\ SubSeq(s, i, j) \in Seq(Cell)
         /\ Len(SubSeq(s, i, j)) = j - i + 1
         /\ \A k \in 1..(j - i + 1) : SubSeq(s, i, j)[k] = s[i + k - 1]
OBVIOUS

\* Two pieces joined, by their places.
LEMMA Joined ==
  ASSUME NEW s \in Seq(Cell), NEW t \in Seq(Cell)
  PROVE  /\ s \o t \in Seq(Cell)
         /\ Len(s \o t) = Len(s) + Len(t)
         /\ \A k \in 1..Len(s) : (s \o t)[k] = s[k]
         /\ \A k \in 1..Len(t) : (s \o t)[Len(s) + k] = t[k]
OBVIOUS

\* A piece of no length.
LEMMA NoPiece ==
  ASSUME NEW s \in Seq(Cell), NEW j \in Nat, j <= Len(s)
  PROVE  SubSeq(s, j + 1, j) = <<>>
<1>1. Len(SubSeq(s, j + 1, j)) = 0 /\ SubSeq(s, j + 1, j) \in Seq(Cell)
  <2>1. j + 1 \in Nat \ {0} /\ j + 1 <= j + 1 /\ j - (j + 1) + 1 = 0
    OBVIOUS
  <2>. QED  BY <2>1, Piece
<1>. QED  BY <1>1

-----------------------------------------------------------------------------
(* Induction and recursion over the places of a sequence *)

\* Places from 0 on, each there because the one before it is.
LEMMA UpTo ==
  ASSUME NEW n \in Nat, NEW B, 0 \in B, \A i \in 1..n : i - 1 \in B => i \in B
  PROVE  0..n \subseteq B
<1> DEFINE R == OpToRel(<, Nat)
           Missing == {i \in 0..n : i \notin B}
<1>1. IsWellFoundedOn(R, Nat)
  BY NatLessThanWellFounded
<1>2. \A x, y \in Nat : <<y, x>> \in R <=> y < x
  BY DEF OpToRel
<1> HIDE DEF R
<1>3. SUFFICES ASSUME Missing # {} PROVE FALSE
  OBVIOUS
<1>4. Missing \subseteq Nat
  OBVIOUS
<1>5. PICK x \in Missing : \A y \in Missing : ~(<<y, x>> \in R)
  BY <1>1, <1>3, <1>4, WFMin
<1>6. x \in 0..n /\ x # 0 /\ x \notin B
  OBVIOUS
<1>7. x \in 1..n /\ x - 1 \in 0..n /\ x - 1 < x
  BY <1>6
<1>8. x - 1 \in B
  BY <1>2, <1>4, <1>5, <1>7
<1>. QED  BY <1>6, <1>7, <1>8

\* The results of a recursion along s, from base in S: one after each place.
Runs(S, step, base, n, s) ==
  {f \in [0..n -> S] : f[0] = base /\ \A j \in 1..n : f[j] = step[<<f[j - 1], s[j]>>]}

LEMMA RunExists ==
  ASSUME NEW S, NEW T, NEW step \in [S \X T -> S], NEW base \in S,
         NEW n \in Nat, NEW s \in [1..n -> T]
  PROVE  Runs(S, step, base, n, s) # {}
<1> DEFINE Run(i, f) == /\ f \in [0..i -> S] /\ f[0] = base
                        /\ \A j \in 1..i : f[j] = step[<<f[j - 1], s[j]>>]
           B == {i \in 0..n : \E f : Run(i, f)}
<1>1. 0 \in B
  <2> DEFINE g == [j \in 0..0 |-> base]
  <2>1. Run(0, g)
    OBVIOUS
  <2> HIDE DEF g
  <2>2. 0 \in 0..n
    OBVIOUS
  <2>. QED  BY <2>1, <2>2
<1>2. ASSUME NEW i \in 1..n, i - 1 \in B PROVE i \in B
  <2>1. PICK f : Run(i - 1, f)
    BY <1>2
  <2> DEFINE g == [j \in 0..i |-> IF j = i THEN step[<<f[i - 1], s[i]>>] ELSE f[j]]
  <2>2. i - 1 \in 0..(i - 1) /\ i \in Nat
    OBVIOUS
  <2>3. step[<<f[i - 1], s[i]>>] \in S
    BY <2>1, <2>2
  <2>4. \A j \in 0..(i - 1) : j \in 0..i /\ j # i
    OBVIOUS
  <2>5. g \in [0..i -> S] /\ g[0] = base /\ g[i] = step[<<f[i - 1], s[i]>>]
        /\ \A j \in 0..(i - 1) : g[j] = f[j]
    BY <2>1, <2>3, <2>4
  <2>6. \A j \in 1..i : g[j] = step[<<g[j - 1], s[j]>>]
    <3> HIDE DEF g
    <3>1. TAKE j \in 1..i
    <3>2. CASE j = i
      BY <2>2, <2>5, <3>2
    <3>3. CASE j # i
      <4>1. j \in 1..(i - 1) /\ j \in 0..(i - 1) /\ j - 1 \in 0..(i - 1)
        BY <3>3
      <4>. QED  BY <2>1, <2>5, <4>1
    <3>. QED  BY <3>2, <3>3
  <2> HIDE DEF g
  <2>. QED  BY <2>5, <2>6
<1> HIDE DEF B
<1>3. 0..n \subseteq B
  BY <1>1, <1>2, UpTo
<1>4. n \in B
  BY <1>3
<1>. QED  BY <1>4 DEF B, Runs

-----------------------------------------------------------------------------
(* Frames put together again *)

Flats(ss) == {f \in [0..Len(ss) -> Seq(Cell)] :
                f[0] = <<>> /\ \A j \in 1..Len(ss) : f[j] = f[j - 1] \o ss[j]}

LEMMA FlattenIs ==
  ASSUME NEW ss \in Seq(Seq(Cell))
  PROVE  /\ Flats(ss) # {}
         /\ \A f \in Flats(ss) : FlattenSeq(ss) = f[Len(ss)]
<1> DEFINE n == Len(ss)
           S == Seq(Cell)
           step == [p \in S \X S |-> p[1] \o p[2]]
           flatten[i \in 1..n] == IF i = 1 THEN ss[i] ELSE flatten[i - 1] \o ss[i]
<1>1. n \in Nat /\ ss \in [1..n -> S] /\ <<>> \in S
  OBVIOUS
<1>1a. step \in [S \X S -> S]
  <2>1. \A p \in S \X S : p[1] \o p[2] \in S
    OBVIOUS
  <2>. QED  BY <2>1
<1>2. PICK f : f \in Runs(S, step, <<>>, n, ss)
  <2> HIDE DEF step, n, S
  <2>1. Runs(S, step, <<>>, n, ss) # {}
    BY <1>1, <1>1a, RunExists
  <2>. QED  BY <2>1
<1>3. f \in [0..n -> S] /\ f[0] = <<>> /\ \A j \in 1..n : f[j] = step[<<f[j - 1], ss[j]>>]
  <2> HIDE DEF step, n, S
  <2>. QED  BY <1>2 DEF Runs
<1>4. \A j \in 1..n : f[j] = f[j - 1] \o ss[j]
  <2>1. TAKE j \in 1..n
  <2> HIDE DEF n, S
  <2>2. j - 1 \in 0..n
    BY <1>1
  <2>3. <<f[j - 1], ss[j]>> \in S \X S
    BY <1>1, <1>3, <2>2
  <2>. QED  BY <1>3, <2>3
<1> HIDE DEF step
<1>5. f \in Flats(ss)
  BY <1>3, <1>4 DEF Flats
<1> DEFINE first == [i \in 1..n |-> f[i]]
<1>6. first = [i \in 1..n |-> IF i = 1 THEN ss[i] ELSE first[i - 1] \o ss[i]]
  <2> HIDE DEF n
  <2>1. ASSUME NEW i \in 1..n PROVE first[i] = IF i = 1 THEN ss[i] ELSE first[i - 1] \o ss[i]
    <3>1. first[i] = f[i - 1] \o ss[i]
      BY <1>4
    <3>2. CASE i = 1
      <4>1. f[i - 1] = <<>> /\ ss[i] \in Seq(Cell)
        BY <1>1, <1>3, <3>2
      <4>. QED  BY <3>1, <3>2, <4>1
    <3>3. CASE i # 1
      <4>1. i - 1 \in 1..n
        BY <1>1, <3>3
      <4>2. first[i - 1] = f[i - 1]
        BY <4>1
      <4>. QED  BY <3>1, <3>3, <4>2
    <3>. QED  BY <3>2, <3>3
  <2>. QED  BY <2>1
<1>7. flatten = [i \in 1..n |-> IF i = 1 THEN ss[i] ELSE flatten[i - 1] \o ss[i]]
  <2> HIDE DEF n, first
  <2>. QED  BY <1>6
<1>8. FlattenSeq(ss) = IF n = 0 THEN ss ELSE flatten[n]
  BY DEF FlattenSeq
<1> HIDE DEF flatten, first
<1>9. ASSUME NEW g \in Flats(ss) PROVE FlattenSeq(ss) = g[n]
  <2>0. g \in [0..n -> S] /\ g[0] = <<>> /\ \A j \in 1..n : g[j] = g[j - 1] \o ss[j]
    BY <1>9 DEF Flats
  <2> DEFINE B == {i \in 0..n : i # 0 => g[i] = flatten[i]}
  <2> HIDE DEF n
  <2>1. 0 \in B
    BY <1>1
  <2>2. ASSUME NEW i \in 1..n, i - 1 \in B PROVE i \in B
    <3>0. ss[i] \in S
      <4> HIDE DEF S
      <4>. QED  BY <1>1
    <3>1. i \in 0..n /\ g[i] = g[i - 1] \o ss[i] /\ ss[i] \in Seq(Cell)
      <4>1. i \in 0..n
        BY <1>1
      <4>2. g[i] = g[i - 1] \o ss[i]
        BY <2>0
      <4>. QED  BY <3>0, <4>1, <4>2
    <3>2. CASE i = 1
      <4>1. g[i - 1] = <<>>
        BY <2>0, <3>2
      <4>2. flatten[i] = ss[i]
        BY <1>7, <3>2
      <4>. QED  BY <3>1, <4>1, <4>2
    <3>3. CASE i # 1
      <4>1. flatten[i] = flatten[i - 1] \o ss[i]
        BY <1>7, <3>3
      <4>2. i - 1 # 0
        BY <3>3
      <4>. QED  BY <2>2, <3>1, <4>1, <4>2
    <3>. QED  BY <3>2, <3>3
  <2> HIDE DEF B
  <2>3. 0..n \subseteq B
    BY <1>1, <2>1, <2>2, UpTo
  <2>4. CASE n = 0
    <3>1. ss = <<>> /\ g[n] = <<>>
      BY <2>0, <2>4 DEF n
    <3>. QED  BY <1>8, <2>4, <3>1
  <2>5. CASE n # 0
    <3>1. n \in 0..n
      BY <1>1
    <3>2. g[n] = flatten[n]
      BY <2>3, <2>5, <3>1 DEF B
    <3>. QED  BY <1>8, <2>5, <3>2
  <2>. QED  BY <2>4, <2>5
<1>. QED  BY <1>5, <1>9

LEMMA FlattenAppend ==
  ASSUME NEW ss \in Seq(Seq(Cell)), NEW x \in Seq(Cell)
  PROVE  /\ FlattenSeq(ss) \in Seq(Cell)
         /\ FlattenSeq(Append(ss, x)) = FlattenSeq(ss) \o x
<1> DEFINE n == Len(ss)
           S == Seq(Cell)
           rr == Append(ss, x)
<1>1. n \in Nat /\ rr \in Seq(S) /\ Len(rr) = n + 1 /\ rr[n + 1] = x
      /\ \A i \in 1..n : rr[i] = ss[i]
  <2> HIDE DEF S
  <2>1. ss \in Seq(S) /\ x \in S
    BY DEF S
  <2>. QED  BY <2>1
<1> HIDE DEF rr
<1>2. PICK f : f \in Flats(rr)
  BY <1>1, FlattenIs
<1>3. f \in [0..(n + 1) -> S] /\ f[0] = <<>> /\ \A j \in 1..(n + 1) : f[j] = f[j - 1] \o rr[j]
  BY <1>1, <1>2 DEF Flats
<1> HIDE DEF n
<1> DEFINE g == [j \in 0..n |-> f[j]]
<1>4. g \in Flats(ss)
  <2>1. g \in [0..n -> S] /\ g[0] = <<>>
    <3> HIDE DEF S
    <3>. QED  BY <1>1, <1>3
  <2>2. \A j \in 1..n : g[j] = g[j - 1] \o ss[j]
    <3>1. TAKE j \in 1..n
    <3>2. j \in 1..(n + 1) /\ j \in 0..n /\ j - 1 \in 0..n
      BY <1>1
    <3>3. g[j] = f[j] /\ g[j - 1] = f[j - 1] /\ rr[j] = ss[j]
      BY <1>1, <3>2
    <3> HIDE DEF g
    <3>. QED  BY <1>3, <3>2, <3>3
  <2> HIDE DEF g
  <2>. QED  BY <2>1, <2>2 DEF Flats, n
<1>5. FlattenSeq(ss) = g[n] /\ FlattenSeq(rr) = f[n + 1]
  <2> HIDE DEF g
  <2>1. FlattenSeq(ss) = g[n]
    BY <1>4, FlattenIs DEF n
  <2>2. FlattenSeq(rr) = f[n + 1]
    BY <1>1, <1>2, FlattenIs
  <2>. QED  BY <2>1, <2>2
<1>6. g[n] = f[n] /\ f[n] \in S /\ f[n + 1] = f[n] \o x
  <2>1. n \in 0..n /\ n \in 0..(n + 1) /\ n + 1 \in 1..(n + 1) /\ (n + 1) - 1 = n
    BY <1>1
  <2>2. f[n] \in S
    BY <1>3, <2>1
  <2>3. f[n + 1] = f[n] \o x
    BY <1>1, <1>3, <2>1
  <2>. QED  BY <2>1, <2>2, <2>3
<1>. QED  BY <1>5, <1>6 DEF rr

LEMMA FlattenNone == FlattenSeq(<<>>) = <<>>
BY DEF FlattenSeq

-----------------------------------------------------------------------------
(* Cells without the separators *)

Solids(s) == {f \in [0..Len(s) -> Seq(Cell)] :
                f[0] = <<>> /\ \A j \in 1..Len(s) :
                  f[j] = IF s[j] = Blank THEN f[j - 1] ELSE Append(f[j - 1], s[j])}

LEMMA SolidIs ==
  ASSUME NEW s \in Seq(Cell)
  PROVE  /\ Solids(s) # {}
         /\ \A f \in Solids(s) : Solid(s) = f[Len(s)]
<1> DEFINE n == Len(s)
           S == Seq(Cell)
           step == [p \in S \X Cell |-> IF p[2] = Blank THEN p[1] ELSE Append(p[1], p[2])]
           solid[i \in 0..n] == IF i = 0 THEN <<>>
                                ELSE IF s[i] = Blank THEN solid[i - 1]
                                ELSE Append(solid[i - 1], s[i])
<1>1. n \in Nat /\ s \in [1..n -> Cell] /\ <<>> \in S
  OBVIOUS
<1>2. step \in [S \X Cell -> S]
  <2>1. ASSUME NEW p \in S \X Cell
        PROVE  (IF p[2] = Blank THEN p[1] ELSE Append(p[1], p[2])) \in S
    <3>1. p[1] \in S /\ p[2] \in Cell
      OBVIOUS
    <3>2. Append(p[1], p[2]) \in S
      BY <3>1
    <3> HIDE DEF S
    <3>. QED  BY <3>1, <3>2
  <2> HIDE DEF S
  <2>. QED  BY <2>1
<1>3. PICK f : f \in Runs(S, step, <<>>, n, s)
  <2> HIDE DEF step, n, S
  <2>1. Runs(S, step, <<>>, n, s) # {}
    BY <1>1, <1>2, RunExists
  <2>. QED  BY <2>1
<1>4. f \in [0..n -> S] /\ f[0] = <<>> /\ \A j \in 1..n : f[j] = step[<<f[j - 1], s[j]>>]
  <2> HIDE DEF step, n, S
  <2>. QED  BY <1>3 DEF Runs
<1>5. \A j \in 1..n : f[j] = IF s[j] = Blank THEN f[j - 1] ELSE Append(f[j - 1], s[j])
  <2>1. TAKE j \in 1..n
  <2> HIDE DEF n, S
  <2>2. j - 1 \in 0..n
    BY <1>1
  <2>3. <<f[j - 1], s[j]>> \in S \X Cell
    BY <1>1, <1>4, <2>2
  <2>. QED  BY <1>4, <2>3
<1> HIDE DEF step
<1>6. f \in Solids(s)
  BY <1>4, <1>5 DEF Solids
<1>7. f = [i \in 0..n |-> IF i = 0 THEN <<>>
                          ELSE IF s[i] = Blank THEN f[i - 1] ELSE Append(f[i - 1], s[i])]
  <2> HIDE DEF S, n
  <2>1. ASSUME NEW i \in 0..n
        PROVE  f[i] = IF i = 0 THEN <<>>
                      ELSE IF s[i] = Blank THEN f[i - 1] ELSE Append(f[i - 1], s[i])
    <3>1. i = 0 \/ (i \in 1..n /\ i # 0)
      BY <1>1
    <3>. QED  BY <1>4, <1>5, <3>1
  <2>. QED  BY <1>4, <2>1
<1>8. solid = [i \in 0..n |-> IF i = 0 THEN <<>>
                              ELSE IF s[i] = Blank THEN solid[i - 1]
                              ELSE Append(solid[i - 1], s[i])]
  <2> HIDE DEF n
  <2>. QED  BY <1>7
<1>9. Solid(s) = solid[n]
  BY DEF Solid
<1> HIDE DEF solid
<1>10. ASSUME NEW g \in Solids(s) PROVE Solid(s) = g[n]
  <2>1. g[0] = <<>> /\ \A j \in 1..n : g[j] = IF s[j] = Blank THEN g[j - 1]
                                               ELSE Append(g[j - 1], s[j])
    BY <1>10 DEF Solids
  <2> DEFINE B == {i \in 0..n : g[i] = solid[i]}
  <2> HIDE DEF n
  <2>2. 0 \in B
    <3>1. 0 \in 0..n
      BY <1>1
    <3>. QED  BY <1>8, <2>1, <3>1
  <2>3. ASSUME NEW i \in 1..n, i - 1 \in B PROVE i \in B
    <3>1. i \in 0..n /\ i # 0
      BY <1>1
    <3>2. solid[i] = IF s[i] = Blank THEN solid[i - 1] ELSE Append(solid[i - 1], s[i])
      BY <1>8, <3>1
    <3>3. g[i] = IF s[i] = Blank THEN g[i - 1] ELSE Append(g[i - 1], s[i])
      BY <2>1
    <3>4. g[i - 1] = solid[i - 1]
      BY <2>3
    <3>5. g[i] = solid[i]
      BY <3>2, <3>3, <3>4
    <3>. QED  BY <3>1, <3>5
  <2> HIDE DEF B
  <2>4. 0..n \subseteq B
    BY <1>1, <2>2, <2>3, UpTo
  <2>5. n \in 0..n
    BY <1>1
  <2>6. g[n] = solid[n]
    BY <2>4, <2>5 DEF B
  <2>. QED  BY <1>9, <2>6
<1>. QED  BY <1>6, <1>10

LEMMA SameCells ==
  ASSUME NEW c \in Seq(Cell), NEW d \in Seq(Cell), Len(c) = Len(d),
         \A i \in 1..Len(c) : c[i] = d[i]
  PROVE  c = d
OBVIOUS

LEMMA JoinedThree ==
  ASSUME NEW x \in Seq(Cell), NEW y \in Seq(Cell), NEW z \in Seq(Cell)
  PROVE  (x \o y) \o z = x \o (y \o z)
<1> DEFINE l == x \o y
           r == y \o z
<1>1. /\ l \in Seq(Cell) /\ Len(l) = Len(x) + Len(y)
      /\ \A k \in 1..Len(x) : l[k] = x[k]
      /\ \A k \in 1..Len(y) : l[Len(x) + k] = y[k]
  BY Joined
<1>2. /\ r \in Seq(Cell) /\ Len(r) = Len(y) + Len(z)
      /\ \A k \in 1..Len(y) : r[k] = y[k]
      /\ \A k \in 1..Len(z) : r[Len(y) + k] = z[k]
  BY Joined
<1> HIDE DEF l, r
<1> DEFINE c == l \o z
           d == x \o r
<1>3. /\ c \in Seq(Cell) /\ Len(c) = Len(l) + Len(z)
      /\ \A k \in 1..Len(l) : c[k] = l[k]
      /\ \A k \in 1..Len(z) : c[Len(l) + k] = z[k]
  BY <1>1, Joined
<1>4. /\ d \in Seq(Cell) /\ Len(d) = Len(x) + Len(r)
      /\ \A k \in 1..Len(x) : d[k] = x[k]
      /\ \A k \in 1..Len(r) : d[Len(x) + k] = r[k]
  BY <1>2, Joined
<1> HIDE DEF c, d
<1>5. Len(x) \in Nat /\ Len(y) \in Nat /\ Len(z) \in Nat
  OBVIOUS
<1>6. Len(c) = Len(d)
  BY <1>1, <1>2, <1>3, <1>4, <1>5
<1>7. ASSUME NEW k \in 1..Len(c) PROVE c[k] = d[k]
  <2>1. CASE k <= Len(x)
    <3>1. k \in 1..Len(x) /\ k \in 1..Len(l)
      BY <1>1, <1>3, <1>5, <2>1
    <3>. QED  BY <1>1, <1>3, <1>4, <3>1
  <2>2. CASE k > Len(x) /\ k <= Len(l)
    <3>1. /\ k - Len(x) \in 1..Len(y) /\ k - Len(x) \in 1..Len(r) /\ k \in 1..Len(l)
          /\ Len(x) + (k - Len(x)) = k
      BY <1>1, <1>2, <1>5, <2>2
    <3>2. c[k] = l[k] /\ l[Len(x) + (k - Len(x))] = y[k - Len(x)]
      BY <1>1, <1>3, <3>1
    <3>3. d[Len(x) + (k - Len(x))] = r[k - Len(x)] /\ r[k - Len(x)] = y[k - Len(x)]
      BY <1>2, <1>4, <3>1
    <3>. QED  BY <3>1, <3>2, <3>3
  <2>3. CASE k > Len(l)
    <3>1. /\ k - Len(l) \in 1..Len(z) /\ Len(l) + (k - Len(l)) = k
          /\ Len(y) + (k - Len(l)) \in 1..Len(r)
          /\ Len(x) + (Len(y) + (k - Len(l))) = k
      BY <1>1, <1>2, <1>3, <1>5, <2>3
    <3>2. c[Len(l) + (k - Len(l))] = z[k - Len(l)]
      BY <1>3, <3>1
    <3>3. d[Len(x) + (Len(y) + (k - Len(l)))] = r[Len(y) + (k - Len(l))]
      BY <1>4, <3>1
    <3>4. r[Len(y) + (k - Len(l))] = z[k - Len(l)]
      BY <1>2, <3>1
    <3>. QED  BY <3>1, <3>2, <3>3, <3>4
  <2>. QED  BY <1>1, <1>5, <2>1, <2>2, <2>3
<1>8. c = d
  BY <1>3, <1>4, <1>6, <1>7, SameCells
<1>. QED  BY <1>8 DEF c, d, l, r

\* A piece from the beginning, its last cell taken off.
LEMMA OneMore ==
  ASSUME NEW s \in Seq(Cell), NEW i \in 1..Len(s)
  PROVE  /\ SubSeq(s, 1, i - 1) \in Seq(Cell) /\ SubSeq(s, 1, i) \in Seq(Cell)
         /\ s[i] \in Cell
         /\ SubSeq(s, 1, i) = Append(SubSeq(s, 1, i - 1), s[i])
<1> DEFINE c == SubSeq(s, 1, i)
           d == SubSeq(s, 1, i - 1)
           e == Append(d, s[i])
<1>1. i \in Nat /\ i >= 1 /\ i <= Len(s) /\ Len(s) \in Nat /\ s[i] \in Cell
  OBVIOUS
<1>2. c \in Seq(Cell) /\ Len(c) = i - 1 + 1 /\ \A k \in 1..(i - 1 + 1) : c[k] = s[1 + k - 1]
  <2>1. 1 \in Nat \ {0} /\ 1 <= i + 1
    BY <1>1
  <2>. QED  BY <1>1, <2>1, Piece
<1>3. d \in Seq(Cell) /\ Len(d) = (i - 1) - 1 + 1
      /\ \A k \in 1..((i - 1) - 1 + 1) : d[k] = s[1 + k - 1]
  <2>1. 1 \in Nat \ {0} /\ 1 <= (i - 1) + 1 /\ i - 1 \in Nat /\ i - 1 <= Len(s)
    BY <1>1
  <2>. QED  BY <2>1, Piece
<1> HIDE DEF c, d
<1>4. e \in Seq(Cell) /\ Len(e) = i /\ e[i] = s[i] /\ \A k \in 1..(i - 1) : e[k] = d[k]
  <2>1. Len(d) = i - 1
    BY <1>1, <1>3
  <2>. QED  BY <1>1, <1>3, <2>1
<1> HIDE DEF e
<1>5. Len(c) = i /\ \A k \in 1..i : c[k] = s[k]
  BY <1>1, <1>2
<1>6. \A k \in 1..(i - 1) : d[k] = s[k]
  BY <1>1, <1>3
<1>7. ASSUME NEW k \in 1..Len(c) PROVE c[k] = e[k]
  <2>1. k \in 1..i /\ (k = i \/ k \in 1..(i - 1))
    BY <1>1, <1>5
  <2>. QED  BY <1>4, <1>5, <1>6, <2>1
<1>8. c = e
  BY <1>2, <1>4, <1>5, <1>7, SameCells
<1>. QED  BY <1>1, <1>2, <1>3, <1>8 DEF c, d, e

\* A piece from the beginning, in two.
LEMMA TwoPieces ==
  ASSUME NEW s \in Seq(Cell), NEW i \in Nat, NEW j \in Nat, i <= j, j <= Len(s)
  PROVE  /\ SubSeq(s, 1, i) \in Seq(Cell) /\ SubSeq(s, i + 1, j) \in Seq(Cell)
         /\ SubSeq(s, 1, j) = SubSeq(s, 1, i) \o SubSeq(s, i + 1, j)
<1> DEFINE c == SubSeq(s, 1, i)
           d == SubSeq(s, i + 1, j)
           e == SubSeq(s, 1, j)
           f == c \o d
<1>1. Len(s) \in Nat /\ 1 \in Nat \ {0} /\ i + 1 \in Nat \ {0} /\ 1 <= i + 1 /\ 1 <= j + 1
      /\ i + 1 <= j + 1 /\ i <= Len(s)
  OBVIOUS
<1>2. c \in Seq(Cell) /\ Len(c) = i - 1 + 1 /\ \A k \in 1..(i - 1 + 1) : c[k] = s[1 + k - 1]
  BY <1>1, Piece
<1>3. d \in Seq(Cell) /\ Len(d) = j - (i + 1) + 1
      /\ \A k \in 1..(j - (i + 1) + 1) : d[k] = s[(i + 1) + k - 1]
  BY <1>1, Piece
<1>4. e \in Seq(Cell) /\ Len(e) = j - 1 + 1 /\ \A k \in 1..(j - 1 + 1) : e[k] = s[1 + k - 1]
  BY <1>1, Piece
<1> HIDE DEF c, d, e
<1>5. /\ f \in Seq(Cell) /\ Len(f) = Len(c) + Len(d)
      /\ \A k \in 1..Len(c) : f[k] = c[k]
      /\ \A k \in 1..Len(d) : f[Len(c) + k] = d[k]
  BY <1>2, <1>3, Joined
<1> HIDE DEF f
<1>6. Len(c) = i /\ Len(d) = j - i /\ Len(e) = j /\ Len(f) = j
  <2>1. Len(c) = i /\ Len(d) = j - i /\ Len(e) = j
    BY <1>2, <1>3, <1>4
  <2>. QED  BY <1>5, <2>1
<1>7. ASSUME NEW k \in 1..j PROVE e[k] = f[k]
  <2>1. e[k] = s[k]
    <3>1. k \in 1..(j - 1 + 1) /\ 1 + k - 1 = k
      OBVIOUS
    <3>. QED  BY <1>4, <3>1
  <2>2. CASE k <= i
    <3>1. k \in 1..Len(c) /\ k \in 1..(i - 1 + 1) /\ 1 + k - 1 = k
      BY <1>6, <2>2
    <3>2. c[k] = s[k]
      BY <1>2, <3>1
    <3>. QED  BY <1>5, <2>1, <3>1, <3>2
  <2>3. CASE k > i
    <3>1. k - i \in 1..Len(d) /\ k - i \in 1..(j - (i + 1) + 1)
          /\ (i + 1) + (k - i) - 1 = k /\ Len(c) + (k - i) = k
      BY <1>6, <2>3
    <3>2. d[k - i] = s[k]
      BY <1>3, <3>1
    <3>3. f[k] = d[k - i]
      BY <1>5, <3>1
    <3>. QED  BY <2>1, <3>2, <3>3
  <2>. QED  BY <2>2, <2>3
<1>8. e = f
  BY <1>4, <1>5, <1>6, <1>7, SameCells
<1>. QED  BY <1>2, <1>3, <1>8 DEF c, d, e, f

LEMMA SolidNone == Solid(<<>>) = <<>>
<1>1. <<>> \in Seq(Cell) /\ Len(<<>>) = 0
  OBVIOUS
<1>2. PICK f : f \in Solids(<<>>)
  BY <1>1, SolidIs
<1>3. f[0] = <<>>
  BY <1>2 DEF Solids
<1>. QED  BY <1>1, <1>2, <1>3, SolidIs

LEMMA SolidAppend ==
  ASSUME NEW s \in Seq(Cell), NEW c \in Cell
  PROVE  /\ Solid(s) \in Seq(Cell)
         /\ Solid(Append(s, c)) = IF c = Blank THEN Solid(s) ELSE Append(Solid(s), c)
<1> DEFINE n == Len(s)
           S == Seq(Cell)
           r == Append(s, c)
<1>1. n \in Nat /\ r \in S /\ Len(r) = n + 1 /\ r[n + 1] = c /\ \A i \in 1..n : r[i] = s[i]
  OBVIOUS
<1> HIDE DEF r
<1>2. PICK f : f \in Solids(r)
  BY <1>1, SolidIs
<1>3. /\ f \in [0..(n + 1) -> S] /\ f[0] = <<>>
      /\ \A j \in 1..(n + 1) : f[j] = IF r[j] = Blank THEN f[j - 1] ELSE Append(f[j - 1], r[j])
  BY <1>1, <1>2 DEF Solids
<1>4. Solid(r) = f[n + 1]
  BY <1>1, <1>2, SolidIs
<1> HIDE DEF n, S
<1> DEFINE g == [j \in 0..n |-> f[j]]
<1>5. g \in [0..n -> S] /\ g[0] = <<>> /\ g[n] = f[n] /\ f[n] \in S
  <2>1. \A j \in 0..n : j \in 0..(n + 1)
    BY <1>1
  <2>2. 0 \in 0..n /\ n \in 0..n
    BY <1>1
  <2>. QED  BY <1>3, <2>1, <2>2
<1>6. \A j \in 1..n : g[j] = IF s[j] = Blank THEN g[j - 1] ELSE Append(g[j - 1], s[j])
  <2>1. TAKE j \in 1..n
  <2>2. j \in 1..(n + 1) /\ j \in 0..n /\ j - 1 \in 0..n
    BY <1>1
  <2>3. g[j] = f[j] /\ g[j - 1] = f[j - 1] /\ r[j] = s[j]
    BY <1>1, <2>2
  <2>4. f[j] = IF r[j] = Blank THEN f[j - 1] ELSE Append(f[j - 1], r[j])
    BY <1>3, <2>2
  <2> HIDE DEF g
  <2>. QED  BY <2>3, <2>4
<1> HIDE DEF g
<1>7. g \in Solids(s)
  BY <1>5, <1>6 DEF Solids, n, S
<1>8. Solid(s) = g[n]
  BY <1>7, SolidIs DEF n
<1>9. f[n + 1] = IF c = Blank THEN f[n] ELSE Append(f[n], c)
  <2>1. n + 1 \in 1..(n + 1) /\ (n + 1) - 1 = n
    BY <1>1
  <2>. QED  BY <1>1, <1>3, <2>1
<1>. QED  BY <1>4, <1>5, <1>8, <1>9 DEF r, S

\* Taking the separators out can be done piece by piece.
LEMMA SolidJoin ==
  ASSUME NEW s \in Seq(Cell), NEW t \in Seq(Cell)
  PROVE  /\ Solid(s) \in Seq(Cell) /\ Solid(t) \in Seq(Cell)
         /\ Solid(s \o t) = Solid(s) \o Solid(t)
<1> DEFINE u(i) == SubSeq(t, 1, i)
           n == Len(t)
           B == {i \in 0..n : /\ Solid(u(i)) \in Seq(Cell)
                              /\ Solid(s \o u(i)) = Solid(s) \o Solid(u(i))}
<1>1. Solid(s) \in Seq(Cell)
  <2>1. PICK f : f \in Solids(s)
    BY SolidIs
  <2>2. Len(s) \in 0..Len(s)
    OBVIOUS
  <2>3. f[Len(s)] \in Seq(Cell)
    BY <2>1, <2>2 DEF Solids
  <2>. QED  BY <2>1, <2>3, SolidIs
<1>2. n \in Nat /\ u(0) = <<>> /\ u(n) = t
  OBVIOUS
<1>3. 0 \in B
  <2>1. s \o <<>> = s /\ Solid(s) \o <<>> = Solid(s) /\ <<>> \in Seq(Cell)
    BY <1>1
  <2>2. 0 \in 0..n
    BY <1>2
  <2> HIDE DEF n
  <2>. QED  BY <1>2, <2>1, <2>2, SolidNone
<1>4. ASSUME NEW i \in 1..n, i - 1 \in B PROVE i \in B
  <2> DEFINE v == u(i - 1)
             c == t[i]
  <2>1. v \in Seq(Cell) /\ c \in Cell /\ u(i) = Append(v, c)
    BY OneMore
  <2>2. Solid(v) \in Seq(Cell) /\ Solid(s \o v) = Solid(s) \o Solid(v)
    BY <1>4
  <2>3. i \in 0..n
    BY <1>2
  <2> HIDE DEF u, v, c
  <2>4. s \o Append(v, c) = Append(s \o v, c) /\ s \o v \in Seq(Cell)
    BY <2>1
  <2>5. Solid(Append(v, c)) = IF c = Blank THEN Solid(v) ELSE Append(Solid(v), c)
    BY <2>1, SolidAppend
  <2>6. Solid(Append(s \o v, c)) = IF c = Blank THEN Solid(s \o v) ELSE Append(Solid(s \o v), c)
    BY <2>1, <2>4, SolidAppend
  <2>7. Solid(s) \o Append(Solid(v), c) = Append(Solid(s) \o Solid(v), c)
        /\ Append(Solid(v), c) \in Seq(Cell)
    <3>1. \A x, y \in Seq(Cell) : x \o Append(y, c) = Append(x \o y, c)
                                  /\ Append(y, c) \in Seq(Cell)
      BY <2>1
    <3>. QED  BY <1>1, <2>2, <3>1, Zenon
  <2>8. Solid(u(i)) \in Seq(Cell)
    BY <2>1, <2>2, <2>5, <2>7
  <2>9. Solid(s \o u(i)) = Solid(s) \o Solid(u(i))
    <3>1. CASE c = Blank
      BY <2>1, <2>2, <2>4, <2>5, <2>6, <3>1
    <3>2. CASE c # Blank
      BY <2>1, <2>2, <2>4, <2>5, <2>6, <2>7, <3>2
    <3>. QED  BY <3>1, <3>2
  <2>. QED  BY <2>3, <2>8, <2>9
<1> HIDE DEF B
<1>5. 0..n \subseteq B
  BY <1>2, <1>3, <1>4, UpTo
<1>6. n \in B
  BY <1>2, <1>5
<1>7. Solid(u(n)) \in Seq(Cell) /\ Solid(s \o u(n)) = Solid(s) \o Solid(u(n))
  BY <1>6 DEF B
<1>. QED  BY <1>1, <1>2, <1>7

\* Of separators alone nothing is left.
LEMMA SolidBlank ==
  ASSUME NEW t \in Seq(Cell), \A i \in 1..Len(t) : t[i] = Blank
  PROVE  Solid(t) = <<>>
<1> DEFINE u(i) == SubSeq(t, 1, i)
           n == Len(t)
           B == {i \in 0..n : Solid(u(i)) = <<>>}
<1>1. n \in Nat /\ u(0) = <<>> /\ u(n) = t
  OBVIOUS
<1>2. 0 \in B
  <2>1. 0 \in 0..n
    BY <1>1
  <2>. QED  BY <1>1, <2>1, SolidNone
<1>3. ASSUME NEW i \in 1..n, i - 1 \in B PROVE i \in B
  <2> DEFINE v == u(i - 1)
             c == t[i]
  <2>1. v \in Seq(Cell) /\ c \in Cell /\ u(i) = Append(v, c)
    BY OneMore
  <2>2. c = Blank /\ Solid(v) = <<>>
    BY <1>3
  <2>3. i \in 0..n
    BY <1>1
  <2> HIDE DEF u, v, c
  <2>4. Solid(u(i)) = <<>>
    BY <2>1, <2>2, SolidAppend
  <2>. QED  BY <2>3, <2>4
<1> HIDE DEF B
<1>4. 0..n \subseteq B
  BY <1>1, <1>2, <1>3, UpTo
<1>5. n \in B
  BY <1>1, <1>4
<1>. QED  BY <1>1, <1>5 DEF B

-----------------------------------------------------------------------------
(* What holds in every state *)

\* How many cells of the stream are behind the bytes in hand.
Behind == pos - Len(data)

Typed ==
  /\ stream \in Streams
  /\ arrived \in 0..Len(stream) /\ pos \in 0..arrived
  /\ hungUp \in BOOLEAN /\ gaveUp \in BOOLEAN
  /\ pc \in {"initial", "line", "closed"}
  /\ data \in Seq(Cell) /\ delivered \in Seq(Seq(Cell))

\* The bytes in hand are the last ones read; they never outgrow a message, except
\* by the line being read.
InHand ==
  /\ Len(data) <= pos
  /\ \A i \in 1..Len(data) : data[i] = stream[Behind + i]
  /\ pc = "initial" => Len(data) <= MessageSize
  /\ pc = "line" => StartsV8(data) /\ Where(data, "nl") = {}

\* A frame of the kind a decoder gets, of one frame of the unit.
Line(f) ==
  /\ StartsV8(f) /\ Where(f, "sig") = {1}
  /\ \A i \in DOMAIN f : f[i][3] = Number(f)
Ends(f) == Where(f, "nl") = {Len(f)}

\* Nothing more is in hand or to come.
Exhausted == pos = arrived /\ hungUp /\ data = <<>>

Handed ==
  \A k \in DOMAIN delivered :
    /\ delivered[k] # <<>>
    /\ StartsV8(delivered[k]) => Line(delivered[k])
    /\ StartsV8(delivered[k]) /\ ~Ends(delivered[k]) =>
         Where(delivered[k], "nl") = {} /\ k = Len(delivered) /\ hungUp
         /\ (pc = "closed" \/ Exhausted)
    /\ ~StartsV8(delivered[k]) /\ ~WholeV7(delivered[k]) =>
         k = Len(delivered) /\ pc = "closed"

Consecutive ==
  \A k \in 1..(Len(delivered) - 1) :
    Number(delivered[k + 1]) = Number(delivered[k]) + 1

\* No frame has begun between the last one handed on and the bytes in hand.
NextInTurn ==
  pc # "closed" /\ delivered # <<>> =>
    \E q \in 1..Behind :
      /\ Begins(stream[q]) /\ stream[q][3] = Number(delivered[Len(delivered)])
      /\ \A m \in (q + 1)..Behind : ~Begins(stream[m])

StreamInv == Typed /\ InHand /\ Handed /\ Consecutive /\ NextInTurn

-----------------------------------------------------------------------------
(* What a stream holds *)

\* The stream and its places, as the assumption has them.
LEMMA StreamIs ==
  ASSUME Typed
  PROVE  /\ stream \in Seq(Cell) /\ Len(stream) \in Nat
         /\ arrived \in Nat /\ pos \in Nat /\ pos <= arrived /\ arrived <= Len(stream)
         /\ data \in Seq(Cell) /\ Len(data) \in Nat
         /\ SegmentsFollow(stream) /\ LinesHoldOneFrame(stream)
         /\ NumberedInTurn(stream)
<1>1. stream \in Streams /\ arrived \in 0..Len(stream) /\ pos \in 0..arrived
      /\ data \in Seq(Cell)
  BY DEF Typed
<1>2. stream \in Seq(Cell) /\ SegmentsFollow(stream) /\ LinesHoldOneFrame(stream)
      /\ NumberedInTurn(stream)
  BY <1>1, StreamsAssumption DEF StreamsAssumption, Cell
<1>3. Len(stream) \in Nat /\ Len(data) \in Nat
  BY <1>1, <1>2
<1>. QED  BY <1>1, <1>2, <1>3

\* From the first head of a v7 frame on, its six cells stand in their places,
\* as far as the stream goes.
LEMMA SixInPlace ==
  ASSUME Typed, NEW q \in 1..Len(stream),
         Kind(stream[q]) = "head", stream[q][2] = 1
  PROVE  /\ q + 1 <= Len(stream) => stream[q + 1] = <<"body", 1, stream[q][3]>>
         /\ q + 2 <= Len(stream) => stream[q + 2] = <<"head", 2, stream[q][3]>>
         /\ q + 3 <= Len(stream) => stream[q + 3] = <<"body", 2, stream[q][3]>>
         /\ q + 4 <= Len(stream) => stream[q + 4] = <<"head", 3, stream[q][3]>>
         /\ q + 5 <= Len(stream) => stream[q + 5] = <<"body", 3, stream[q][3]>>
<1> DEFINE n == stream[q][3]
<1>1. Len(stream) \in Nat /\ SegmentsFollow(stream) /\ q \in Nat /\ q >= 1
  BY StreamIs
<1>2. \A i \in 1..(Len(stream) - 1) :
        /\ stream[i][1] = "head" => stream[i + 1] = <<"body", stream[i][2], stream[i][3]>>
        /\ stream[i][1] = "body" /\ stream[i][2] < 3 =>
             stream[i + 1] = <<"head", stream[i][2] + 1, stream[i][3]>>
  BY <1>1 DEF SegmentsFollow, Kind, Segments
<1>3. q + 1 <= Len(stream) => stream[q + 1] = <<"body", 1, n>>
  BY <1>1, <1>2 DEF Kind
<1>4. q + 2 <= Len(stream) => stream[q + 2] = <<"head", 2, n>>
  <2> SUFFICES ASSUME q + 2 <= Len(stream) PROVE stream[q + 2] = <<"head", 2, n>>
    OBVIOUS
  <2>1. q + 1 \in 1..(Len(stream) - 1) /\ (q + 1) + 1 = q + 2 /\ q + 1 <= Len(stream)
    BY <1>1
  <2>. QED  BY <1>2, <1>3, <2>1
<1>5. q + 3 <= Len(stream) => stream[q + 3] = <<"body", 2, n>>
  <2> SUFFICES ASSUME q + 3 <= Len(stream) PROVE stream[q + 3] = <<"body", 2, n>>
    OBVIOUS
  <2>1. q + 2 \in 1..(Len(stream) - 1) /\ (q + 2) + 1 = q + 3 /\ q + 2 <= Len(stream)
    BY <1>1
  <2>. QED  BY <1>2, <1>4, <2>1
<1>6. q + 4 <= Len(stream) => stream[q + 4] = <<"head", 3, n>>
  <2> SUFFICES ASSUME q + 4 <= Len(stream) PROVE stream[q + 4] = <<"head", 3, n>>
    OBVIOUS
  <2>1. q + 3 \in 1..(Len(stream) - 1) /\ (q + 3) + 1 = q + 4 /\ q + 3 <= Len(stream)
    BY <1>1
  <2>. QED  BY <1>2, <1>5, <2>1
<1>7. q + 5 <= Len(stream) => stream[q + 5] = <<"body", 3, n>>
  <2> SUFFICES ASSUME q + 5 <= Len(stream) PROVE stream[q + 5] = <<"body", 3, n>>
    OBVIOUS
  <2>1. q + 4 \in 1..(Len(stream) - 1) /\ (q + 4) + 1 = q + 5 /\ q + 4 <= Len(stream)
    BY <1>1
  <2>. QED  BY <1>2, <1>6, <2>1
<1>. QED  BY <1>3, <1>4, <1>5, <1>6, <1>7

\* A piece of the stream from a signature to the first newline, or short of it,
\* is a line of one frame, and no other frame begins in it.
LEMMA LineOfStream ==
  ASSUME Typed, NEW b \in 1..Len(stream), Kind(stream[b]) = "sig",
         NEW f \in Seq(Cell), Len(f) >= 1, b + Len(f) - 1 <= Len(stream),
         \A i \in 1..Len(f) : f[i] = stream[b + i - 1],
         \A i \in 1..Len(f) : i < Len(f) => f[i][1] # "nl"
  PROVE  /\ Line(f) /\ Number(f) = stream[b][3]
         /\ f[Len(f)][1] = "nl" => Ends(f)
         /\ f[Len(f)][1] # "nl" => Where(f, "nl") = {}
         /\ \A m \in (b + 1)..(b + Len(f) - 1) : ~Begins(stream[m])
<1> DEFINE n == Len(f)
<1>1. n \in Nat /\ DOMAIN f = 1..n /\ Len(stream) \in Nat /\ DOMAIN stream = 1..Len(stream)
      /\ LinesHoldOneFrame(stream) /\ b \in Nat
  BY StreamIs
<1> HIDE DEF n
<1>2. ASSUME NEW i \in 2..n
      PROVE  stream[b + i - 1][1] \in {"text", "nl"} /\ stream[b + i - 1][3] = stream[b][3]
  <2> DEFINE j == b + i - 1
  <2>1. j \in DOMAIN stream /\ b \in DOMAIN stream /\ b < j /\ i \in 1..n
    BY <1>1, <1>2 DEF n
  <2>2. ASSUME NEW m \in b..(j - 1) PROVE Kind(stream[m]) # "nl"
    <3>1. m - b + 1 \in 1..n /\ m - b + 1 < n /\ b + (m - b + 1) - 1 = m
      BY <1>1, <1>2, <2>2
    <3>. QED  BY <3>1 DEF n, Kind
  <2> HIDE DEF j
  <2>3. Kind(stream[j]) \in {"text", "nl"} /\ stream[j][3] = stream[b][3]
    BY <1>1, <2>1, <2>2 DEF LinesHoldOneFrame
  <2>. QED  BY <2>3 DEF j, Kind
<1>3. f[1] = stream[b] /\ 1 \in 1..n
  BY <1>1 DEF n
<1>4. \A i \in 1..n : i # 1 => f[i][1] \in {"text", "nl"} /\ f[i][3] = stream[b][3]
  <2> SUFFICES ASSUME NEW i \in 1..n, i # 1
               PROVE  f[i][1] \in {"text", "nl"} /\ f[i][3] = stream[b][3]
    OBVIOUS
  <2>1. i \in 2..n
    BY <1>1
  <2>. QED  BY <1>2, <2>1 DEF n
<1>5. Number(f) = stream[b][3] /\ f[1][1] = "sig"
  BY <1>3 DEF Number, Kind
<1>6. StartsV8(f)
  BY <1>1, <1>5 DEF StartsV8, Kind, n
<1>7. Where(f, "sig") = {1}
  BY <1>1, <1>3, <1>4, <1>5 DEF Where, Kind
<1>8. \A i \in DOMAIN f : f[i][3] = Number(f)
  BY <1>1, <1>3, <1>4, <1>5
<1>9. \A i : i \in Where(f, "nl") <=> i \in 1..n /\ f[i][1] = "nl"
  BY <1>1 DEF Where, Kind
<1>10. \A i \in 1..n : f[i][1] = "nl" => i = n
  <2> SUFFICES ASSUME NEW i \in 1..n, i # n PROVE f[i][1] # "nl"
    OBVIOUS
  <2>1. i < n
    BY <1>1
  <2>. QED  BY <2>1 DEF n
<1>11. n \in 1..n
  BY <1>1 DEF n
<1>12. f[n][1] = "nl" => Where(f, "nl") = {n}
  BY <1>9, <1>10, <1>11
<1>13. f[n][1] # "nl" => Where(f, "nl") = {}
  BY <1>9, <1>10
<1>14. ASSUME NEW m \in (b + 1)..(b + n - 1) PROVE ~Begins(stream[m])
  <2>1. m - b + 1 \in 2..n /\ b + (m - b + 1) - 1 = m
    BY <1>1, <1>14
  <2>2. stream[m][1] \in {"text", "nl"}
    BY <1>2, <2>1
  <2>. QED  BY <2>2 DEF Begins, Kind
<1>. QED  BY <1>5, <1>6, <1>7, <1>8, <1>12, <1>13, <1>14 DEF Line, Ends, n

LEMMA NoSignatureInside ==
  ASSUME Typed, NEW q \in 1..Len(stream),
         Kind(stream[q]) = "head", stream[q][2] = 1,
         NEW t \in (q + 1)..(q + 5), t <= Len(stream)
  PROVE  Kind(stream[t]) # "sig"
<1>1. q \in Nat /\ Len(stream) \in Nat
  BY StreamIs
<1>2. CASE t = q + 1
  BY <1>2, SixInPlace DEF Kind
<1>3. CASE t = q + 2
  BY <1>3, SixInPlace DEF Kind
<1>4. CASE t = q + 3
  BY <1>4, SixInPlace DEF Kind
<1>5. CASE t = q + 4
  BY <1>5, SixInPlace DEF Kind
<1>6. CASE t = q + 5
  BY <1>6, SixInPlace DEF Kind
<1>. QED  BY <1>1, <1>2, <1>3, <1>4, <1>5, <1>6

\* In a message in hand no frame begins before the first signature.
LEMMA NoneBeforeSignature ==
  ASSUME Typed, InHand, pc = "initial", NEW s \in 1..Len(data),
         data[s][1] = "sig", \A i \in 1..Len(data) : i < s => data[i][1] # "sig"
  PROVE  \A m \in (Behind + 1)..(Behind + s - 1) : ~Begins(stream[m])
<1> SUFFICES ASSUME NEW m \in (Behind + 1)..(Behind + s - 1), Begins(stream[m])
             PROVE  FALSE
  OBVIOUS
<1>1. /\ Len(data) \in Nat /\ Len(data) <= 6 /\ Len(data) <= pos /\ pos \in Nat
      /\ Len(stream) \in Nat /\ pos <= Len(stream) /\ Behind = pos - Len(data)
  BY StreamIs DEF InHand, Behind, MessageSize, Segments
<1>a. \A i \in 1..Len(data) : data[i] = stream[Behind + i]
  BY DEF InHand
<1>2. Behind \in Nat /\ s \in Nat /\ s <= Len(data)
  BY <1>1
<1>3. m - Behind \in 1..Len(data) /\ m - Behind < s /\ Behind + (m - Behind) = m
  <2>1. m \in Nat /\ m >= Behind + 1 /\ m <= Behind + s - 1 /\ Len(data) \in Nat
    BY <1>1, <1>2
  <2>. QED  BY <1>2, <2>1
<1>4. stream[m][1] # "sig" /\ data[m - Behind] = stream[m]
  BY <1>a, <1>3
<1>5. Kind(stream[m]) = "head" /\ stream[m][2] = 1 /\ m \in 1..Len(stream)
  <2>1. Kind(stream[m]) = "head" /\ stream[m][2] = 1
    BY <1>4, Zenon DEF Begins, Kind
  <2>2. m \in Nat /\ 1 <= m /\ m <= Len(stream)
    <3>1. m - Behind \in Nat /\ 1 <= m - Behind /\ m - Behind <= Len(data)
      BY <1>1, <1>3
    <3>2. m \in Int /\ Behind \in Nat /\ Behind + Len(data) <= Len(stream)
      BY <1>1, <1>2
    <3>. QED  BY <1>1, <3>1, <3>2
  <2>. QED  BY <1>1, <2>1, <2>2
<1>6. stream[Behind + s][1] = "sig" /\ Behind + s <= Len(stream)
  BY <1>1, <1>a, <1>2
<1>7. Behind + s \in (m + 1)..(m + 5)
  <2>1. m \in Nat /\ m >= Behind + 1 /\ m <= Behind + s - 1 /\ Behind \in Nat
        /\ s \in Nat /\ s <= 6
    BY <1>1, <1>2
  <2>. QED  BY <2>1
<1>. QED  BY <1>5, <1>6, <1>7, NoSignatureInside, Zenon DEF Kind

-----------------------------------------------------------------------------
(* Handing a frame on *)

\* What is handed on is whole, and those before it are not the last any more.
LEMMA HandedStays ==
  ASSUME Typed, Handed, pc # "closed", data # <<>>,
         NEW f \in Seq(Cell), f # <<>>, delivered' = Append(delivered, f),
         StartsV8(f) => Line(f),
         StartsV8(f) /\ ~Ends(f) =>
           Where(f, "nl") = {} /\ hungUp' /\ (pc' = "closed" \/ Exhausted'),
         ~StartsV8(f) /\ ~WholeV7(f) => pc' = "closed"
  PROVE  Handed'
<1>1. delivered \in Seq(Seq(Cell)) /\ Len(delivered) \in Nat
  BY DEF Typed
<1>2. /\ Len(delivered') = Len(delivered) + 1 /\ DOMAIN delivered' = 1..(Len(delivered) + 1)
      /\ delivered'[Len(delivered) + 1] = f
      /\ \A k \in 1..Len(delivered) : delivered'[k] = delivered[k]
  BY <1>1
<1>3. ASSUME NEW k \in 1..Len(delivered)
      PROVE  /\ delivered[k] # <<>> /\ (StartsV8(delivered[k]) => Line(delivered[k]))
             /\ StartsV8(delivered[k]) => Ends(delivered[k])
             /\ StartsV8(delivered[k]) \/ WholeV7(delivered[k])
  <2>1. k \in DOMAIN delivered
    BY <1>1
  <2>. QED  BY <2>1 DEF Handed, Exhausted
<1>4. \A k \in 1..(Len(delivered) + 1) : k # Len(delivered) + 1 => k \in 1..Len(delivered)
  BY <1>1
<1> SUFFICES ASSUME NEW k \in DOMAIN delivered'
    PROVE  /\ delivered'[k] # <<>>
           /\ StartsV8(delivered'[k]) => Line(delivered'[k])
           /\ StartsV8(delivered'[k]) /\ ~Ends(delivered'[k]) =>
                Where(delivered'[k], "nl") = {} /\ k = Len(delivered') /\ hungUp'
                /\ (pc' = "closed" \/ Exhausted')
           /\ ~StartsV8(delivered'[k]) /\ ~WholeV7(delivered'[k]) =>
                k = Len(delivered') /\ pc' = "closed"
  BY DEF Handed
<1>5. CASE k = Len(delivered) + 1
  BY <1>2, <1>5
<1>6. CASE k # Len(delivered) + 1
  <2>1. k \in 1..Len(delivered) /\ delivered'[k] = delivered[k]
    BY <1>2, <1>4, <1>6
  <2>. QED  BY <1>3, <2>1
<1>. QED  BY <1>5, <1>6

\* Its number follows the last one's, for it is the first to begin after that.
LEMMA TurnStays ==
  ASSUME Typed, InHand, Consecutive, NextInTurn, pc # "closed",
         NEW f \in Seq(Cell), delivered' = Append(delivered, f),
         NEW b \in (Behind + 1)..Len(stream),
         Begins(stream[b]), Number(f) = stream[b][3],
         \A m \in (Behind + 1)..(b - 1) : ~Begins(stream[m])
  PROVE  Consecutive'
<1>1. delivered \in Seq(Seq(Cell)) /\ Len(delivered) \in Nat
  BY DEF Typed
<1>2. /\ Len(delivered') = Len(delivered) + 1
      /\ delivered'[Len(delivered) + 1] = f
      /\ \A k \in 1..Len(delivered) : delivered'[k] = delivered[k]
  BY <1>1
<1>3. /\ Behind \in Nat /\ Len(stream) \in Nat /\ DOMAIN stream = 1..Len(stream)
      /\ NumberedInTurn(stream)
  BY StreamIs DEF InHand, Behind
<1> SUFFICES ASSUME NEW k \in 1..Len(delivered)
             PROVE  Number(delivered'[k + 1]) = Number(delivered'[k]) + 1
  BY <1>1, <1>2 DEF Consecutive
<1>4. CASE k < Len(delivered)
  <2>1. k \in 1..(Len(delivered) - 1) /\ k + 1 \in 1..Len(delivered)
    BY <1>1, <1>4
  <2>2. Number(delivered[k + 1]) = Number(delivered[k]) + 1
    BY <2>1 DEF Consecutive
  <2>. QED  BY <1>2, <2>1, <2>2
<1>5. CASE k = Len(delivered)
  <2>1. delivered # <<>>
    BY <1>1, <1>5
  <2>2. PICK q \in 1..Behind :
          /\ Begins(stream[q]) /\ stream[q][3] = Number(delivered[Len(delivered)])
          /\ \A m \in (q + 1)..Behind : ~Begins(stream[m])
    BY <2>1 DEF NextInTurn
  <2>3. q \in DOMAIN stream /\ b \in DOMAIN stream /\ q < b
    BY <1>3
  <2>4. \A m \in (q + 1)..(b - 1) : ~Begins(stream[m])
    <3> SUFFICES ASSUME NEW m \in (q + 1)..(b - 1) PROVE ~Begins(stream[m])
      OBVIOUS
    <3>1. m \in (q + 1)..Behind \/ m \in (Behind + 1)..(b - 1)
      BY <1>3
    <3>. QED  BY <2>2, <3>1
  <2>5. stream[b][3] = stream[q][3] + 1
    BY <1>3, <2>2, <2>3, <2>4 DEF NumberedInTurn
  <2>. QED  BY <1>2, <1>5, <2>2, <2>5
<1>. QED  BY <1>1, <1>4, <1>5

\* No frame begins between it and the bytes then in hand.
LEMMA NextStays ==
  ASSUME Typed, NEW f \in Seq(Cell), delivered' = Append(delivered, f), stream' = stream,
         NEW b \in 1..Len(stream), Begins(stream[b]), Number(f) = stream[b][3],
         Behind' \in Nat, b <= Behind',
         \A m \in (b + 1)..Behind' : ~Begins(stream[m])
  PROVE  NextInTurn'
<1>1. Len(delivered') = Len(delivered) + 1 /\ delivered'[Len(delivered) + 1] = f
  BY DEF Typed
<1>2. b \in 1..Behind'
  BY StreamIs
<1>. QED  BY <1>1, <1>2 DEF NextInTurn

-----------------------------------------------------------------------------
(* Steps that hand nothing on *)

LEMMA StreamInit == Init => StreamInv
<1> SUFFICES ASSUME Init PROVE StreamInv
  OBVIOUS
<1>1. stream \in Streams /\ Len(stream) \in Nat
  BY StreamsAssumption DEF Init, StreamsAssumption
<1>2. Typed
  <2>1. arrived \in 0..Len(stream) /\ pos \in 0..arrived
    BY <1>1 DEF Init
  <2>2. data \in Seq(Cell) /\ delivered \in Seq(Seq(Cell))
    BY DEF Init
  <2>. QED  BY <1>1, <2>1, <2>2 DEF Init, Typed
<1>3. InHand
  BY DEF Init, InHand, MessageSize, Segments
<1>4. Handed /\ Consecutive /\ NextInTurn
  BY DEF Init, Handed, Consecutive, NextInTurn
<1>. QED  BY <1>2, <1>3, <1>4 DEF StreamInv

\* The connection ends, with or without its bytes.
LEMMA ClosedStays ==
  ASSUME StreamInv, UNCHANGED <<stream, arrived, hungUp, pos, delivered>>,
         data' \in {<<>>, data}, pc' = "closed", gaveUp' \in BOOLEAN
  PROVE  StreamInv'
<1>1. Typed /\ InHand /\ Handed /\ Consecutive
  BY DEF StreamInv
<1>2. Typed'
  <2>1. data' \in Seq(Cell)
    <3>1. data \in Seq(Cell) /\ <<>> \in Seq(Cell)
      BY <1>1 DEF Typed
    <3>. QED  BY <3>1
  <2>. QED  BY <1>1, <2>1 DEF Typed
<1>3. InHand'
  <2>1. pos \in Nat /\ Len(<<>>) = 0
    BY <1>1, StreamIs
  <2>2. CASE data' = data
    BY <1>1, <2>2 DEF InHand, Behind
  <2>3. CASE data' = <<>>
    BY <2>1, <2>3 DEF InHand
  <2>. QED  BY <2>2, <2>3
<1>4. Handed'
  BY <1>1 DEF Handed
<1>5. Consecutive' /\ NextInTurn'
  BY <1>1 DEF Consecutive, NextInTurn
<1>. QED  BY <1>2, <1>3, <1>4, <1>5 DEF StreamInv

LEMMA ArriveStays == StreamInv /\ Arrive => StreamInv'
<1> SUFFICES ASSUME StreamInv, Arrive PROVE StreamInv'
  OBVIOUS
<1>1. Typed /\ InHand /\ Handed /\ Consecutive /\ NextInTurn
  BY DEF StreamInv
<1>2. Typed'
  <2>1. arrived' \in 0..Len(stream) /\ pos \in 0..arrived'
    BY <1>1, StreamIs DEF Arrive
  <2>. QED  BY <1>1, <2>1 DEF Typed, Arrive, Outputs
<1>3. InHand' /\ Consecutive' /\ NextInTurn'
  BY <1>1 DEF Arrive, Outputs, InHand, Behind, Consecutive, NextInTurn
<1>4. Handed'
  BY <1>1 DEF Arrive, Outputs, Handed
<1>. QED  BY <1>2, <1>3, <1>4 DEF StreamInv

LEMMA HangUpStays == StreamInv /\ HangUp => StreamInv'
<1> SUFFICES ASSUME StreamInv, HangUp PROVE StreamInv'
  OBVIOUS
<1>1. Typed /\ InHand /\ Handed /\ Consecutive /\ NextInTurn
  BY DEF StreamInv
<1>2. Typed' /\ InHand' /\ Consecutive' /\ NextInTurn'
  BY <1>1 DEF HangUp, Outputs, Typed, InHand, Behind, Consecutive, NextInTurn
<1>3. Handed'
  BY <1>1 DEF HangUp, Outputs, Handed, Exhausted
<1>. QED  BY <1>2, <1>3 DEF StreamInv

LEMMA ReadStays == StreamInv /\ Read => StreamInv'
<1> SUFFICES ASSUME StreamInv, Read PROVE StreamInv'
  OBVIOUS
<1>1. Typed /\ InHand /\ Handed /\ Consecutive /\ NextInTurn
  BY DEF StreamInv
<1> DEFINE room == MessageSize - Len(data)
           n == IF room < arrived - pos THEN room ELSE arrived - pos
           more == SubSeq(Buffered, 1, n)
<1>2. /\ stream \in Seq(Cell) /\ Len(stream) \in Nat
      /\ arrived \in Nat /\ pos \in Nat /\ pos < arrived /\ arrived <= Len(stream)
      /\ data \in Seq(Cell) /\ Len(data) \in Nat /\ Len(data) <= MessageSize
      /\ MessageSize = 6
  BY <1>1, StreamIs DEF InHand, Read, MessageSize, Segments
<1>3. n \in Nat /\ n <= arrived - pos /\ Len(data) + n <= MessageSize
  BY <1>2
<1>4. /\ Buffered \in Seq(Cell) /\ Len(Buffered) = arrived - pos
      /\ \A k \in 1..(arrived - pos) : Buffered[k] = stream[pos + k]
  <2>1. /\ SubSeq(stream, pos + 1, arrived) \in Seq(Cell)
        /\ Len(SubSeq(stream, pos + 1, arrived)) = arrived - (pos + 1) + 1
        /\ \A k \in 1..(arrived - (pos + 1) + 1) :
             SubSeq(stream, pos + 1, arrived)[k] = stream[(pos + 1) + k - 1]
    BY <1>2, Piece
  <2>. QED  BY <1>2, <2>1 DEF Buffered
<1>5. /\ more \in Seq(Cell) /\ Len(more) = n
      /\ \A k \in 1..n : more[k] = Buffered[k]
  <2>1. n <= Len(Buffered) /\ 1 <= n + 1
    BY <1>2, <1>3, <1>4
  <2> HIDE DEF n
  <2>2. /\ SubSeq(Buffered, 1, n) \in Seq(Cell)
        /\ Len(SubSeq(Buffered, 1, n)) = n - 1 + 1
        /\ \A k \in 1..(n - 1 + 1) : SubSeq(Buffered, 1, n)[k] = Buffered[1 + k - 1]
    BY <1>3, <1>4, <2>1, Piece
  <2>. QED  BY <1>3, <2>2
<1>6. data' = data \o more /\ pos' = pos + n
      /\ UNCHANGED <<stream, arrived, hungUp, pc, delivered, gaveUp>>
  BY DEF Read, Environment, Outputs
<1> HIDE DEF more, n
<1>7. /\ data' \in Seq(Cell) /\ Len(data') = Len(data) + n
      /\ \A k \in 1..Len(data) : data'[k] = data[k]
      /\ \A k \in 1..n : data'[Len(data) + k] = stream[pos + k]
  <2>1. \A k \in 1..n : (data \o more)[Len(data) + k] = more[k]
    BY <1>2, <1>5, Joined
  <2>2. \A k \in 1..n : k \in 1..(arrived - pos)
    BY <1>2, <1>3
  <2>3. \A k \in 1..n : more[k] = stream[pos + k]
    BY <1>4, <1>5, <2>2
  <2>4. /\ data \o more \in Seq(Cell) /\ Len(data \o more) = Len(data) + n
        /\ \A k \in 1..Len(data) : (data \o more)[k] = data[k]
    BY <1>2, <1>5, Joined
  <2>. QED  BY <1>6, <2>1, <2>3, <2>4
<1>8. Typed'
  <2>1. pos' \in 0..arrived'
    BY <1>2, <1>3, <1>6
  <2>. QED  BY <1>1, <1>6, <1>7, <2>1 DEF Typed
<1>9. Behind' = Behind /\ Behind \in Nat
  <2>1. Len(data) <= pos
    BY <1>1 DEF InHand
  <2>. QED  BY <1>2, <1>3, <1>6, <1>7, <2>1 DEF Behind
<1>10. InHand'
  <2>1. pc' = "initial" /\ Len(data') <= MessageSize /\ Len(data') <= pos'
    BY <1>1, <1>2, <1>3, <1>6, <1>7 DEF InHand, Read
  <2>2. ASSUME NEW i \in 1..Len(data') PROVE data'[i] = stream[Behind + i]
    <3>1. CASE i <= Len(data)
      <4>1. i \in 1..Len(data)
        BY <1>2, <3>1
      <4>. QED  BY <1>1, <1>7, <4>1 DEF InHand
    <3>2. CASE i > Len(data)
      <4>1. i - Len(data) \in 1..n /\ Len(data) + (i - Len(data)) = i
        BY <1>2, <1>3, <1>7, <3>2
      <4>2. pos + (i - Len(data)) = Behind + i
        BY <1>2 DEF Behind
      <4>. QED  BY <1>7, <4>1, <4>2
    <3>. QED  BY <1>2, <1>7, <3>1, <3>2
  <2>3. \A i \in 1..Len(data') : data'[i] = stream'[Behind' + i]
    BY <1>6, <1>9, <2>2
  <2>. QED  BY <2>1, <2>3 DEF InHand
<1>11. Handed'
  <2>1. ~Exhausted
    BY <1>2 DEF Exhausted
  <2>. QED  BY <1>1, <1>6, <2>1 DEF Handed, Read
<1>12. Consecutive' /\ NextInTurn'
  BY <1>1, <1>6, <1>9 DEF Consecutive, NextInTurn
<1>. QED  BY <1>8, <1>10, <1>11, <1>12 DEF StreamInv

-----------------------------------------------------------------------------
(* Steps of a message with a signature in it *)

\* The rest of a message from a place on, as a piece of the stream.
LEMMA RestOfData ==
  ASSUME Typed, InHand, NEW i \in Nat \ {0}, i <= Len(data) + 1
  PROVE  /\ From(data, i) \in Seq(Cell) /\ Len(From(data, i)) = Len(data) - i + 1
         /\ \A k \in 1..Len(From(data, i)) :
              From(data, i)[k] = data[i + k - 1] /\ From(data, i)[k] = stream[Behind + i - 1 + k]
<1>1. data \in Seq(Cell) /\ Len(data) \in Nat /\ Len(data) <= pos /\ pos \in Nat
  BY StreamIs DEF InHand
<1>2. Behind \in Nat
  BY <1>1 DEF Behind
<1>3. /\ SubSeq(data, i, Len(data)) \in Seq(Cell)
      /\ Len(SubSeq(data, i, Len(data))) = Len(data) - i + 1
      /\ \A k \in 1..(Len(data) - i + 1) : SubSeq(data, i, Len(data))[k] = data[i + k - 1]
  BY <1>1, Piece
<1>4. ASSUME NEW k \in 1..(Len(data) - i + 1)
      PROVE  data[i + k - 1] = stream[Behind + i - 1 + k]
  <2>1. i + k - 1 \in 1..Len(data) /\ Behind + (i + k - 1) = Behind + i - 1 + k
    BY <1>1, <1>2, <1>4
  <2>2. \A j \in 1..Len(data) : data[j] = stream[Behind + j]
    BY DEF InHand
  <2>. QED  BY <2>1, <2>2
<1>. QED  BY <1>3, <1>4 DEF From

\* The first signature of a message: its place in the stream, where the frame
\* begins that is the next in turn.
LEMMA Signature ==
  ASSUME Typed, InHand, pc = "initial", NEW s, s = Least(Where(data, "sig")),
         Where(data, "sig") # {}
  PROVE  /\ s \in 1..Len(data) /\ Behind \in Nat /\ Behind + s \in 1..Len(stream)
         /\ Kind(stream[Behind + s]) = "sig"
         /\ \A m \in (Behind + 1)..(Behind + s - 1) : ~Begins(stream[m])
<1>1. data \in Seq(Cell) /\ Len(data) \in Nat /\ Len(data) <= pos /\ pos \in Nat
      /\ pos <= Len(stream) /\ Len(stream) \in Nat
  BY StreamIs DEF InHand
<1>2. /\ s \in 1..Len(data) /\ data[s][1] = "sig"
      /\ \A i \in 1..Len(data) : i < s => data[i][1] # "sig"
  BY <1>1, FirstOfKind
<1>3. Behind \in Nat /\ Behind + s \in 1..Len(stream)
  BY <1>1, <1>2 DEF Behind
<1>4. Kind(stream[Behind + s]) = "sig"
  BY <1>2 DEF InHand, Kind
<1>5. \A m \in (Behind + 1)..(Behind + s - 1) : ~Begins(stream[m])
  BY <1>2, NoneBeforeSignature
<1>. QED  BY <1>2, <1>3, <1>4, <1>5

LEMMA SyncV8OpenStays == StreamInv /\ SyncV8Open => StreamInv'
<1> SUFFICES ASSUME StreamInv, SyncV8Open PROVE StreamInv'
  OBVIOUS
<1>1. Typed /\ InHand /\ Handed /\ Consecutive /\ NextInTurn
  BY DEF StreamInv
<1> DEFINE s == Least(Where(data, "sig"))
           v8 == From(data, s)
<1>2. /\ pc = "initial" /\ Where(data, "sig") # {}
      /\ Where(v8, "nl") = {} /\ data' = v8 /\ pc' = "line"
      /\ UNCHANGED <<stream, arrived, hungUp, pos, delivered, gaveUp>>
  BY DEF SyncV8Open, Environment, Outputs
<1>3. /\ s \in 1..Len(data) /\ Behind \in Nat /\ Behind + s \in 1..Len(stream)
      /\ Kind(stream[Behind + s]) = "sig"
      /\ \A m \in (Behind + 1)..(Behind + s - 1) : ~Begins(stream[m])
  BY <1>1, <1>2, Signature
<1> HIDE DEF s
<1>4. Len(data) \in Nat /\ pos \in Nat /\ Len(data) <= pos /\ Behind = pos - Len(data)
      /\ s \in Nat /\ s >= 1 /\ s <= Len(data)
  BY <1>1, <1>3, StreamIs DEF InHand, Behind
<1>5. /\ v8 \in Seq(Cell) /\ Len(v8) = Len(data) - s + 1
      /\ \A k \in 1..Len(v8) : v8[k] = data[s + k - 1] /\ v8[k] = stream[Behind + s - 1 + k]
  BY <1>1, <1>4, RestOfData
<1> HIDE DEF v8
<1>6. Behind' = Behind + s - 1
  BY <1>2, <1>4, <1>5 DEF Behind
<1>7. Typed'
  BY <1>1, <1>2, <1>5 DEF Typed
<1>8. StartsV8(v8)
  <2>1. Len(v8) >= 1 /\ 1 \in 1..Len(v8) /\ Behind + s - 1 + 1 = Behind + s
    BY <1>3, <1>4, <1>5
  <2>2. v8[1] = stream[Behind + s]
    BY <1>5, <2>1
  <2>3. v8 # <<>> /\ Head(v8) = v8[1]
    BY <1>5, <2>1
  <2>. QED  BY <1>3, <2>2, <2>3 DEF StartsV8
<1>9. InHand'
  <2>1. Len(v8) <= pos
    BY <1>4, <1>5
  <2>2. \A k \in 1..Len(v8) : v8[k] = stream[Behind' + k]
    BY <1>5, <1>6
  <2>. QED  BY <1>2, <1>8, <2>1, <2>2 DEF InHand
<1>10. Handed'
  <2>1. ~Exhausted
    BY <1>4 DEF Exhausted
  <2>. QED  BY <1>1, <1>2, <2>1 DEF Handed
<1>11. Consecutive'
  BY <1>1, <1>2 DEF Consecutive
<1>12. NextInTurn'
  <2> SUFFICES ASSUME delivered # <<>>
        PROVE  \E q \in 1..Behind' :
                 /\ Begins(stream[q]) /\ stream[q][3] = Number(delivered[Len(delivered)])
                 /\ \A m \in (q + 1)..Behind' : ~Begins(stream[m])
    BY <1>2 DEF NextInTurn
  <2>1. PICK q \in 1..Behind :
          /\ Begins(stream[q]) /\ stream[q][3] = Number(delivered[Len(delivered)])
          /\ \A m \in (q + 1)..Behind : ~Begins(stream[m])
    BY <1>1, <1>2 DEF NextInTurn
  <2>2. \A m \in (q + 1)..Behind' : ~Begins(stream[m])
    <3> SUFFICES ASSUME NEW m \in (q + 1)..Behind' PROVE ~Begins(stream[m])
      OBVIOUS
    <3>1. m \in (q + 1)..Behind \/ m \in (Behind + 1)..(Behind + s - 1)
      BY <1>3, <1>4, <1>6
    <3>. QED  BY <1>3, <2>1, <3>1
  <2>3. q \in 1..Behind'
    BY <1>3, <1>4, <1>6
  <2>. QED  BY <2>1, <2>2, <2>3
<1>. QED  BY <1>7, <1>9, <1>10, <1>11, <1>12 DEF StreamInv

LEMMA SyncV8Stays == StreamInv /\ SyncV8 => StreamInv'
<1> SUFFICES ASSUME StreamInv, SyncV8 PROVE StreamInv'
  OBVIOUS
<1>1. Typed /\ InHand /\ Handed /\ Consecutive /\ NextInTurn
  BY DEF StreamInv
<1> DEFINE s == Least(Where(data, "sig"))
           v8 == From(data, s)
           n == Least(Where(v8, "nl"))
           f == SubSeq(v8, 1, n)
           rest == From(v8, n + 1)
<1>2. /\ pc = "initial" /\ Where(data, "sig") # {} /\ Where(v8, "nl") # {}
      /\ delivered' = Append(delivered, f)
      /\ data' = rest \/ (data' = <<>> /\ pc' = "closed")
      /\ pc' \in {"initial", "closed"}
      /\ UNCHANGED <<stream, arrived, hungUp, pos, gaveUp>>
  BY DEF SyncV8, HandOn, Verdict, Environment
<1>3. /\ s \in 1..Len(data) /\ Behind \in Nat /\ Behind + s \in 1..Len(stream)
      /\ Kind(stream[Behind + s]) = "sig"
      /\ \A m \in (Behind + 1)..(Behind + s - 1) : ~Begins(stream[m])
  BY <1>1, <1>2, Signature
<1> HIDE DEF s
<1>4. /\ Len(data) \in Nat /\ pos \in Nat /\ Len(data) <= pos /\ Behind = pos - Len(data)
      /\ s \in Nat /\ s >= 1 /\ s <= Len(data) /\ pos <= Len(stream) /\ Len(stream) \in Nat
      /\ Len(data) <= MessageSize
  BY <1>1, <1>2, <1>3, StreamIs DEF InHand, Behind
<1>5. /\ v8 \in Seq(Cell) /\ Len(v8) = Len(data) - s + 1
      /\ \A k \in 1..Len(v8) : v8[k] = data[s + k - 1] /\ v8[k] = stream[Behind + s - 1 + k]
  <2>1. s \in Nat \ {0} /\ s <= Len(data) + 1
    BY <1>4
  <2> HIDE DEF v8
  <2>2. v8 = From(data, s)
    BY DEF v8
  <2>. QED  BY <1>1, <2>1, <2>2, RestOfData
<1> HIDE DEF v8
<1>6. /\ n \in 1..Len(v8) /\ v8[n][1] = "nl"
      /\ \A i \in 1..Len(v8) : i < n => v8[i][1] # "nl"
  BY <1>2, <1>5, FirstOfKind
<1> HIDE DEF n
<1>7. n \in Nat /\ n >= 1 /\ n <= Len(v8) /\ Len(v8) \in Nat
  BY <1>4, <1>5, <1>6
<1>8. /\ f \in Seq(Cell) /\ Len(f) = n /\ \A k \in 1..n : f[k] = v8[k]
  <2>1. /\ SubSeq(v8, 1, n) \in Seq(Cell) /\ Len(SubSeq(v8, 1, n)) = n - 1 + 1
        /\ \A k \in 1..(n - 1 + 1) : SubSeq(v8, 1, n)[k] = v8[1 + k - 1]
    BY <1>5, <1>7, Piece
  <2>. QED  BY <1>7, <2>1
<1> HIDE DEF f
<1>9. /\ rest \in Seq(Cell) /\ Len(rest) = Len(v8) - n
      /\ \A k \in 1..Len(rest) : rest[k] = v8[n + k]
  <2>1. /\ SubSeq(v8, n + 1, Len(v8)) \in Seq(Cell)
        /\ Len(SubSeq(v8, n + 1, Len(v8))) = Len(v8) - (n + 1) + 1
        /\ \A k \in 1..(Len(v8) - (n + 1) + 1) :
             SubSeq(v8, n + 1, Len(v8))[k] = v8[(n + 1) + k - 1]
    BY <1>5, <1>7, Piece
  <2>. QED  BY <1>7, <2>1 DEF From
<1> HIDE DEF rest
<1> DEFINE b == Behind + s
<1>10. /\ b + n - 1 <= Len(stream) /\ b + n - 1 \in Nat
       /\ data' = rest => Behind' = b + n - 1
  <2>1. Len(rest) \in Nat /\ Len(rest) = Len(data) - s + 1 - n
    BY <1>4, <1>5, <1>7, <1>9
  <2>2. pos - Len(rest) = Behind + s + n - 1
    BY <1>4, <1>7, <2>1
  <2>3. data' = rest => Behind' = pos - Len(rest)
    BY <1>2 DEF Behind
  <2>4. b + n - 1 <= Len(stream) /\ b + n - 1 \in Nat
    BY <1>3, <1>4, <1>5, <1>7
  <2>. QED  BY <1>4, <1>7, <2>2, <2>3, <2>4
<1>11. /\ Line(f) /\ Number(f) = stream[b][3] /\ Ends(f)
       /\ \A m \in (b + 1)..(b + n - 1) : ~Begins(stream[m])
  <2>1. \A i \in 1..Len(f) : f[i] = stream[b + i - 1]
    <3> SUFFICES ASSUME NEW i \in 1..n PROVE f[i] = stream[b + i - 1]
      BY <1>8
    <3>1. i \in 1..Len(v8) /\ Behind + s - 1 + i = b + i - 1
      BY <1>4, <1>3, <1>7
    <3>. QED  BY <1>5, <1>8, <3>1
  <2>2. \A i \in 1..Len(f) : i < Len(f) => f[i][1] # "nl"
    <3> SUFFICES ASSUME NEW i \in 1..n, i < n PROVE f[i][1] # "nl"
      BY <1>8
    <3>1. i \in 1..Len(v8)
      BY <1>7
    <3>. QED  BY <1>6, <1>8, <3>1
  <2>3. Len(f) >= 1 /\ b + Len(f) - 1 <= Len(stream) /\ f[Len(f)][1] = "nl"
    <3>1. n \in 1..n
      BY <1>7
    <3>. QED  BY <1>6, <1>7, <1>8, <1>10, <3>1
  <2>4. b \in 1..Len(stream) /\ Kind(stream[b]) = "sig"
    BY <1>3
  <2> HIDE DEF b
  <2>. QED  BY <1>1, <1>8, <2>1, <2>2, <2>3, <2>4, LineOfStream
<1>12. Typed'
  <2>1. delivered' \in Seq(Seq(Cell))
    BY <1>1, <1>2, <1>8 DEF Typed
  <2>2. data' \in Seq(Cell)
    <3>1. <<>> \in Seq(Cell)
      OBVIOUS
    <3>. QED  BY <1>2, <1>9, <3>1
  <2>. QED  BY <1>1, <1>2, <2>1, <2>2 DEF Typed
<1>13. InHand'
  <2>1. Len(rest) <= pos /\ Len(rest) <= MessageSize
    BY <1>4, <1>5, <1>7, <1>9 DEF MessageSize, Segments
  <2>2. CASE data' = rest
    <3>1. ASSUME NEW k \in 1..Len(rest) PROVE rest[k] = stream[Behind' + k]
      <4>1. n + k \in 1..Len(v8) /\ Behind + s - 1 + (n + k) = Behind' + k
        BY <1>3, <1>4, <1>7, <1>9, <1>10, <2>2
      <4>. QED  BY <1>5, <1>9, <4>1
    <3>. QED  BY <1>2, <2>1, <2>2, <3>1 DEF InHand
  <2>3. CASE data' = <<>>
    <3>1. Len(<<>>) = 0 /\ pos \in Nat
      BY <1>4
    <3>. QED  BY <1>2, <2>3, <3>1 DEF InHand, MessageSize, Segments
  <2>. QED  BY <1>2, <2>2, <2>3
<1>14. data # <<>> /\ f # <<>> /\ Begins(stream[b])
  BY <1>3, <1>4, <1>7, <1>8 DEF Begins
<1>15. Handed'
  <2>1. StartsV8(f)
    BY <1>11 DEF Line
  <2>. QED  BY <1>1, <1>2, <1>8, <1>11, <1>14, <2>1, HandedStays
<1>16. b \in (Behind + 1)..Len(stream) /\ b \in 1..Len(stream)
       /\ \A m \in (Behind + 1)..(b - 1) : ~Begins(stream[m])
  BY <1>3, <1>4
<1>17. data' = rest => /\ Behind' \in Nat /\ b <= Behind'
                       /\ \A m \in (b + 1)..Behind' : ~Begins(stream[m])
  BY <1>3, <1>4, <1>7, <1>10, <1>11
<1> HIDE DEF b
<1>18. Consecutive'
  BY <1>1, <1>2, <1>8, <1>11, <1>14, <1>16, TurnStays
<1>19. NextInTurn'
  <2>1. CASE pc' = "closed"
    BY <2>1 DEF NextInTurn
  <2>2. CASE data' = rest
    BY <1>1, <1>2, <1>8, <1>11, <1>14, <1>16, <1>17, <2>2, NextStays
  <2>. QED  BY <1>2, <2>1, <2>2
<1>. QED  BY <1>12, <1>13, <1>15, <1>18, <1>19 DEF StreamInv

-----------------------------------------------------------------------------
(* Steps of a message without one *)

\* A message without a signature is looked at when it has its full length.
LEMMA SixInHand ==
  ASSUME Typed, InHand, pc = "initial", Where(data, "sig") = {}, Ready(data)
  PROVE  Len(data) = 6 /\ Behind \in Nat /\ Behind + 6 = pos
<1>3. /\ Len(data) \in Nat /\ pos \in Nat /\ Len(data) <= pos /\ Behind = pos - Len(data)
      /\ data \in Seq(Cell) /\ Len(data) <= 6
  BY StreamIs DEF InHand, Behind, MessageSize, Segments
<1>4. \A i \in 1..Len(data) : data[i][1] # "sig"
  BY <1>3, WhereIs
<1>5. ~HoldsWholeV8Frame(data)
  <2> DEFINE solid == {i \in DOMAIN data : Kind(data[i]) # "nl"}
  <2>1. CASE solid = {}
    <3>1. Stripped(data) = <<>>
      BY <2>1 DEF Stripped
    <3>. QED  BY <3>1 DEF HoldsWholeV8Frame, StartsV8
  <2>2. CASE solid # {}
    <3> DEFINE i == Least(solid)
    <3>1. solid \in SUBSET Nat /\ solid \subseteq 1..Len(data)
      BY <1>3
    <3> HIDE DEF solid
    <3>2. i \in 1..Len(data)
      BY <2>2, <3>1, LeastIsOne
    <3>3. Stripped(data) = From(data, i)
      BY <2>2 DEF Stripped, solid
    <3> HIDE DEF i
    <3>4. i \in Nat \ {0} /\ i <= Len(data) + 1
      BY <1>3, <3>2
    <3>5. /\ From(data, i) \in Seq(Cell) /\ Len(From(data, i)) = Len(data) - i + 1
          /\ \A k \in 1..Len(From(data, i)) : From(data, i)[k] = data[i + k - 1]
      BY <3>4, RestOfData
    <3>6. Len(From(data, i)) >= 1 /\ i + 1 - 1 = i /\ 1 \in 1..Len(From(data, i))
      BY <1>3, <3>2, <3>5
    <3>7. From(data, i)[1] = data[i]
      BY <3>5, <3>6
    <3>8. Head(From(data, i)) = data[i]
      BY <3>5, <3>6, <3>7
    <3>9. Kind(data[i]) # "sig"
      BY <1>4, <3>2 DEF Kind
    <3>. QED  BY <3>3, <3>8, <3>9 DEF HoldsWholeV8Frame, StartsV8
  <2>. QED  BY <2>1, <2>2
<1>6. Len(data) = 6 /\ Behind \in Nat /\ Behind + 6 = pos
  <2>1. Len(data) >= 6
    BY <1>5 DEF Ready, MessageSize, Segments
  <2>2. Len(data) = 6
    <3>1. Len(data) \in Nat /\ Len(data) <= 6
      BY <1>3
    <3>2. \A x \in Nat : x >= 6 /\ x <= 6 => x = 6
      OBVIOUS
    <3>. QED  BY <2>1, <3>1, <3>2, Zenon
  <2>3. pos \in Nat /\ 6 <= pos /\ Behind = pos - 6
    BY <1>3, <2>2
  <2>4. pos - 6 \in Nat /\ (pos - 6) + 6 = pos
    BY <2>3
  <2>. QED  BY <2>2, <2>3, <2>4
<1>. QED  BY <1>6

\* Six bytes in hand, that begin with a v7 frame or one cell before it.
LEMMA SyncV7Stays == StreamInv /\ SyncV7 => StreamInv'
<1> SUFFICES ASSUME StreamInv, SyncV7 PROVE StreamInv'
  OBVIOUS
<1>1. Typed /\ InHand /\ Handed /\ Consecutive /\ NextInTurn
  BY DEF StreamInv
<1> DEFINE o == Least(Offsets(data))
           f == Rewound(data, o)
<1>2. /\ pc = "initial" /\ Where(data, "sig") = {} /\ Offsets(data) # {} /\ Ready(data)
      /\ delivered' = Append(delivered, f) /\ data' = <<>>
      /\ pc' \in {"initial", "closed"} /\ (o > 0 => pc' = "closed")
      /\ UNCHANGED <<stream, arrived, hungUp, pos, gaveUp>>
  BY DEF SyncV7, HandOn, Verdict, Environment
<1>3. /\ Len(data) \in Nat /\ pos \in Nat /\ Len(data) <= pos /\ Behind = pos - Len(data)
      /\ data \in Seq(Cell) /\ pos <= Len(stream) /\ Len(stream) \in Nat
      /\ Len(data) <= 6 /\ \A i \in 1..Len(data) : data[i] = stream[Behind + i]
  BY <1>1, <1>2, StreamIs DEF InHand, Behind, MessageSize, Segments
<1>4. \A i \in 1..Len(data) : data[i][1] # "sig"
  BY <1>2, <1>3, WhereIs
<1>6. Len(data) = 6 /\ Behind \in Nat /\ Behind + 6 = pos
  BY <1>1, <1>2, SixInHand
<1>7. /\ o \in {0, 1} /\ Aligned(data, o) /\ \A y \in Offsets(data) : o <= y
  <2>1. Offsets(data) \in SUBSET Nat
    BY <1>3 DEF Offsets
  <2>2. o \in Offsets(data) /\ \A y \in Offsets(data) : o <= y
    BY <1>2, <2>1, LeastIsOne
  <2>3. o \in 0..6 /\ Aligned(data, o)
    BY <1>6, <2>2 DEF Offsets
  <2> HIDE DEF o
  <2>4. o + 6 - 1 <= 6
    BY <1>6, <2>3 DEF Aligned, MessageSize, Segments
  <2>5. o \in {0, 1}
    BY <2>3, <2>4
  <2>. QED  BY <2>2, <2>3, <2>5
<1> HIDE DEF o
<1> DEFINE b == Behind + o + 1
<1>8. /\ data[o + 1] = stream[b] /\ b \in 1..Len(stream) /\ b \in (Behind + 1)..Len(stream)
      /\ Kind(stream[b]) = "head" /\ stream[b][2] = 1
  <2>1. o + 1 \in 1..Len(data) /\ Behind + (o + 1) = b
    BY <1>6, <1>7
  <2>2. data[o + 2 * (1 - 1) + 1][1] = "head" /\ data[o + 2 * (1 - 1) + 1][2] = 1
    <3>1. 1 \in 1..Segments
      BY DEF Segments
    <3>. QED  BY <1>7, <3>1 DEF Aligned
  <2>3. o + 2 * (1 - 1) + 1 = o + 1
    BY <1>7
  <2>4. data[o + 1] = stream[b]
    BY <1>3, <2>1
  <2>5. b \in 1..Len(stream) /\ b \in (Behind + 1)..Len(stream)
    BY <1>3, <1>6, <1>7
  <2>6. stream[b][1] = "head" /\ stream[b][2] = 1
    BY <2>2, <2>3, <2>4
  <2>. QED  BY <2>4, <2>5, <2>6 DEF Kind
<1>9. /\ f \in Seq(Cell) /\ Len(f) = 6 /\ f[1] = data[o + 1]
      /\ o = 0 => \A k \in 1..6 : f[k] = data[k]
  <2> DEFINE t == From(data, o + 1)
             u == SubSeq(data, 1, o)
  <2>1. o + 1 \in Nat \ {0} /\ o + 1 <= Len(data) + 1 /\ o \in Nat
    BY <1>6, <1>7
  <2>2. /\ t \in Seq(Cell) /\ Len(t) = Len(data) - (o + 1) + 1
        /\ \A k \in 1..Len(t) : t[k] = data[(o + 1) + k - 1]
    BY <1>1, <2>1, RestOfData
  <2>3. u \in Seq(Cell) /\ Len(u) = o - 1 + 1
    <3>1. 1 \in Nat \ {0} /\ 1 <= o + 1 /\ o <= Len(data) /\ data \in Seq(Cell)
      BY <1>3, <1>6, <1>7
    <3>. QED  BY <2>1, <3>1, Piece
  <2>4. f = t \o u
    BY DEF Rewound
  <2> HIDE DEF t, u, f
  <2>5. f \in Seq(Cell) /\ Len(f) = Len(t) + Len(u) /\ \A k \in 1..Len(t) : f[k] = t[k]
    BY <2>2, <2>3, <2>4, Joined
  <2>6. Len(t) = 6 - o /\ Len(u) = o /\ Len(f) = 6
    BY <1>6, <1>7, <2>2, <2>3, <2>5
  <2>7. f[1] = data[o + 1]
    <3>1. 1 \in 1..Len(t) /\ (o + 1) + 1 - 1 = o + 1
      BY <1>7, <2>6
    <3>. QED  BY <2>2, <2>5, <3>1
  <2>8. ASSUME o = 0, NEW k \in 1..6 PROVE f[k] = data[k]
    <3>1. k \in 1..Len(t) /\ (o + 1) + k - 1 = k
      BY <2>6, <2>8
    <3>. QED  BY <2>2, <2>5, <3>1
  <2>. QED  BY <2>5, <2>6, <2>7, <2>8
<1> HIDE DEF f
<1>10. f # <<>> /\ ~StartsV8(f) /\ Number(f) = stream[b][3] /\ Begins(stream[b])
  <2>1. f # <<>> /\ Head(f) = f[1] /\ f[1] = stream[b]
    <3>1. f \in Seq(Cell) /\ Len(f) = 6 /\ f[1] = stream[b]
      BY <1>8, <1>9
    <3> HIDE DEF b
    <3>. QED  BY <3>1
  <2>. QED  BY <1>8, <2>1 DEF StartsV8, Kind, Number, Begins
<1>11. ASSUME o = 0
       PROVE  /\ \A i \in 1..6 : f[i] = stream[b + i - 1]
              /\ f[1] = <<"head", 1, stream[b][3]>> \/ (f[1][1] = "head" /\ f[1][2] = 1 /\ f[1][3] = stream[b][3])
              /\ f[2] = <<"body", 1, stream[b][3]>> /\ f[3] = <<"head", 2, stream[b][3]>>
              /\ f[4] = <<"body", 2, stream[b][3]>> /\ f[5] = <<"head", 3, stream[b][3]>>
              /\ f[6] = <<"body", 3, stream[b][3]>>
  <2>1. ASSUME NEW i \in 1..6 PROVE f[i] = stream[b + i - 1]
    <3>1. i \in 1..Len(data) /\ Behind + i = b + i - 1
      BY <1>6, <1>11
    <3>. QED  BY <1>3, <1>9, <1>11, <3>1
  <2>2. b \in Nat /\ b + 1 <= Len(stream) /\ b + 2 <= Len(stream) /\ b + 3 <= Len(stream)
        /\ b + 4 <= Len(stream) /\ b + 5 <= Len(stream)
    <3>1. b = Behind + 1 /\ Behind \in Nat /\ Behind + 6 <= Len(stream)
      BY <1>3, <1>6, <1>11
    <3>2. Len(stream) \in Nat
      BY <1>3
    <3> HIDE DEF b
    <3>. QED  BY <3>1, <3>2
  <2>3. f[1] = stream[b] /\ f[2] = stream[b + 1] /\ f[3] = stream[b + 2]
        /\ f[4] = stream[b + 3] /\ f[5] = stream[b + 4] /\ f[6] = stream[b + 5]
    <3>1. b + 1 - 1 = b /\ b + 2 - 1 = b + 1 /\ b + 3 - 1 = b + 2
          /\ b + 4 - 1 = b + 3 /\ b + 5 - 1 = b + 4 /\ b + 6 - 1 = b + 5
      BY <2>2
    <3> HIDE DEF b
    <3>. QED  BY <2>1, <3>1
  <2>4. f[1][1] = "head" /\ f[1][2] = 1 /\ f[1][3] = stream[b][3]
    BY <1>8, <2>3 DEF Kind
  <2> HIDE DEF b
  <2>5. /\ stream[b + 1] = <<"body", 1, stream[b][3]>> /\ stream[b + 2] = <<"head", 2, stream[b][3]>>
        /\ stream[b + 3] = <<"body", 2, stream[b][3]>> /\ stream[b + 4] = <<"head", 3, stream[b][3]>>
        /\ stream[b + 5] = <<"body", 3, stream[b][3]>>
    BY <1>1, <1>8, <2>2, SixInPlace
  <2>. QED  BY <2>1, <2>3, <2>4, <2>5
<1>12. o = 0 => WholeV7(f)
  <2> SUFFICES ASSUME o = 0 PROVE WholeV7(f)
    OBVIOUS
  <2>1. DOMAIN f = 1..6 /\ Number(f) = stream[b][3]
    BY <1>9, <1>10
  <2>2. ASSUME NEW i \in 1..6
        PROVE  f[i][3] = Number(f) /\ f[i][1] \in {"head", "body"}
    <3>1. i = 1 \/ i = 2 \/ i = 3 \/ i = 4 \/ i = 5 \/ i = 6
      OBVIOUS
    <3> HIDE DEF b
    <3>2. CASE i = 1
      BY <1>11, <2>1, <3>2
    <3>3. CASE i # 1
      BY <1>11, <2>1, <3>1, <3>3
    <3>. QED  BY <3>2, <3>3
  <2>3. Aligned(f, 0)
    <3>1. 0 + MessageSize - 1 <= Len(f)
      BY <1>9 DEF MessageSize, Segments
    <3>2. ASSUME NEW k \in 1..Segments
          PROVE  f[0 + 2 * (k - 1) + 1][1] = "head" /\ f[0 + 2 * (k - 1) + 1][2] = k
      <4>1. k = 1 \/ k = 2 \/ k = 3
        BY DEF Segments
      <4>2. 0 + 2 * (1 - 1) + 1 = 1 /\ 0 + 2 * (2 - 1) + 1 = 3 /\ 0 + 2 * (3 - 1) + 1 = 5
        OBVIOUS
      <4>3. /\ f[1][1] = "head" /\ f[1][2] = 1 /\ f[3][1] = "head" /\ f[3][2] = 2
            /\ f[5][1] = "head" /\ f[5][2] = 3
        BY <1>11
      <4>. QED  BY <4>1, <4>2, <4>3
    <3>. QED  BY <3>1, <3>2 DEF Aligned
  <2>. QED  BY <1>9, <2>1, <2>2, <2>3 DEF WholeV7, MessageSize, Segments
<1>13. \A m \in (Behind + 1)..(b - 1) : ~Begins(stream[m])
  <2> SUFFICES ASSUME NEW m \in (Behind + 1)..(b - 1), Begins(stream[m]) PROVE FALSE
    OBVIOUS
  <2>1. o = 1 /\ m = Behind + 1 /\ b = m + 1 /\ m \in 1..Len(stream)
    BY <1>3, <1>6, <1>7
  <2>2. 1 \in 1..Len(data) /\ data[1] = stream[m]
    BY <1>3, <1>6, <2>1
  <2>3. stream[m][1] # "sig"
    BY <1>4, <2>2
  <2>4. Kind(stream[m]) = "head" /\ stream[m][2] = 1
    BY <2>3 DEF Begins, Kind
  <2>5. m + 1 <= Len(stream)
    BY <1>8, <2>1
  <2> HIDE DEF b
  <2>6. stream[m + 1] = <<"body", 1, stream[m][3]>>
    BY <1>1, <2>1, <2>4, <2>5, SixInPlace
  <2>. QED  BY <1>8, <2>1, <2>6 DEF Kind
<1>14. Typed'
  <2>1. delivered' \in Seq(Seq(Cell)) /\ data' \in Seq(Cell)
    BY <1>1, <1>2, <1>9 DEF Typed
  <2>. QED  BY <1>1, <1>2, <2>1 DEF Typed
<1>15. InHand' /\ Behind' = pos
  BY <1>2, <1>3 DEF InHand, Behind, MessageSize, Segments
<1>16. Handed'
  <2>1. data # <<>>
    BY <1>6
  <2>2. ~WholeV7(f) => pc' = "closed"
    BY <1>2, <1>7, <1>12
  <2>. QED  BY <1>1, <1>2, <1>9, <1>10, <2>1, <2>2, HandedStays
<1>17. Consecutive'
  <2> HIDE DEF b
  <2>. QED  BY <1>1, <1>2, <1>8, <1>9, <1>10, <1>13, TurnStays
<1>18. NextInTurn'
  <2>1. CASE pc' = "closed"
    BY <2>1 DEF NextInTurn
  <2>2. CASE pc' # "closed"
    <3>1. o = 0
      BY <1>2, <1>7, <2>2
    <3>2. b <= Behind' /\ Behind' \in Nat
      BY <1>3, <1>6, <1>15, <3>1
    <3>3. ASSUME NEW m \in (b + 1)..Behind' PROVE ~Begins(stream[m])
      <4>1. m = b + 1 \/ m = b + 2 \/ m = b + 3 \/ m = b + 4 \/ m = b + 5
        BY <1>3, <1>6, <1>15, <3>1, <3>3
      <4>2. /\ b + 2 - 1 = b + 1 /\ b + 3 - 1 = b + 2 /\ b + 4 - 1 = b + 3
            /\ b + 5 - 1 = b + 4 /\ b + 6 - 1 = b + 5
        BY <1>6, <3>1
      <4> HIDE DEF b
      <4>3. /\ stream[b + 1] = f[2] /\ stream[b + 2] = f[3] /\ stream[b + 3] = f[4]
            /\ stream[b + 4] = f[5] /\ stream[b + 5] = f[6]
        BY <1>11, <3>1, <4>2
      <4>4. ~Begins(f[2]) /\ ~Begins(f[3]) /\ ~Begins(f[4]) /\ ~Begins(f[5]) /\ ~Begins(f[6])
        BY <1>11, <3>1 DEF Begins, Kind
      <4>. QED  BY <4>1, <4>3, <4>4
    <3> HIDE DEF b
    <3>. QED  BY <1>1, <1>2, <1>8, <1>9, <1>10, <3>2, <3>3, NextStays
  <2>. QED  BY <2>1, <2>2
<1>. QED  BY <1>14, <1>15, <1>16, <1>17, <1>18 DEF StreamInv

-----------------------------------------------------------------------------
(* Steps inside a line *)

\* The bytes that wait in the reader's buffer.
LEMMA BufferedIs ==
  ASSUME Typed
  PROVE  /\ Buffered \in Seq(Cell) /\ Len(Buffered) = arrived - pos
         /\ \A k \in 1..(arrived - pos) : Buffered[k] = stream[pos + k]
<1>1. /\ stream \in Seq(Cell) /\ arrived \in Nat /\ pos \in Nat /\ pos <= arrived
      /\ arrived <= Len(stream) /\ Len(stream) \in Nat
  BY StreamIs
<1>2. /\ SubSeq(stream, pos + 1, arrived) \in Seq(Cell)
      /\ Len(SubSeq(stream, pos + 1, arrived)) = arrived - (pos + 1) + 1
      /\ \A k \in 1..(arrived - (pos + 1) + 1) :
           SubSeq(stream, pos + 1, arrived)[k] = stream[(pos + 1) + k - 1]
  BY <1>1, Piece
<1>. QED  BY <1>1, <1>2 DEF Buffered

\* The line in hand with n more bytes, of which only the last may be a newline,
\* is handed on, and nothing is in hand then.
LEMMA LineStays ==
  ASSUME StreamInv, pc = "line", NEW n \in Nat, n <= arrived - pos, NEW f,
         f = data \o SubSeq(Buffered, 1, n),
         \A k \in 1..n : k < n => Buffered[k][1] # "nl",
         delivered' = Append(delivered, f), data' = <<>>, pos' = pos + n,
         pc' \in {"initial", "closed"},
         UNCHANGED <<stream, arrived, hungUp, gaveUp>>,
         (n >= 1 /\ Buffered[n][1] = "nl") \/ (pos' = arrived /\ hungUp)
  PROVE  StreamInv'
<1>1. Typed /\ InHand /\ Handed /\ Consecutive /\ NextInTurn
  BY DEF StreamInv
<1>2. /\ Len(data) \in Nat /\ pos \in Nat /\ Len(data) <= pos /\ Behind = pos - Len(data)
      /\ data \in Seq(Cell) /\ arrived \in Nat /\ arrived <= Len(stream)
      /\ Len(stream) \in Nat /\ \A i \in 1..Len(data) : data[i] = stream[Behind + i]
  BY <1>1, StreamIs DEF InHand, Behind
<1>3. /\ Buffered \in Seq(Cell) /\ Len(Buffered) = arrived - pos
      /\ \A k \in 1..(arrived - pos) : Buffered[k] = stream[pos + k]
  BY <1>1, BufferedIs
<1> DEFINE more == SubSeq(Buffered, 1, n)
<1>4. more \in Seq(Cell) /\ Len(more) = n /\ \A k \in 1..n : more[k] = Buffered[k]
  <2>1. n <= Len(Buffered) /\ 1 <= n + 1
    BY <1>3
  <2>2. /\ SubSeq(Buffered, 1, n) \in Seq(Cell) /\ Len(SubSeq(Buffered, 1, n)) = n - 1 + 1
        /\ \A k \in 1..(n - 1 + 1) : SubSeq(Buffered, 1, n)[k] = Buffered[1 + k - 1]
    BY <1>3, <2>1, Piece
  <2>. QED  BY <2>2
<1> HIDE DEF more
<1>5. /\ f \in Seq(Cell) /\ Len(f) = Len(data) + n
      /\ \A k \in 1..Len(data) : f[k] = data[k]
      /\ \A k \in 1..n : f[Len(data) + k] = more[k]
  <2>1. f = data \o more
    BY DEF more
  <2>. QED  BY <1>2, <1>4, <2>1, Joined
<1>6. StartsV8(data) /\ Where(data, "nl") = {}
  BY <1>1 DEF InHand
<1>7. /\ Len(data) >= 1 /\ data[1][1] = "sig" /\ data # <<>>
      /\ \A k \in 1..Len(data) : data[k][1] # "nl"
  <2>1. data # <<>> /\ Head(data)[1] = "sig"
    BY <1>6 DEF StartsV8, Kind
  <2>2. Len(data) >= 1 /\ Head(data) = data[1]
    BY <1>2, <2>1
  <2>3. \A k \in 1..Len(data) : data[k][1] # "nl"
    BY <1>2, <1>6, WhereIs
  <2>. QED  BY <2>1, <2>2, <2>3
<1> DEFINE b == Behind + 1
<1>8. /\ Behind \in Nat /\ b \in 1..Len(stream) /\ b \in (Behind + 1)..Len(stream)
      /\ Len(f) >= 1 /\ b + Len(f) - 1 <= Len(stream)
      /\ pos + n = b + Len(f) - 1 /\ pos + n <= arrived
  <2>1. pos \in Nat /\ arrived \in Nat /\ Len(data) \in Nat /\ Len(stream) \in Nat
        /\ Len(data) <= pos /\ Len(data) >= 1 /\ arrived <= Len(stream)
        /\ Behind = pos - Len(data) /\ n <= arrived - pos /\ n \in Nat
    BY <1>2, <1>7
  <2>2. Len(f) = Len(data) + n
    BY <1>5
  <2>3. Behind \in Nat /\ b + Len(data) - 1 = pos
    BY <2>1
  <2>4. pos + n <= arrived /\ pos + n <= Len(stream)
    BY <2>1
  <2>5. pos + n = b + Len(f) - 1
    <3>1. b \in Nat /\ n \in Nat /\ Len(data) \in Nat
      BY <2>1, <2>3
    <3>2. \A x, y, z \in Nat : x + y - 1 = pos => pos + z = x + (y + z) - 1
      BY <2>1
    <3> HIDE DEF b
    <3>. QED  BY <2>2, <2>3, <3>1, <3>2
  <2>6. b \in Nat /\ b >= 1 /\ b <= Len(stream) /\ b >= Behind + 1
    BY <2>1, <2>3
  <2>7. b \in 1..Len(stream) /\ b \in (Behind + 1)..Len(stream)
    <3> HIDE DEF b
    <3>. QED  BY <2>1, <2>3, <2>6
  <2>8. Len(f) >= 1
    BY <2>1, <2>2
  <2>. QED  BY <2>3, <2>4, <2>5, <2>7, <2>8
<1>9. \A i \in 1..Len(f) : f[i] = stream[b + i - 1]
  <2> SUFFICES ASSUME NEW i \in 1..Len(f) PROVE f[i] = stream[b + i - 1]
    OBVIOUS
  <2>1. CASE i <= Len(data)
    <3>1. i \in 1..Len(data) /\ b + i - 1 = Behind + i
      BY <1>2, <1>8, <2>1
    <3>. QED  BY <1>2, <1>5, <3>1
  <2>2. CASE i > Len(data)
    <3>1. i - Len(data) \in 1..n /\ i - Len(data) \in 1..(arrived - pos)
          /\ Len(data) + (i - Len(data)) = i
      BY <1>2, <1>5, <2>2
    <3>2. f[i] = stream[pos + (i - Len(data))]
      BY <1>3, <1>4, <1>5, <3>1
    <3>3. pos + (i - Len(data)) = b + i - 1
      <4>1. pos \in Nat /\ Len(data) \in Nat /\ Behind = pos - Len(data) /\ Len(f) \in Nat
        BY <1>2, <1>5
      <4>2. i \in Nat
        BY <4>1
      <4>. QED  BY <4>1, <4>2
    <3>. QED  BY <3>2, <3>3
  <2>. QED  BY <1>2, <1>5, <2>1, <2>2
<1>10. \A i \in 1..Len(f) : i < Len(f) => f[i][1] # "nl"
  <2> SUFFICES ASSUME NEW i \in 1..Len(f), i < Len(f) PROVE f[i][1] # "nl"
    OBVIOUS
  <2>1. CASE i <= Len(data)
    <3>1. i \in 1..Len(data)
      BY <1>2, <2>1
    <3>. QED  BY <1>5, <1>7, <3>1
  <2>2. CASE i > Len(data)
    <3>1. i - Len(data) \in 1..n /\ i - Len(data) < n /\ Len(data) + (i - Len(data)) = i
      BY <1>2, <1>5, <2>2
    <3>. QED  BY <1>4, <1>5, <3>1
  <2>. QED  BY <1>2, <1>5, <2>1, <2>2
<1>11. Kind(stream[b]) = "sig" /\ Begins(stream[b])
  <2>1. 1 \in 1..Len(data) /\ data[1] = stream[Behind + 1]
    BY <1>2, <1>7
  <2>. QED  BY <1>7, <2>1 DEF Kind, Begins
<1> HIDE DEF b
<1>12. /\ Line(f) /\ Number(f) = stream[b][3]
       /\ f[Len(f)][1] = "nl" => Ends(f)
       /\ f[Len(f)][1] # "nl" => Where(f, "nl") = {}
       /\ \A m \in (b + 1)..(b + Len(f) - 1) : ~Begins(stream[m])
  BY <1>1, <1>5, <1>8, <1>9, <1>10, <1>11, LineOfStream
<1>13. Typed'
  <2>1. delivered' \in Seq(Seq(Cell)) /\ data' \in Seq(Cell)
    BY <1>1, <1>5 DEF Typed
  <2>2. pos' \in 0..arrived
    BY <1>2, <1>8
  <2>. QED  BY <1>1, <2>1, <2>2 DEF Typed
<1>14. InHand' /\ Behind' = b + Len(f) - 1 /\ Behind' \in Nat
  <2>1. Len(data') = 0 /\ pos + n \in Nat
    BY <1>2
  <2>2. Behind' = pos + n
    BY <2>1 DEF Behind
  <2>3. InHand'
    BY <2>1 DEF InHand, MessageSize, Segments
  <2>. QED  BY <1>8, <2>1, <2>2, <2>3
<1>15. Handed'
  <2>1. f # <<>>
    <3>1. Len(f) # Len(<<>>)
      BY <1>8
    <3>. QED  BY <3>1
  <2>2. StartsV8(f)
    BY <1>12 DEF Line
  <2>3. ASSUME ~Ends(f) PROVE Where(f, "nl") = {} /\ hungUp' /\ Exhausted'
    <3>1. ~(n >= 1 /\ Buffered[n][1] = "nl")
      <4> SUFFICES ASSUME n >= 1, Buffered[n][1] = "nl" PROVE FALSE
        OBVIOUS
      <4>1. n \in 1..n
        OBVIOUS
      <4>2. f[Len(f)][1] = "nl"
        BY <1>4, <1>5, <4>1
      <4>. QED  BY <1>12, <2>3, <4>2
    <3>. QED  BY <1>12, <2>3, <3>1 DEF Exhausted
  <2>. QED  BY <1>1, <1>5, <1>7, <1>12, <2>1, <2>2, <2>3, HandedStays
<1>16. \A m \in (Behind + 1)..(b - 1) : ~Begins(stream[m])
  BY <1>8 DEF b
<1>17. Consecutive'
  BY <1>1, <1>5, <1>8, <1>11, <1>12, <1>16, TurnStays
<1>18. NextInTurn'
  <2>1. b <= Behind' /\ b \in Nat
    BY <1>5, <1>8, <1>14
  <2>2. \A m \in (b + 1)..Behind' : ~Begins(stream[m])
    BY <1>12, <1>14
  <2>. QED  BY <1>1, <1>5, <1>8, <1>11, <1>12, <1>14, <2>1, <2>2, NextStays
<1>. QED  BY <1>13, <1>14, <1>15, <1>17, <1>18 DEF StreamInv

LEMMA ReadLineStays == StreamInv /\ ReadLine => StreamInv'
<1> SUFFICES ASSUME StreamInv, ReadLine PROVE StreamInv'
  OBVIOUS
<1>1. Typed
  BY DEF StreamInv
<1> DEFINE n == Least(Where(Buffered, "nl"))
<1>2. /\ pc = "line" /\ Where(Buffered, "nl") # {}
      /\ delivered' = Append(delivered, data \o SubSeq(Buffered, 1, n))
      /\ pos' = pos + n /\ data' = <<>> /\ pc' \in {"initial", "closed"}
      /\ UNCHANGED <<stream, arrived, hungUp, gaveUp>>
  BY DEF ReadLine, HandOn, Verdict, Environment
<1>3. Buffered \in Seq(Cell) /\ Len(Buffered) = arrived - pos
  BY <1>1, BufferedIs
<1>4. /\ n \in 1..Len(Buffered) /\ Buffered[n][1] = "nl"
      /\ \A i \in 1..Len(Buffered) : i < n => Buffered[i][1] # "nl"
  BY <1>2, <1>3, FirstOfKind
<1> HIDE DEF n
<1>5. n \in Nat /\ n >= 1 /\ n <= arrived - pos
  <2>1. Len(Buffered) \in Nat
    BY <1>3
  <2>. QED  BY <1>3, <1>4, <2>1
<1>6. \A k \in 1..n : k < n => Buffered[k][1] # "nl"
  <2>1. \A k \in 1..n : k \in 1..Len(Buffered)
    BY <1>3, <1>4, <1>5
  <2>. QED  BY <1>4, <2>1
<1>. QED  BY <1>2, <1>4, <1>5, <1>6, LineStays

LEMMA LineCutShortStays == StreamInv /\ LineCutShort => StreamInv'
<1> SUFFICES ASSUME StreamInv, LineCutShort PROVE StreamInv'
  OBVIOUS
<1>1. Typed
  BY DEF StreamInv
<1> DEFINE n == arrived - pos
<1>2. /\ pc = "line" /\ hungUp /\ Where(Buffered, "nl") = {}
      /\ delivered' = Append(delivered, data \o Buffered)
      /\ pos' = arrived /\ data' = <<>> /\ pc' \in {"initial", "closed"}
      /\ UNCHANGED <<stream, arrived, hungUp, gaveUp>>
  BY DEF LineCutShort, HandOn, Environment
<1>3. /\ Buffered \in Seq(Cell) /\ Len(Buffered) = n
      /\ pos \in Nat /\ arrived \in Nat /\ pos <= arrived
  BY <1>1, BufferedIs, StreamIs
<1>4. n \in Nat /\ n <= arrived - pos /\ pos' = pos + n
  BY <1>2, <1>3
<1>5. \A k \in 1..n : Buffered[k][1] # "nl"
  BY <1>2, <1>3, WhereIs
<1>6. Buffered = SubSeq(Buffered, 1, n)
  BY <1>3, <1>4
<1> HIDE DEF n
<1>7. delivered' = Append(delivered, data \o SubSeq(Buffered, 1, n))
  BY <1>2, <1>6
<1>. QED  BY <1>2, <1>4, <1>5, <1>7, LineStays

-----------------------------------------------------------------------------
(* Where the bytes are *)

\* Everything that has been put away, in order.
Ledger == FlattenSeq(delivered) \o FlattenSeq(fragments) \o FlattenSeq(rejected)
            \o dropped

\* A message is begun where a frame or a separator begins, as long as there is more.
AtStart == pc = "initial" =>
             Exhausted \/ Behind = Len(stream) \/ Starts(stream[Behind + 1])

\* What is behind the bytes in hand has been put away, but for separators.
Accounts ==
  /\ fragments \in Seq(Seq(Cell)) /\ rejected \in Seq(Seq(Cell)) /\ dropped \in Seq(Cell)
  /\ pc # "closed" => fragments = <<>> /\ rejected = <<>> /\ dropped = <<>>
  /\ LostWithRefusedFrame
  /\ Clean /\ ~gaveUp => Solid(Ledger) = Solid(SubSeq(stream, 1, Behind))
  /\ Clean => AtStart

\* The bytes in hand are a piece of the stream.
LEMMA HandIsPiece ==
  ASSUME Typed, InHand
  PROVE  /\ Behind \in Nat /\ Behind + Len(data) = pos /\ pos \in Nat /\ pos <= Len(stream)
         /\ Len(stream) \in Nat /\ Len(data) \in Nat
         /\ data = SubSeq(stream, Behind + 1, pos)
<1>1. /\ stream \in Seq(Cell) /\ Len(stream) \in Nat /\ pos \in Nat /\ pos <= Len(stream)
      /\ data \in Seq(Cell) /\ Len(data) \in Nat /\ Len(data) <= pos
      /\ Behind = pos - Len(data) /\ \A i \in 1..Len(data) : data[i] = stream[Behind + i]
  BY StreamIs DEF InHand, Behind
<1>2. Behind \in Nat /\ Behind + Len(data) = pos
  BY <1>1
<1> DEFINE c == SubSeq(stream, Behind + 1, pos)
<1>3. /\ c \in Seq(Cell) /\ Len(c) = pos - (Behind + 1) + 1
      /\ \A k \in 1..(pos - (Behind + 1) + 1) : c[k] = stream[(Behind + 1) + k - 1]
  <2>1. Behind + 1 \in Nat \ {0} /\ Behind + 1 <= pos + 1
    BY <1>1, <1>2
  <2>. QED  BY <1>1, <2>1, Piece
<1> HIDE DEF c
<1>4. Len(c) = Len(data)
  BY <1>1, <1>2, <1>3
<1>5. ASSUME NEW k \in 1..Len(c) PROVE c[k] = data[k]
  <2>1. k \in 1..(pos - (Behind + 1) + 1) /\ (Behind + 1) + k - 1 = Behind + k
        /\ k \in 1..Len(data)
    BY <1>1, <1>2, <1>3, <1>4
  <2>. QED  BY <1>1, <1>3, <2>1
<1>6. c = data
  BY <1>1, <1>3, <1>4, <1>5, SameCells
<1>. QED  BY <1>1, <1>2, <1>6 DEF c

\* What the places of a sequence make of it as a piece of the stream.
LEMMA PieceOfStream ==
  ASSUME Typed, NEW f \in Seq(Cell), NEW i \in Nat, NEW n \in Nat, Len(f) = n,
         i + n <= Len(stream), \A k \in 1..n : f[k] = stream[i + k]
  PROVE  f = SubSeq(stream, i + 1, i + n)
<1> DEFINE c == SubSeq(stream, i + 1, i + n)
<1>1. stream \in Seq(Cell)
  BY StreamIs
<1>2. /\ c \in Seq(Cell) /\ Len(c) = (i + n) - (i + 1) + 1
      /\ \A k \in 1..((i + n) - (i + 1) + 1) : c[k] = stream[(i + 1) + k - 1]
  <2>1. i + 1 \in Nat \ {0} /\ i + n \in Nat /\ i + 1 <= (i + n) + 1
    OBVIOUS
  <2>. QED  BY <1>1, <2>1, Piece
<1> HIDE DEF c
<1>3. (i + n) - (i + 1) + 1 = n
  OBVIOUS
<1>4. ASSUME NEW k \in 1..n PROVE c[k] = f[k]
  <2>1. (i + 1) + k - 1 = i + k
    OBVIOUS
  <2>. QED  BY <1>2, <1>3, <2>1
<1>5. c = f
  BY <1>2, <1>3, <1>4, SameCells
<1>. QED  BY <1>5 DEF c

LEMMA LedgerIs ==
  ASSUME delivered \in Seq(Seq(Cell)), fragments = <<>>, rejected = <<>>, dropped = <<>>
  PROVE  Ledger \in Seq(Cell)
<1> DEFINE a == FlattenSeq(delivered)
<1>1. a \in Seq(Cell)
  <2>1. <<>> \in Seq(Cell)
    OBVIOUS
  <2>. QED  BY <2>1, FlattenAppend
<1>2. FlattenSeq(fragments) = <<>> /\ FlattenSeq(rejected) = <<>>
  BY FlattenNone
<1> HIDE DEF a
<1>3. ((a \o <<>>) \o <<>>) \o <<>> = a
  BY <1>1
<1>. QED  BY <1>1, <1>2, <1>3 DEF Ledger, a

LEMMA AllTyped ==
  ASSUME delivered \in Seq(Seq(Cell)), fragments \in Seq(Seq(Cell)),
         rejected \in Seq(Seq(Cell)), dropped \in Seq(Cell)
  PROVE  Ledger \in Seq(Cell)
<1>1. \A ss \in Seq(Seq(Cell)) : FlattenSeq(ss) \in Seq(Cell)
  <2>1. <<>> \in Seq(Cell)
    OBVIOUS
  <2>. QED  BY <2>1, FlattenAppend
<1>2. \A x, y \in Seq(Cell) : x \o y \in Seq(Cell)
  OBVIOUS
<1>. QED  BY <1>1, <1>2 DEF Ledger

LEMMA LedgerGrows ==
  ASSUME Typed, Accounts, pc # "closed", NEW g \in Seq(Cell), NEW f \in Seq(Cell),
         \/ /\ delivered' = Append(delivered, g)
            /\ UNCHANGED <<fragments, rejected, dropped>>
         \/ /\ fragments' = Append(fragments, g)
            /\ UNCHANGED <<delivered, rejected, dropped>>
         \/ /\ rejected' = Append(rejected, g)
            /\ UNCHANGED <<delivered, fragments, dropped>>
         \/ /\ delivered' = Append(delivered, f) /\ g = f \o dropped'
            /\ dropped' \in Seq(Cell) /\ UNCHANGED <<fragments, rejected>>
  PROVE  /\ Ledger \in Seq(Cell) /\ Ledger' = Ledger \o g
         /\ fragments' \in Seq(Seq(Cell)) /\ rejected' \in Seq(Seq(Cell))
         /\ dropped' \in Seq(Cell)
<1> DEFINE S == Seq(Cell)
           a == FlattenSeq(delivered)
<1>1. delivered \in Seq(S) /\ fragments = <<>> /\ rejected = <<>> /\ dropped = <<>>
  BY DEF Typed, Accounts
<1>2. a \in S /\ \A x \in S : FlattenSeq(Append(delivered, x)) = a \o x
  BY <1>1, FlattenAppend
<1>3. FlattenSeq(fragments) = <<>> /\ FlattenSeq(rejected) = <<>>
  BY <1>1, FlattenNone
<1>4. <<>> \in Seq(S) /\ <<>> \in S
  OBVIOUS
<1>5. FlattenSeq(Append(<<>>, g)) = g
  <2>1. FlattenSeq(Append(<<>>, g)) = <<>> \o g
    BY <1>4, FlattenAppend, FlattenNone
  <2>2. <<>> \o g = g
    OBVIOUS
  <2>. QED  BY <2>1, <2>2
<1>6. Append(<<>>, g) \in Seq(S)
  <2> HIDE DEF S
  <2>1. g \in S
    BY DEF S
  <2>. QED  BY <2>1
<1> HIDE DEF a
<1>7. \A x \in S : x \o <<>> = x
  OBVIOUS
<1>8. a \o g \in S /\ a \o f \in S
  BY <1>2
<1>9. /\ ((a \o <<>>) \o <<>>) \o <<>> = a
      /\ (((a \o g) \o <<>>) \o <<>>) \o <<>> = a \o g
      /\ (((a \o <<>>) \o g) \o <<>>) \o <<>> = a \o g
      /\ (((a \o <<>>) \o <<>>) \o g) \o <<>> = a \o g
      /\ ((a \o f) \o <<>>) \o <<>> = a \o f
  BY <1>2, <1>7, <1>8
<1>10. Ledger = a
  BY <1>1, <1>3, <1>9 DEF Ledger, a
<1>11. CASE /\ delivered' = Append(delivered, g)
            /\ UNCHANGED <<fragments, rejected, dropped>>
  <2>1. Ledger' = a \o g
    BY <1>1, <1>2, <1>3, <1>9, <1>11 DEF Ledger
  <2>. QED  BY <1>1, <1>2, <1>4, <1>10, <1>11, <2>1
<1>12. CASE /\ fragments' = Append(fragments, g)
            /\ UNCHANGED <<delivered, rejected, dropped>>
  <2>1. FlattenSeq(fragments') = g /\ FlattenSeq(delivered') = a
        /\ FlattenSeq(rejected') = <<>> /\ dropped' = <<>>
    BY <1>1, <1>3, <1>5, <1>12 DEF a
  <2>2. Ledger' = a \o g
    BY <1>9, <2>1 DEF Ledger
  <2>. QED  BY <1>1, <1>2, <1>4, <1>6, <1>10, <1>12, <2>2
<1>13. CASE /\ rejected' = Append(rejected, g)
            /\ UNCHANGED <<delivered, fragments, dropped>>
  <2>1. FlattenSeq(rejected') = g /\ FlattenSeq(delivered') = a
        /\ FlattenSeq(fragments') = <<>> /\ dropped' = <<>>
    BY <1>1, <1>3, <1>5, <1>13 DEF a
  <2>2. Ledger' = a \o g
    BY <1>9, <2>1 DEF Ledger
  <2>. QED  BY <1>1, <1>2, <1>4, <1>6, <1>10, <1>13, <2>2
<1>14. CASE /\ delivered' = Append(delivered, f) /\ g = f \o dropped'
            /\ dropped' \in Seq(Cell) /\ UNCHANGED <<fragments, rejected>>
  <2>1. FlattenSeq(delivered') = a \o f
    BY <1>2, <1>14
  <2>2. Ledger' = (a \o f) \o dropped'
    BY <1>3, <1>9, <1>14, <2>1 DEF Ledger
  <2>3. (a \o f) \o dropped' = a \o (f \o dropped')
    BY <1>2, <1>14, JoinedThree
  <2>. QED  BY <1>1, <1>2, <1>4, <1>10, <1>14, <2>2, <2>3
<1>. QED  BY <1>11, <1>12, <1>13, <1>14

\* The next piece of the stream is put away, separators in front of it are not.
LEMMA PutAway ==
  ASSUME Typed, InHand, Ledger \in Seq(Cell),
         Solid(Ledger) = Solid(SubSeq(stream, 1, Behind)),
         stream' = stream, NEW i \in Nat, Behind <= i,
         Behind' \in Nat, i <= Behind', Behind' <= Len(stream),
         \A k \in (Behind + 1)..i : stream[k] = Blank,
         Ledger' = Ledger \o SubSeq(stream, i + 1, Behind')
  PROVE  Solid(Ledger') = Solid(SubSeq(stream', 1, Behind'))
<1> DEFINE a == SubSeq(stream, 1, Behind)
           b == SubSeq(stream, Behind + 1, i)
           c == SubSeq(stream, 1, i)
           g == SubSeq(stream, i + 1, Behind')
           d == SubSeq(stream, 1, Behind')
<1>1. stream \in Seq(Cell) /\ Behind \in Nat /\ i <= Len(stream) /\ Len(stream) \in Nat
  BY StreamIs, HandIsPiece
<1>2. a \in Seq(Cell) /\ b \in Seq(Cell) /\ c = a \o b
  BY <1>1, TwoPieces
<1>3. c \in Seq(Cell) /\ g \in Seq(Cell) /\ d = c \o g
  BY <1>1, TwoPieces
<1>4. \A k \in 1..Len(b) : b[k] = Blank
  <2>1. Behind + 1 \in Nat \ {0} /\ Behind + 1 <= i + 1
    BY <1>1
  <2>2. /\ Len(b) = i - (Behind + 1) + 1
        /\ \A k \in 1..(i - (Behind + 1) + 1) : b[k] = stream[(Behind + 1) + k - 1]
    BY <1>1, <2>1, Piece
  <2> HIDE DEF b
  <2>3. TAKE k \in 1..Len(b)
  <2>4. k \in 1..(i - (Behind + 1) + 1) /\ (Behind + 1) + k - 1 \in (Behind + 1)..i
    BY <1>1, <2>2
  <2>. QED  BY <2>2, <2>4
<1> HIDE DEF a, b, c, d, g
<1>5. Solid(b) = <<>>
  BY <1>2, <1>4, SolidBlank
<1>6. Solid(c) = Solid(a)
  <2>1. Solid(c) = Solid(a) \o Solid(b) /\ Solid(a) \in Seq(Cell)
    BY <1>2, SolidJoin
  <2>2. Solid(a) \o <<>> = Solid(a)
    BY <2>1
  <2>. QED  BY <1>5, <2>1, <2>2
<1>7. Solid(d) = Solid(c) \o Solid(g)
  BY <1>3, SolidJoin
<1>8. Solid(Ledger \o g) = Solid(Ledger) \o Solid(g)
  BY <1>3, SolidJoin
<1>9. Solid(Ledger) = Solid(a) /\ Ledger' = Ledger \o g
  BY DEF a, g
<1>10. Solid(Ledger') = Solid(d)
  BY <1>6, <1>7, <1>8, <1>9
<1>. QED  BY <1>10 DEF d

\* After the end of a frame or a separator another begins.
LEMMA StartAfter ==
  ASSUME Typed, Clean, NEW e \in 1..Len(stream), Closes(stream[e])
  PROVE  e = Len(stream) \/ Starts(stream[e + 1])
<1>1. Len(stream) \in Nat
  BY StreamIs
<1>2. e # Len(stream) => e \in 1..(Len(stream) - 1)
  BY <1>1
<1>. QED  BY <1>2 DEF Clean

\* On a clean stream only separators come before the signature of a message.
LEMMA SkippedAreBlank ==
  ASSUME Typed, InHand, Clean, AtStart, pc = "initial", NEW s \in 1..Len(data),
         Kind(stream[Behind + s]) = "sig",
         \A i \in 1..Len(data) : i < s => data[i][1] # "sig"
  PROVE  \A k \in (Behind + 1)..(Behind + s - 1) : stream[k] = Blank
<1>1. /\ Behind \in Nat /\ Behind + Len(data) = pos /\ pos \in Nat /\ pos <= Len(stream)
      /\ Len(stream) \in Nat /\ Len(data) \in Nat
  BY HandIsPiece
<1>2. DOMAIN stream = 1..Len(stream)
  BY StreamIs
<1>3. s \in Nat /\ s >= 1 /\ s <= Len(data) /\ Behind + s \in 1..Len(stream)
  BY <1>1
<1>4. \A j \in 1..Len(stream) : Kind(stream[j]) \in {"sig", "text", "nl"}
  BY <1>2, <1>3 DEF Clean
<1>5. Starts(stream[Behind + 1])
  <2>1. data # <<>>
    BY <1>1, <1>3
  <2>2. Behind # Len(stream)
    BY <1>1, <1>3
  <2>. QED  BY <2>1, <2>2 DEF AtStart, Exhausted
<1>6. ASSUME NEW j \in 1..(s - 1), Starts(stream[Behind + j])
      PROVE  stream[Behind + j] = Blank /\ Starts(stream[(Behind + j) + 1])
  <2>1. j \in 1..Len(data) /\ j < s /\ Behind + j \in 1..Len(stream) /\ Behind + j # Len(stream)
    BY <1>1, <1>3
  <2>2. data[j] = stream[Behind + j]
    BY <2>1 DEF InHand
  <2>3. stream[Behind + j] = Blank
    <3>1. stream[Behind + j][1] # "sig"
      BY <2>1, <2>2
    <3>2. Kind(stream[Behind + j]) # "head"
      BY <1>4, <2>1
    <3>. QED  BY <1>6, <3>1, <3>2 DEF Starts, Begins, Kind
  <2>4. Closes(stream[Behind + j])
    BY <2>3 DEF Closes, Kind, Blank
  <2>. QED  BY <2>1, <2>3, <2>4, StartAfter
<1> DEFINE n == s - 1
           B == {j \in 0..n : Starts(stream[Behind + j + 1])}
<1>7. n \in Nat
  BY <1>3
<1>8. 0 \in B
  <2>1. Behind + 0 + 1 = Behind + 1 /\ 0 \in 0..n
    BY <1>1, <1>7
  <2>. QED  BY <1>5, <2>1
<1>9. ASSUME NEW j \in 1..n, j - 1 \in B PROVE j \in B
  <2>1. Behind + (j - 1) + 1 = Behind + j /\ (Behind + j) + 1 = Behind + j + 1 /\ j \in 0..n
    BY <1>1, <1>7
  <2>2. Starts(stream[Behind + (j - 1) + 1])
    BY <1>9
  <2>. QED  BY <1>6, <2>1, <2>2
<1> HIDE DEF B
<1>10. 0..n \subseteq B
  BY <1>7, <1>8, <1>9, UpTo
<1>11. ASSUME NEW k \in (Behind + 1)..(Behind + s - 1) PROVE stream[k] = Blank
  <2>1. k - Behind \in 1..n /\ (k - Behind) - 1 \in 0..n /\ Behind + (k - Behind) = k
        /\ Behind + ((k - Behind) - 1) + 1 = k
    BY <1>1, <1>3
  <2>2. Starts(stream[Behind + ((k - Behind) - 1) + 1])
    BY <1>10, <2>1 DEF B
  <2>3. Starts(stream[Behind + (k - Behind)]) /\ k - Behind \in 1..(s - 1)
    BY <2>1, <2>2
  <2>4. stream[Behind + (k - Behind)] = Blank
    BY <1>6, <2>3
  <2>. QED  BY <2>1, <2>4
<1>. QED  BY <1>11

\* The steps that put nothing away.
LEMMA NothingMoved ==
  ASSUME Accounts, UNCHANGED <<stream, delivered, fragments, rejected, dropped, gaveUp>>,
         Behind' = Behind, pc' # "closed" => pc # "closed", Clean => AtStart'
  PROVE  Accounts'
<1>1. Clean' = Clean
  BY DEF Clean
<1>2. Ledger' = Ledger
  BY DEF Ledger
<1>3. SubSeq(stream', 1, Behind') = SubSeq(stream, 1, Behind)
  OBVIOUS
<1>4. Clean' /\ ~gaveUp' => Solid(Ledger') = Solid(SubSeq(stream', 1, Behind'))
  <2>1. Clean /\ ~gaveUp => Solid(Ledger) = Solid(SubSeq(stream, 1, Behind))
    BY DEF Accounts
  <2>. QED  BY <1>1, <1>2, <1>3, <2>1
<1>5. /\ fragments' \in Seq(Seq(Cell)) /\ rejected' \in Seq(Seq(Cell)) /\ dropped' \in Seq(Cell)
      /\ pc' # "closed" => fragments' = <<>> /\ rejected' = <<>> /\ dropped' = <<>>
      /\ LostWithRefusedFrame'
  BY DEF Accounts, LostWithRefusedFrame
<1>6. Clean' => AtStart'
  BY <1>1
<1>. QED  BY <1>4, <1>5, <1>6 DEF Accounts

\* The steps that put a piece away: on a clean stream, the next one, but for separators.
LEMMA PieceMoved ==
  ASSUME Typed, InHand, Accounts, pc # "closed", NEW g \in Seq(Cell), NEW f \in Seq(Cell),
         \/ /\ delivered' = Append(delivered, g)
            /\ UNCHANGED <<fragments, rejected, dropped>>
         \/ /\ fragments' = Append(fragments, g)
            /\ UNCHANGED <<delivered, rejected, dropped>> /\ pc' = "closed"
         \/ /\ rejected' = Append(rejected, g)
            /\ UNCHANGED <<delivered, fragments, dropped>> /\ pc' = "closed"
         \/ /\ delivered' = Append(delivered, f) /\ g = f \o dropped'
            /\ dropped' \in Seq(Cell) /\ UNCHANGED <<fragments, rejected>>
            /\ pc' = "closed" /\ LostWithRefusedFrame',
         UNCHANGED <<stream, gaveUp>>, NEW i \in Nat, Behind <= i,
         Behind' \in Nat, i <= Behind', Behind' <= Len(stream),
         Clean => /\ g = SubSeq(stream, i + 1, Behind')
                  /\ \A k \in (Behind + 1)..i : stream[k] = Blank
                  /\ AtStart'
  PROVE  Accounts'
<1>1. Clean' = Clean
  BY DEF Clean
<1>2. /\ Ledger \in Seq(Cell) /\ Ledger' = Ledger \o g
      /\ fragments' \in Seq(Seq(Cell)) /\ rejected' \in Seq(Seq(Cell))
      /\ dropped' \in Seq(Cell)
  BY LedgerGrows
<1>3. /\ pc' # "closed" => fragments' = <<>> /\ rejected' = <<>> /\ dropped' = <<>>
      /\ LostWithRefusedFrame'
  BY DEF Accounts, LostWithRefusedFrame
<1>4. ASSUME Clean, ~gaveUp PROVE Solid(Ledger') = Solid(SubSeq(stream', 1, Behind'))
  <2>1. Solid(Ledger) = Solid(SubSeq(stream, 1, Behind))
    BY <1>4 DEF Accounts
  <2>2. Ledger' = Ledger \o SubSeq(stream, i + 1, Behind')
    BY <1>2, <1>4
  <2>3. \A k \in (Behind + 1)..i : stream[k] = Blank
    BY <1>4
  <2>. QED  BY <1>2, <2>1, <2>2, <2>3, PutAway
<1>. QED  BY <1>1, <1>2, <1>3, <1>4 DEF Accounts

LEMMA ArriveAccounts == StreamInv /\ Accounts /\ Arrive => Accounts'
<1> SUFFICES ASSUME StreamInv, Accounts, Arrive PROVE Accounts'
  OBVIOUS
<1>1. /\ ~hungUp /\ Behind' = Behind
      /\ UNCHANGED <<stream, hungUp, pos, pc, data, delivered, fragments, rejected, dropped, gaveUp>>
  BY DEF Arrive, Behind, Outputs
<1>2. Clean => AtStart'
  BY <1>1 DEF Accounts, AtStart, Exhausted
<1>. QED  BY <1>1, <1>2, NothingMoved

LEMMA HangUpAccounts == StreamInv /\ Accounts /\ HangUp => Accounts'
<1> SUFFICES ASSUME StreamInv, Accounts, HangUp PROVE Accounts'
  OBVIOUS
<1>1. /\ ~hungUp /\ Behind' = Behind
      /\ UNCHANGED <<stream, arrived, pos, pc, data, delivered, fragments, rejected, dropped, gaveUp>>
  BY DEF HangUp, Behind, Outputs
<1>2. Clean => AtStart'
  BY <1>1 DEF Accounts, AtStart, Exhausted
<1>. QED  BY <1>1, <1>2, NothingMoved

LEMMA ReadAccounts == StreamInv /\ Accounts /\ Read => Accounts'
<1> SUFFICES ASSUME StreamInv, Accounts, Read PROVE Accounts'
  OBVIOUS
<1>1. Typed /\ InHand
  BY DEF StreamInv
<1> DEFINE room == MessageSize - Len(data)
           n == IF room < arrived - pos THEN room ELSE arrived - pos
           more == SubSeq(Buffered, 1, n)
<1>2. /\ arrived \in Nat /\ pos \in Nat /\ pos < arrived
      /\ data \in Seq(Cell) /\ Len(data) \in Nat /\ Len(data) <= MessageSize
      /\ MessageSize = 6
  BY <1>1, StreamIs DEF InHand, Read, MessageSize, Segments
<1>3. n \in Nat /\ n <= arrived - pos
  BY <1>2
<1>4. Buffered \in Seq(Cell) /\ Len(Buffered) = arrived - pos
  BY <1>1, BufferedIs
<1>5. data' = data \o more /\ pos' = pos + n
      /\ UNCHANGED <<stream, arrived, hungUp, pc, delivered, fragments, rejected, dropped, gaveUp>>
  BY DEF Read, Environment, Outputs
<1> HIDE DEF n
<1>6. more \in Seq(Cell) /\ Len(more) = n
  <2>1. n <= Len(Buffered) /\ 1 <= n + 1
    BY <1>3, <1>4
  <2>2. SubSeq(Buffered, 1, n) \in Seq(Cell) /\ Len(SubSeq(Buffered, 1, n)) = n - 1 + 1
    BY <1>3, <1>4, <2>1, Piece
  <2>. QED  BY <1>3, <2>2
<1> HIDE DEF more
<1>7. Len(data') = Len(data) + n
  BY <1>2, <1>5, <1>6, Joined
<1>8. Behind' = Behind
  <2>1. (pos + n) - (Len(data) + n) = pos - Len(data)
    BY <1>2, <1>3
  <2>. QED  BY <1>5, <1>7, <2>1 DEF Behind
<1>9. ~Exhausted
  BY <1>2 DEF Exhausted
<1>10. Clean => AtStart'
  BY <1>5, <1>8, <1>9 DEF Accounts, AtStart
<1>. QED  BY <1>5, <1>8, <1>10, NothingMoved

\* A connection that ends by a timeout or a reset owes nothing any more.
LEMMA GivenUp ==
  ASSUME Accounts, gaveUp' = TRUE, pc' = "closed", dropped' = <<>>,
         fragments' \in Seq(Seq(Cell)), rejected' \in Seq(Seq(Cell))
  PROVE  Accounts'
BY DEF Accounts, AtStart, LostWithRefusedFrame

LEMMA GivenUpAccounts ==
  StreamInv /\ Accounts /\ (Reset \/ QuietInitial \/ QuietLine) => Accounts'
<1> SUFFICES ASSUME StreamInv, Accounts, Reset \/ QuietInitial \/ QuietLine PROVE Accounts'
  OBVIOUS
<1>1. gaveUp' = TRUE /\ pc' = "closed" /\ fragments' = fragments /\ dropped' = <<>>
  BY DEF Reset, QuietInitial, QuietLine, Outputs, Accounts
<1>2. rejected' \in Seq(Seq(Cell))
  <2>1. rejected \in Seq(Seq(Cell)) /\ data \in Seq(Cell)
    BY DEF Accounts, StreamInv, Typed
  <2>2. Append(rejected, data) \in Seq(Seq(Cell))
    <3> DEFINE S == Seq(Cell)
    <3>1. rejected \in Seq(S) /\ data \in S
      BY <2>1
    <3> HIDE DEF S
    <3>2. Append(rejected, data) \in Seq(S)
      BY <3>1
    <3>. QED  BY <3>2 DEF S
  <2>3. rejected' \in {rejected, Append(rejected, data)}
    BY DEF Reset, QuietInitial, QuietLine, Outputs
  <2>. QED  BY <2>1, <2>2, <2>3
<1>3. fragments' \in Seq(Seq(Cell))
  BY <1>1 DEF Accounts
<1>. QED  BY <1>1, <1>2, <1>3, GivenUp

\* All the bytes in hand are put away as they are.
LEMMA HandPutAway ==
  ASSUME Typed, InHand, Accounts, pc # "closed", pc' = "closed", data' = <<>>,
         \/ /\ fragments' = Append(fragments, data)
            /\ UNCHANGED <<delivered, rejected, dropped>>
         \/ /\ rejected' = Append(rejected, data)
            /\ UNCHANGED <<delivered, fragments, dropped>>,
         UNCHANGED <<stream, pos, gaveUp>>
  PROVE  Accounts'
<1>1. /\ Behind \in Nat /\ Behind + Len(data) = pos /\ pos \in Nat /\ pos <= Len(stream)
      /\ Len(stream) \in Nat /\ Len(data) \in Nat
      /\ data = SubSeq(stream, Behind + 1, pos)
  BY HandIsPiece
<1>2. Behind' = pos
  BY <1>1 DEF Behind
<1>3. data \in Seq(Cell)
  BY DEF Typed
<1>4. Behind <= Behind /\ Behind <= Behind' /\ Behind' \in Nat /\ Behind' <= Len(stream)
  BY <1>1, <1>2
<1>5. data = SubSeq(stream, Behind + 1, Behind')
  BY <1>1, <1>2
<1>6. \A k \in (Behind + 1)..Behind : stream[k] = Blank
  BY <1>1
<1>7. AtStart'
  BY DEF AtStart
<1>. QED  BY <1>1, <1>3, <1>4, <1>5, <1>6, <1>7, PieceMoved

LEMMA SyncFailedAccounts == StreamInv /\ Accounts /\ SyncFailed => Accounts'
<1> SUFFICES ASSUME StreamInv, Accounts, SyncFailed PROVE Accounts'
  OBVIOUS
<1>1. /\ pc # "closed" /\ pc' = "closed" /\ data' = <<>>
      /\ rejected' = Append(rejected, data)
      /\ UNCHANGED <<stream, pos, gaveUp, delivered, fragments, dropped>>
  BY DEF SyncFailed, Environment
<1>. QED  BY <1>1, HandPutAway DEF StreamInv

LEMMA LineTooLongAccounts == StreamInv /\ Accounts /\ LineTooLong => Accounts'
<1> SUFFICES ASSUME StreamInv, Accounts, LineTooLong PROVE Accounts'
  OBVIOUS
<1>1. /\ pc # "closed" /\ pc' = "closed" /\ data' = <<>>
      /\ rejected' = Append(rejected, data)
      /\ UNCHANGED <<stream, pos, gaveUp, delivered, fragments, dropped>>
  BY DEF LineTooLong, Environment
<1>. QED  BY <1>1, HandPutAway DEF StreamInv

LEMMA EndOfStreamAccounts == StreamInv /\ Accounts /\ EndOfStream => Accounts'
<1> SUFFICES ASSUME StreamInv, Accounts, EndOfStream PROVE Accounts'
  OBVIOUS
<1>1. /\ pc # "closed" /\ pc' = "closed" /\ data' = <<>>
      /\ fragments' = IF data = <<>> THEN fragments ELSE Append(fragments, data)
      /\ UNCHANGED <<stream, pos, gaveUp, delivered, rejected, dropped>>
  BY DEF EndOfStream, Environment
<1>2. CASE data = <<>>
  <2>1. Behind' = Behind
    BY <1>1, <1>2 DEF Behind
  <2>2. AtStart'
    BY <1>1 DEF AtStart
  <2>. QED  BY <1>1, <1>2, <2>1, <2>2, NothingMoved
<1>3. CASE data # <<>>
  BY <1>1, <1>3, HandPutAway DEF StreamInv
<1>. QED  BY <1>2, <1>3

\* On a clean stream only separators come before the signature of a message.
LEMMA OnlyBlanks ==
  ASSUME StreamInv, Accounts, Clean, pc = "initial", Where(data, "sig") # {},
         NEW s, s = Least(Where(data, "sig"))
  PROVE  \A k \in (Behind + 1)..(Behind + s - 1) : stream[k] = Blank
<1>1. Typed /\ InHand /\ AtStart
  BY DEF StreamInv, Accounts
<1>2. /\ s \in 1..Len(data) /\ Kind(stream[Behind + s]) = "sig"
  BY <1>1, Signature
<1>3. \A i \in 1..Len(data) : i < s => data[i][1] # "sig"
  <2>1. data \in Seq(Cell)
    BY <1>1 DEF Typed
  <2>. QED  BY <2>1, FirstOfKind
<1>. QED  BY <1>1, <1>2, <1>3, SkippedAreBlank

LEMMA SyncV8OpenAccounts == StreamInv /\ Accounts /\ SyncV8Open => Accounts'
<1> SUFFICES ASSUME StreamInv, Accounts, SyncV8Open PROVE Accounts'
  OBVIOUS
<1>1. Typed /\ InHand
  BY DEF StreamInv
<1> DEFINE s == Least(Where(data, "sig"))
           v8 == From(data, s)
<1>2. /\ pc = "initial" /\ Where(data, "sig") # {} /\ data' = v8 /\ pc' = "line"
      /\ UNCHANGED <<stream, arrived, hungUp, pos, delivered, fragments, rejected, dropped, gaveUp>>
  BY DEF SyncV8Open, Environment, Outputs
<1>3. s \in 1..Len(data) /\ Behind \in Nat
  BY <1>1, <1>2, Signature
<1>4. Clean => \A k \in (Behind + 1)..(Behind + s - 1) : stream[k] = Blank
  BY <1>2, OnlyBlanks
<1> HIDE DEF s
<1>5. Len(data) \in Nat /\ pos \in Nat /\ Len(data) <= pos /\ Behind = pos - Len(data)
      /\ s \in Nat /\ s >= 1 /\ s <= Len(data) /\ pos <= Len(stream) /\ Len(stream) \in Nat
  BY <1>1, <1>3, StreamIs DEF InHand, Behind
<1>6. Len(v8) = Len(data) - s + 1
  BY <1>1, <1>5, RestOfData
<1> HIDE DEF v8
<1>7. Behind' = Behind + s - 1
  BY <1>2, <1>5, <1>6 DEF Behind
<1>8. Behind' \in Nat /\ Behind <= Behind' /\ Behind' <= Len(stream)
  BY <1>3, <1>5, <1>7
<1>9. Ledger' = Ledger
  BY <1>2 DEF Ledger
<1>10. ASSUME Clean, ~gaveUp PROVE Solid(Ledger') = Solid(SubSeq(stream', 1, Behind'))
  <2>1. fragments = <<>> /\ rejected = <<>> /\ dropped = <<>> /\ delivered \in Seq(Seq(Cell))
        /\ Solid(Ledger) = Solid(SubSeq(stream, 1, Behind))
    BY <1>1, <1>2, <1>10 DEF Accounts, Typed
  <2>2. Ledger \in Seq(Cell)
    BY <2>1, LedgerIs
  <2>3. SubSeq(stream, Behind' + 1, Behind') = <<>>
    <3>1. \A j \in Nat : j <= Len(stream) => SubSeq(stream, j + 1, j) = <<>>
      BY <1>1, StreamIs, NoPiece
    <3>. QED  BY <1>8, <3>1
  <2>4. Ledger' = Ledger \o SubSeq(stream, Behind' + 1, Behind')
    <3>1. Ledger \o <<>> = Ledger
      BY <2>2
    <3>. QED  BY <1>9, <2>3, <3>1
  <2>5. \A k \in (Behind + 1)..Behind' : stream[k] = Blank
    BY <1>4, <1>7, <1>10
  <2>6. stream' = stream
    BY <1>2
  <2> DEFINE i == Behind'
  <2>7. i \in Nat /\ Behind <= i /\ i <= Behind'
    BY <1>8
  <2>8. Ledger' = Ledger \o SubSeq(stream, i + 1, Behind') /\ \A k \in (Behind + 1)..i : stream[k] = Blank
    BY <2>4, <2>5
  <2> HIDE DEF i
  <2>. QED  BY <1>1, <1>8, <2>1, <2>2, <2>6, <2>7, <2>8, PutAway
<1>11. Clean' = Clean
  BY <1>2 DEF Clean
<1>12. AtStart'
  BY <1>2 DEF AtStart
<1>13. /\ fragments' \in Seq(Seq(Cell)) /\ rejected' \in Seq(Seq(Cell)) /\ dropped' \in Seq(Cell)
       /\ fragments' = <<>> /\ rejected' = <<>> /\ dropped' = <<>> /\ LostWithRefusedFrame'
  BY <1>2 DEF Accounts, LostWithRefusedFrame
<1>. QED  BY <1>2, <1>10, <1>11, <1>12, <1>13 DEF Accounts

LEMMA SyncV8Accounts == StreamInv /\ Accounts /\ SyncV8 => Accounts'
<1> SUFFICES ASSUME StreamInv, Accounts, SyncV8 PROVE Accounts'
  OBVIOUS
<1>1. Typed /\ InHand
  BY DEF StreamInv
<1> DEFINE s == Least(Where(data, "sig"))
           v8 == From(data, s)
           n == Least(Where(v8, "nl"))
           f == SubSeq(v8, 1, n)
           rest == From(v8, n + 1)
<1>2. /\ pc = "initial" /\ Where(data, "sig") # {} /\ Where(v8, "nl") # {}
      /\ delivered' = Append(delivered, f)
      /\ UNCHANGED <<stream, arrived, hungUp, pos, fragments, rejected, gaveUp>>
  BY DEF SyncV8, HandOn, Environment
<1>21. \/ Number(v8) \notin Refused /\ data' = rest /\ dropped' = <<>>
       \/ /\ Number(v8) \in Refused /\ data' = <<>> /\ dropped' = rest
          /\ pc' = "closed"
  BY DEF SyncV8, Verdict
<1>3. s \in 1..Len(data) /\ Behind \in Nat /\ Kind(stream[Behind + s]) = "sig"
  BY <1>1, <1>2, Signature
<1>4. Clean => \A k \in (Behind + 1)..(Behind + s - 1) : stream[k] = Blank
  BY <1>2, OnlyBlanks
<1> HIDE DEF s
<1>5. /\ Len(data) \in Nat /\ pos \in Nat /\ Len(data) <= pos /\ Behind = pos - Len(data)
      /\ s \in Nat /\ s >= 1 /\ s <= Len(data) /\ pos <= Len(stream) /\ Len(stream) \in Nat
  BY <1>1, <1>3, StreamIs DEF InHand, Behind
<1>6. /\ v8 \in Seq(Cell) /\ Len(v8) = Len(data) - s + 1
      /\ \A k \in 1..Len(v8) : v8[k] = stream[Behind + s - 1 + k]
  <2>1. s \in Nat \ {0} /\ s <= Len(data) + 1
    BY <1>5
  <2> HIDE DEF v8
  <2>2. v8 = From(data, s)
    BY DEF v8
  <2>. QED  BY <1>1, <2>1, <2>2, RestOfData
<1> HIDE DEF v8
<1>7. n \in 1..Len(v8) /\ v8[n][1] = "nl"
  BY <1>2, <1>6, FirstOfKind
<1> HIDE DEF n
<1>8. n \in Nat /\ n >= 1 /\ n <= Len(v8) /\ Len(v8) \in Nat
  BY <1>5, <1>6, <1>7
<1>9. f \in Seq(Cell) /\ Len(f) = n /\ \A k \in 1..n : f[k] = v8[k]
  <2>1. /\ SubSeq(v8, 1, n) \in Seq(Cell) /\ Len(SubSeq(v8, 1, n)) = n - 1 + 1
        /\ \A k \in 1..(n - 1 + 1) : SubSeq(v8, 1, n)[k] = v8[1 + k - 1]
    BY <1>6, <1>8, Piece
  <2>. QED  BY <1>8, <2>1
<1> HIDE DEF f
<1>10. rest \in Seq(Cell) /\ Len(rest) = Len(v8) - n
  <2>1. /\ SubSeq(v8, n + 1, Len(v8)) \in Seq(Cell)
        /\ Len(SubSeq(v8, n + 1, Len(v8))) = Len(v8) - (n + 1) + 1
    BY <1>6, <1>8, Piece
  <2>. QED  BY <1>8, <2>1 DEF From
<1>23. v8 = f \o rest
  <2>1. /\ SubSeq(v8, n + 1, Len(v8)) \in Seq(Cell)
        /\ Len(SubSeq(v8, n + 1, Len(v8))) = Len(v8) - (n + 1) + 1
        /\ \A k \in 1..(Len(v8) - (n + 1) + 1) :
             SubSeq(v8, n + 1, Len(v8))[k] = v8[(n + 1) + k - 1]
    BY <1>6, <1>8, Piece
  <2>2. \A k \in 1..Len(rest) : rest[k] = v8[n + k]
    BY <1>8, <2>1 DEF From
  <2>3. /\ f \o rest \in Seq(Cell) /\ Len(f \o rest) = n + Len(rest)
        /\ \A k \in 1..n : (f \o rest)[k] = f[k]
        /\ \A k \in 1..Len(rest) : (f \o rest)[n + k] = rest[k]
    BY <1>9, <1>10, Joined
  <2> HIDE DEF rest
  <2> DEFINE w == f \o rest
  <2>4. w \in Seq(Cell) /\ Len(w) = Len(v8)
    BY <1>8, <1>10, <2>3
  <2>5. ASSUME NEW k \in 1..Len(v8) PROVE w[k] = v8[k]
    <3>1. CASE k <= n
      BY <1>8, <1>9, <2>3, <3>1
    <3>2. CASE k > n
      <4>1. k - n \in 1..Len(rest) /\ n + (k - n) = k
        BY <1>8, <1>10, <3>2
      <4>2. w[n + (k - n)] = rest[k - n] /\ rest[k - n] = v8[n + (k - n)]
        BY <2>2, <2>3, <4>1
      <4>. QED  BY <4>1, <4>2
    <3>3. k <= n \/ k > n
      BY <1>8
    <3> HIDE DEF w
    <3>. QED  BY <3>1, <3>2, <3>3
  <2> HIDE DEF w
  <2>6. w = v8
    BY <1>6, <2>4, <2>5, SameCells
  <2>. QED  BY <2>6 DEF w
<1> HIDE DEF rest
<1> DEFINE i == Behind + s - 1
<1>11. i \in Nat /\ Behind <= i
  BY <1>3, <1>5
<1>12. pos - Len(rest) = i + n
  <2>2. ASSUME NEW v \in Nat, NEW r, v = Len(data) - s + 1, r = v - n
        PROVE  pos - r = Behind + s - 1 + n
    BY <1>5, <1>8, <2>2
  <2>3. pos - Len(rest) = Behind + s - 1 + n
    BY <1>6, <1>8, <1>10, <2>2
  <2>. QED  BY <2>3 DEF i
<1>13. i + n <= Len(stream) /\ i + n \in Nat /\ i <= i + n /\ i + n >= 1
  <2>1. i + Len(v8) = pos
    <3>1. \A x, y \in Nat : x <= pos /\ y >= 1 => (pos - x) + y - 1 + (x - y + 1) = pos
      BY <1>5
    <3>. QED  BY <1>5, <1>6, <3>1
  <2> HIDE DEF i
  <2>. QED  BY <1>5, <1>8, <1>11, <2>1
<1> HIDE DEF i
<1>14. \A k \in 1..n : f[k] = stream[i + k]
  <2> SUFFICES ASSUME NEW k \in 1..n PROVE f[k] = stream[i + k]
    OBVIOUS
  <2>1. k \in 1..Len(v8)
    BY <1>8
  <2>2. v8[k] = stream[Behind + s - 1 + k]
    BY <1>6, <2>1
  <2>. QED  BY <1>9, <2>2 DEF i
<1>15. f = SubSeq(stream, i + 1, i + n)
  BY <1>1, <1>9, <1>11, <1>8, <1>13, <1>14, PieceOfStream
<1>22. data' = rest => Behind' = i + n
  BY <1>2, <1>12 DEF Behind
<1>16. Clean /\ data' = rest => AtStart'
  <2> SUFFICES ASSUME Clean, data' = rest PROVE AtStart'
    OBVIOUS
  <2>1. i + n \in 1..Len(stream)
    BY <1>5, <1>13
  <2>2. n \in 1..n
    BY <1>8
  <2>3. Kind(stream[i + n]) = "nl"
    BY <1>7, <1>9, <1>14, <2>2 DEF Kind
  <2>4. i + n = Len(stream) \/ Starts(stream[(i + n) + 1])
    BY <1>1, <2>1, <2>3, StartAfter DEF Closes
  <2>. QED  BY <1>2, <1>22, <2>4 DEF AtStart
<1>17. Clean => \A k \in (Behind + 1)..i : stream[k] = Blank
  BY <1>4 DEF i
<1>18. pc # "closed" /\ UNCHANGED <<stream, gaveUp, fragments, rejected>>
       /\ delivered' = Append(delivered, f) /\ dropped = <<>>
  BY <1>2 DEF Accounts
<1>19. CASE data' = rest /\ dropped' = <<>>
  <2>1. Behind' \in Nat /\ i <= Behind' /\ Behind' <= Len(stream)
        /\ f = SubSeq(stream, i + 1, Behind')
    BY <1>13, <1>15, <1>19, <1>22
  <2>2. UNCHANGED dropped
    BY <1>18, <1>19
  <2>. QED  BY <1>1, <1>9, <1>11, <1>16, <1>17, <1>18, <1>19, <2>1, <2>2, PieceMoved
<1>20. CASE Number(v8) \in Refused /\ data' = <<>> /\ dropped' = rest /\ pc' = "closed"
  <2>1. Behind' = pos
    <3>1. Len(<<>>) = 0 /\ pos - 0 = pos
      BY <1>5
    <3>. QED  BY <1>2, <1>20, <3>1 DEF Behind
  <2>2. i + Len(v8) = pos
    <3>1. \A x, y \in Nat : x <= pos /\ y >= 1 => (pos - x) + y - 1 + (x - y + 1) = pos
      BY <1>5
    <3>. QED  BY <1>5, <1>6, <3>1 DEF i
  <2>3. v8 = f \o rest
    BY <1>23
  <2>4. v8 = SubSeq(stream, i + 1, i + Len(v8))
    <3>1. \A k \in 1..Len(v8) : v8[k] = stream[i + k]
      BY <1>6 DEF i
    <3>2. Len(v8) \in Nat /\ i + Len(v8) <= Len(stream)
      BY <1>5, <1>8, <2>2
    <3>. QED  BY <1>1, <1>6, <1>11, <3>1, <3>2, PieceOfStream
  <2>5. LostWithRefusedFrame'
    <3>1. delivered \in Seq(Seq(Cell)) /\ f \in Seq(Cell)
      BY <1>1, <1>9 DEF Typed
    <3> DEFINE S == Seq(Cell)
    <3>2. delivered' # <<>> /\ delivered'[Len(delivered')] = f
      <4>1. delivered \in Seq(S) /\ f \in S
        BY <3>1
      <4> HIDE DEF S
      <4>. QED  BY <1>18, <4>1
    <3>3. f # <<>> /\ f[1] = v8[1] /\ Head(f) = f[1]
      BY <1>8, <1>9
    <3>4. StartsV8(f)
      <4>1. 1 \in 1..Len(v8) /\ Behind + s - 1 + 1 = Behind + s
        BY <1>5, <1>8
      <4>2. v8[1] = stream[Behind + s]
        BY <1>6, <4>1
      <4>. QED  BY <1>3, <3>3, <4>2 DEF StartsV8
    <3>5. Number(f) \in Refused
      BY <1>20, <3>3 DEF Number
    <3>6. Len(rest) < MessageSize
      <4>1. Len(data) <= 6
        BY <1>1, <1>2 DEF InHand, MessageSize, Segments
      <4>2. Len(rest) = Len(data) - s + 1 - n
        BY <1>5, <1>6, <1>8, <1>10
      <4>. QED  BY <1>5, <1>8, <4>1, <4>2 DEF MessageSize, Segments
    <3>. QED  BY <1>20, <3>2, <3>4, <3>5, <3>6 DEF LostWithRefusedFrame
  <2>6. AtStart'
    BY <1>20 DEF AtStart
  <2>7. v8 = SubSeq(stream, i + 1, Behind') /\ Behind' \in Nat /\ i <= Behind'
        /\ Behind' <= Len(stream)
    <3>1. v8 = SubSeq(stream, i + 1, Behind')
      BY <2>1, <2>2, <2>4
    <3> HIDE DEF i
    <3>. QED  BY <1>5, <1>8, <1>11, <2>1, <2>2, <3>1
  <2>8. v8 = f \o dropped' /\ dropped' \in Seq(Cell)
    BY <1>10, <1>20, <2>3
  <2>. QED  BY <1>1, <1>6, <1>9, <1>11, <1>17, <1>18, <1>20, <2>5, <2>6, <2>7, <2>8,
               PieceMoved
<1>. QED  BY <1>19, <1>20, <1>21

\* On a clean stream a message without a signature that holds a v7 frame is that
\* frame, in place.
LEMMA InPlaceOnClean ==
  ASSUME StreamInv, Accounts, Clean, pc = "initial", Where(data, "sig") = {},
         Ready(data), Offsets(data) # {}
  PROVE  /\ Least(Offsets(data)) = 0
         /\ pos \in 1..Len(stream) /\ Closes(stream[pos])
<1>1. Typed /\ InHand /\ AtStart
  BY DEF StreamInv, Accounts
<1>2. Len(data) = 6 /\ Behind \in Nat /\ Behind + 6 = pos
  BY <1>1, SixInHand
<1>3. /\ data \in Seq(Cell) /\ DOMAIN stream = 1..Len(stream) /\ Len(stream) \in Nat
      /\ pos <= Len(stream) /\ \A i \in 1..Len(data) : data[i] = stream[Behind + i]
  BY <1>1, StreamIs DEF InHand
<1>4. Offsets(data) \in SUBSET Nat
  BY <1>2 DEF Offsets
<1>5. PICK o \in 0..6 : Aligned(data, o)
  BY <1>2 DEF Offsets
<1>6. o + 1 \in 1..6 /\ data[o + 1][1] = "head"
  <2>1. o + 6 - 1 <= 6
    BY <1>2, <1>5 DEF Aligned, MessageSize, Segments
  <2>2. o + 2 * (1 - 1) + 1 = o + 1 /\ 1 \in 1..3
    OBVIOUS
  <2>3. data[o + 2 * (1 - 1) + 1][1] = "head"
    BY <1>5, <2>2 DEF Aligned, Segments
  <2>. QED  BY <2>1, <2>2, <2>3
<1>7. \A j \in 1..Len(stream) : Kind(stream[j]) \in {"head", "body"}
  <2>1. o + 1 \in 1..Len(data)
    BY <1>2, <1>6
  <2>2. Kind(stream[Behind + (o + 1)]) = "head"
    BY <1>3, <1>6, <2>1 DEF Kind
  <2>3. Behind + (o + 1) \in 1..Len(stream)
    BY <1>2, <1>3, <1>6
  <2>. QED  BY <1>3, <2>2, <2>3 DEF Clean
<1> DEFINE q == Behind + 1
<1>8. /\ q \in 1..Len(stream) /\ q + 1 <= Len(stream) /\ q + 2 <= Len(stream)
      /\ q + 3 <= Len(stream) /\ q + 4 <= Len(stream) /\ q + 5 <= Len(stream)
      /\ q + 5 = pos /\ Behind + 2 = q + 1 /\ Behind + 3 = q + 2 /\ Behind + 4 = q + 3
      /\ Behind + 5 = q + 4 /\ Behind + 6 = q + 5 /\ Behind # Len(stream)
  <2>1. Behind \in Nat /\ Len(stream) \in Nat /\ Behind + 6 <= Len(stream)
    BY <1>2, <1>3
  <2>2. /\ q \in 1..Len(stream) /\ q + 1 <= Len(stream) /\ q + 2 <= Len(stream)
        /\ q + 3 <= Len(stream) /\ q + 4 <= Len(stream) /\ q + 5 <= Len(stream)
    BY <2>1
  <2>3. /\ Behind + 6 = q + 5 /\ Behind + 2 = q + 1 /\ Behind + 3 = q + 2
        /\ Behind + 4 = q + 3 /\ Behind + 5 = q + 4 /\ Behind # Len(stream)
    BY <2>1
  <2> HIDE DEF q
  <2>. QED  BY <1>2, <2>2, <2>3
<1>9. Starts(stream[q])
  <2>1. data # <<>>
    BY <1>2
  <2>. QED  BY <1>1, <1>8, <2>1 DEF AtStart, Exhausted
<1>10. data[1] = stream[q]
  BY <1>2, <1>3
<1> HIDE DEF q
<1>11. Kind(stream[q]) = "head" /\ stream[q][2] = 1
  <2>1. Kind(stream[q]) \in {"head", "body"}
    BY <1>7, <1>8
  <2>. QED  BY <1>9, <2>1 DEF Starts, Begins, Blank, Kind
<1>12. /\ stream[q + 2] = <<"head", 2, stream[q][3]>>
       /\ stream[q + 4] = <<"head", 3, stream[q][3]>>
       /\ stream[q + 5] = <<"body", 3, stream[q][3]>>
  BY <1>1, <1>8, <1>11, SixInPlace
<1>13. /\ data[3] = stream[q + 2] /\ data[5] = stream[q + 4]
  <2>1. 3 \in 1..Len(data) /\ 5 \in 1..Len(data)
    BY <1>2
  <2>. QED  BY <1>3, <1>8, <2>1
<1>14. Aligned(data, 0)
  <2>1. 0 + MessageSize - 1 <= Len(data)
    BY <1>2 DEF MessageSize, Segments
  <2>2. ASSUME NEW k \in 1..Segments
        PROVE  data[0 + 2 * (k - 1) + 1][1] = "head" /\ data[0 + 2 * (k - 1) + 1][2] = k
    <3>1. k = 1 \/ k = 2 \/ k = 3
      BY DEF Segments
    <3>2. 0 + 2 * (1 - 1) + 1 = 1 /\ 0 + 2 * (2 - 1) + 1 = 3 /\ 0 + 2 * (3 - 1) + 1 = 5
      OBVIOUS
    <3>3. /\ data[1][1] = "head" /\ data[1][2] = 1 /\ data[3][1] = "head" /\ data[3][2] = 2
          /\ data[5][1] = "head" /\ data[5][2] = 3
      BY <1>10, <1>11, <1>12, <1>13 DEF Kind
    <3>. QED  BY <3>1, <3>2, <3>3
  <2>. QED  BY <2>1, <2>2 DEF Aligned
<1>15. 0 \in Offsets(data)
  BY <1>2, <1>14 DEF Offsets
<1>16. Least(Offsets(data)) = 0
  <2> DEFINE S == Offsets(data)
  <2>1. S \in SUBSET Nat /\ 0 \in S
    BY <1>4, <1>15
  <2> HIDE DEF S
  <2>2. Least(S) \in S /\ \A y \in S : Least(S) <= y
    BY <2>1, LeastIsOne
  <2>3. \A x \in Nat : x <= 0 => x = 0
    OBVIOUS
  <2>4. Least(S) = 0
    BY <2>1, <2>2, <2>3
  <2>. QED  BY <2>4 DEF S
<1>17. Closes(stream[pos])
  BY <1>8, <1>12 DEF Closes, Kind, Segments
<1>18. pos \in 1..Len(stream)
  BY <1>2, <1>3
<1>. QED  BY <1>16, <1>17, <1>18

LEMMA SyncV7Accounts == StreamInv /\ Accounts /\ SyncV7 => Accounts'
<1> SUFFICES ASSUME StreamInv, Accounts, SyncV7 PROVE Accounts'
  OBVIOUS
<1>1. Typed /\ InHand
  BY DEF StreamInv
<1> DEFINE o == Least(Offsets(data))
           t == From(data, o + 1)
           u == SubSeq(data, 1, o)
           f == Rewound(data, o)
<1>2. /\ pc = "initial" /\ Where(data, "sig") = {} /\ Offsets(data) # {} /\ Ready(data)
      /\ delivered' = Append(delivered, f) /\ data' = <<>>
      /\ UNCHANGED <<stream, arrived, hungUp, pos, fragments, rejected, dropped, gaveUp>>
  BY DEF SyncV7, HandOn, Environment
<1>3. /\ Behind \in Nat /\ Behind + Len(data) = pos /\ pos \in Nat /\ pos <= Len(stream)
      /\ Len(data) \in Nat /\ data = SubSeq(stream, Behind + 1, pos)
      /\ data \in Seq(Cell)
  BY <1>1, HandIsPiece DEF Typed
<1>4. o \in 0..Len(data)
  <2> DEFINE S == Offsets(data)
  <2>1. S \subseteq 0..Len(data) /\ S \in SUBSET Nat /\ S # {}
    BY <1>2, <1>3 DEF Offsets
  <2> HIDE DEF S
  <2>2. Least(S) \in S
    BY <2>1, LeastIsOne
  <2>. QED  BY <2>1, <2>2 DEF S
<1>5. Clean => o = 0 /\ pos \in 1..Len(stream) /\ Closes(stream[pos])
  BY <1>2, InPlaceOnClean
<1> HIDE DEF o
<1>6. f \in Seq(Cell)
  <2>1. o + 1 \in Nat \ {0} /\ o + 1 <= Len(data) + 1 /\ o \in Nat /\ 1 <= o + 1
        /\ o <= Len(data)
    BY <1>3, <1>4
  <2>2. t \in Seq(Cell)
    BY <1>1, <2>1, RestOfData
  <2>3. u \in Seq(Cell)
    BY <1>3, <2>1, Piece
  <2>4. f = t \o u
    BY DEF Rewound
  <2> HIDE DEF t, u, f
  <2>. QED  BY <2>2, <2>3, <2>4, Joined
<1>7. o = 0 => f = data
  <2>1. From(data, 0 + 1) = data /\ SubSeq(data, 1, 0) = <<>>
    <3>1. From(data, 1) = data
      BY <1>3 DEF From
    <3>2. SubSeq(data, 0 + 1, 0) = <<>>
      BY <1>3, NoPiece
    <3>. QED  BY <3>1, <3>2
  <2>2. data \o <<>> = data
    BY <1>3
  <2>3. ASSUME o = 0 PROVE Rewound(data, o) = data
    BY <2>1, <2>2, <2>3 DEF Rewound
  <2>. QED  BY <2>3
<1> HIDE DEF f
<1>8. Behind' = pos
  BY <1>2, <1>3 DEF Behind
<1>9. Clean => f = SubSeq(stream, Behind + 1, Behind')
  BY <1>3, <1>5, <1>7, <1>8
<1>10. \A k \in (Behind + 1)..Behind : stream[k] = Blank
  BY <1>3
<1>11. Clean => AtStart'
  <2> SUFFICES ASSUME Clean PROVE AtStart'
    OBVIOUS
  <2>1. pos = Len(stream) \/ Starts(stream[pos + 1])
    BY <1>1, <1>5, StartAfter
  <2>. QED  BY <1>2, <1>8, <2>1 DEF AtStart
<1>12. Behind <= Behind /\ Behind <= Behind' /\ Behind' \in Nat /\ Behind' <= Len(stream)
  BY <1>3, <1>8
<1>13. pc # "closed" /\ delivered' = Append(delivered, f)
       /\ UNCHANGED <<stream, gaveUp, fragments, rejected, dropped>>
  BY <1>2
<1>. QED  BY <1>1, <1>3, <1>6, <1>9, <1>10, <1>11, <1>12, <1>13, PieceMoved

\* The line in hand with n more bytes is put away, to its newline or to the end
\* of what a unit that has hung up sent.
LEMMA LineAccounts ==
  ASSUME StreamInv, Accounts, pc = "line", NEW n \in Nat, n <= arrived - pos, NEW f,
         f = data \o SubSeq(Buffered, 1, n),
         delivered' = Append(delivered, f), data' = <<>>, pos' = pos + n,
         UNCHANGED <<stream, arrived, hungUp, gaveUp, fragments, rejected, dropped>>,
         (n >= 1 /\ Buffered[n][1] = "nl") \/ (pos' = arrived /\ hungUp)
  PROVE  Accounts'
<1>1. Typed /\ InHand
  BY DEF StreamInv
<1>2. /\ Len(data) \in Nat /\ pos \in Nat /\ data \in Seq(Cell) /\ arrived \in Nat
      /\ arrived <= Len(stream) /\ Len(stream) \in Nat
      /\ \A i \in 1..Len(data) : data[i] = stream[Behind + i]
  BY <1>1, StreamIs DEF InHand
<1>3. Behind \in Nat /\ Behind + Len(data) = pos
  BY <1>1, HandIsPiece
<1>4. /\ Buffered \in Seq(Cell) /\ Len(Buffered) = arrived - pos
      /\ \A k \in 1..(arrived - pos) : Buffered[k] = stream[pos + k]
  BY <1>1, BufferedIs
<1> DEFINE more == SubSeq(Buffered, 1, n)
<1>5. more \in Seq(Cell) /\ Len(more) = n /\ \A k \in 1..n : more[k] = Buffered[k]
  <2>1. n <= Len(Buffered) /\ 1 <= n + 1
    BY <1>4
  <2>2. /\ SubSeq(Buffered, 1, n) \in Seq(Cell) /\ Len(SubSeq(Buffered, 1, n)) = n - 1 + 1
        /\ \A k \in 1..(n - 1 + 1) : SubSeq(Buffered, 1, n)[k] = Buffered[1 + k - 1]
    BY <1>4, <2>1, Piece
  <2>. QED  BY <2>2
<1> HIDE DEF more
<1> DEFINE m == Len(data) + n
<1>6. /\ f \in Seq(Cell) /\ Len(f) = m
      /\ \A k \in 1..Len(data) : f[k] = data[k]
      /\ \A k \in 1..n : f[Len(data) + k] = more[k]
  <2>1. f = data \o more
    BY DEF more
  <2>. QED  BY <1>2, <1>5, <2>1, Joined
<1>7. m \in Nat /\ Behind + m = pos + n /\ pos + n <= Len(stream) /\ pos + n \in Nat
  <2>1. pos + n <= arrived /\ pos + n <= Len(stream) /\ pos + n \in Nat
    BY <1>2
  <2>2. m \in Nat
    BY <1>2
  <2>3. \A x, y \in Nat : x + (y + n) = (x + y) + n
    OBVIOUS
  <2>4. Behind + m = pos + n
    BY <1>2, <1>3, <2>3
  <2>. QED  BY <2>1, <2>2, <2>4
<1>8. ASSUME NEW k \in 1..n PROVE more[k] = stream[pos + k]
  <2>1. k \in 1..(arrived - pos)
    BY <1>2
  <2>. QED  BY <1>4, <1>5, <2>1
<1>9. ASSUME NEW k \in 1..m PROVE f[k] = stream[Behind + k]
  <2>1. CASE k <= Len(data)
    <3>1. k \in 1..Len(data)
      BY <1>2, <2>1
    <3>. QED  BY <1>2, <1>6, <3>1
  <2>2. CASE k > Len(data)
    <3>1. k - Len(data) \in 1..n /\ Len(data) + (k - Len(data)) = k
      BY <1>2, <2>2
    <3>2. pos + (k - Len(data)) = Behind + k
      <4>1. k \in Nat
        BY <1>7
      <4>2. \A x, y \in Nat : (x + y) + (k - y) = x + k
        BY <4>1
      <4>. QED  BY <1>2, <1>3, <4>2
    <3>3. f[Len(data) + (k - Len(data))] = more[k - Len(data)]
      BY <1>6, <3>1
    <3>4. more[k - Len(data)] = stream[pos + (k - Len(data))]
      BY <1>8, <3>1
    <3>. QED  BY <3>1, <3>2, <3>3, <3>4
  <2>. QED  BY <1>2, <2>1, <2>2
<1> HIDE DEF m
<1>10. f = SubSeq(stream, Behind + 1, Behind + m)
  BY <1>1, <1>3, <1>6, <1>7, <1>9, PieceOfStream
<1>11. Behind' = pos + n
  BY <1>7 DEF Behind
<1>12. Clean => AtStart'
  <2>1. CASE n >= 1 /\ Buffered[n][1] = "nl"
    <3> SUFFICES ASSUME Clean PROVE AtStart'
      OBVIOUS
    <3>1. n \in 1..n /\ pos + n \in 1..Len(stream)
      BY <1>2, <1>7, <2>1
    <3>2. Kind(stream[pos + n]) = "nl"
      BY <1>5, <1>8, <2>1, <3>1 DEF Kind
    <3>3. pos + n = Len(stream) \/ Starts(stream[(pos + n) + 1])
      BY <1>1, <3>1, <3>2, StartAfter DEF Closes
    <3>. QED  BY <1>11, <3>3 DEF AtStart
  <2>2. CASE pos' = arrived /\ hungUp
    BY <2>2 DEF AtStart, Exhausted
  <2>. QED  BY <2>1, <2>2
<1>13. \A k \in (Behind + 1)..Behind : stream[k] = Blank
  BY <1>3
<1>14. Behind <= Behind /\ Behind <= Behind' /\ Behind' \in Nat /\ Behind' <= Len(stream)
  BY <1>2, <1>3, <1>7, <1>11
<1>15. f = SubSeq(stream, Behind + 1, Behind')
  BY <1>7, <1>10, <1>11
<1>16. pc # "closed"
  OBVIOUS
<1>. QED  BY <1>1, <1>3, <1>6, <1>12, <1>13, <1>14, <1>15, <1>16, PieceMoved

LEMMA ReadLineAccounts == StreamInv /\ Accounts /\ ReadLine => Accounts'
<1> SUFFICES ASSUME StreamInv, Accounts, ReadLine PROVE Accounts'
  OBVIOUS
<1>1. Typed
  BY DEF StreamInv
<1> DEFINE n == Least(Where(Buffered, "nl"))
<1>2. /\ pc = "line" /\ Where(Buffered, "nl") # {}
      /\ delivered' = Append(delivered, data \o SubSeq(Buffered, 1, n))
      /\ pos' = pos + n /\ data' = <<>>
      /\ UNCHANGED <<stream, arrived, hungUp, gaveUp, fragments, rejected, dropped>>
  BY DEF ReadLine, HandOn, Environment
<1>3. Buffered \in Seq(Cell) /\ Len(Buffered) = arrived - pos
  BY <1>1, BufferedIs
<1>4. n \in 1..Len(Buffered) /\ Buffered[n][1] = "nl"
  BY <1>2, <1>3, FirstOfKind
<1> HIDE DEF n
<1>5. n \in Nat /\ n >= 1 /\ n <= arrived - pos
  <2>1. Len(Buffered) \in Nat
    BY <1>3
  <2>. QED  BY <1>3, <1>4, <2>1
<1>. QED  BY <1>2, <1>4, <1>5, LineAccounts

LEMMA LineCutShortAccounts == StreamInv /\ Accounts /\ LineCutShort => Accounts'
<1> SUFFICES ASSUME StreamInv, Accounts, LineCutShort PROVE Accounts'
  OBVIOUS
<1>1. Typed
  BY DEF StreamInv
<1> DEFINE n == arrived - pos
<1>2. /\ pc = "line" /\ hungUp
      /\ delivered' = Append(delivered, data \o Buffered)
      /\ pos' = arrived /\ data' = <<>>
      /\ UNCHANGED <<stream, arrived, hungUp, gaveUp, fragments, rejected, dropped>>
  BY DEF LineCutShort, HandOn, Environment
<1>3. /\ Buffered \in Seq(Cell) /\ Len(Buffered) = n
      /\ pos \in Nat /\ arrived \in Nat /\ pos <= arrived
  BY <1>1, BufferedIs, StreamIs
<1>4. n \in Nat /\ n <= arrived - pos /\ pos' = pos + n
  BY <1>2, <1>3
<1>5. Buffered = SubSeq(Buffered, 1, n)
  BY <1>3, <1>4
<1> HIDE DEF n
<1>6. delivered' = Append(delivered, data \o SubSeq(Buffered, 1, n))
  BY <1>2, <1>5
<1>. QED  BY <1>2, <1>4, <1>6, LineAccounts

LEMMA AccountsInit == Init => Accounts
<1> SUFFICES ASSUME Init PROVE Accounts
  OBVIOUS
<1>1. /\ stream \in Streams /\ pos = 0 /\ data = <<>> /\ ~hungUp
      /\ delivered = <<>> /\ fragments = <<>> /\ rejected = <<>> /\ dropped = <<>>
  BY DEF Init
<1>2. Behind = 0
  <2>1. Len(data) = 0
    BY <1>1
  <2>2. pos = 0
    BY <1>1
  <2>. QED  BY <2>1, <2>2 DEF Behind
<1>3. Ledger = <<>>
  <2>1. ((<<>> \o <<>>) \o <<>>) \o <<>> = <<>>
    OBVIOUS
  <2>. QED  BY <1>1, <2>1, FlattenNone DEF Ledger
<1>4. SubSeq(stream, 1, 0) = <<>>
  <2>1. stream \in Seq(Cell)
    BY <1>1, StreamsAssumption DEF StreamsAssumption, Cell
  <2>2. SubSeq(stream, 0 + 1, 0) = <<>>
    BY <2>1, NoPiece
  <2>. QED  BY <2>2
<1>5. Clean => AtStart
  <2>1. Behind + 1 = 1
    BY <1>2
  <2>. QED  BY <2>1 DEF Clean, AtStart
<1>6. fragments \in Seq(Seq(Cell)) /\ rejected \in Seq(Seq(Cell)) /\ dropped \in Seq(Cell)
      /\ LostWithRefusedFrame
  BY <1>1 DEF LostWithRefusedFrame
<1>. QED  BY <1>1, <1>2, <1>3, <1>4, <1>5, <1>6 DEF Accounts

-----------------------------------------------------------------------------
(* The theorems *)

LEMMA StreamStep == StreamInv /\ [Next]_vars => StreamInv'
<1> SUFFICES ASSUME StreamInv, [Next]_vars PROVE StreamInv'
  OBVIOUS
<1>1. gaveUp \in BOOLEAN
  BY DEF StreamInv, Typed
<1>2. CASE Reset
  <2>1. data' \in {<<>>, data} /\ pc' = "closed" /\ gaveUp' \in BOOLEAN
        /\ UNCHANGED <<stream, arrived, hungUp, pos, delivered>>
    BY <1>2 DEF Reset, Environment, Outputs
  <2>. QED  BY <2>1, ClosedStays
<1>3. CASE SyncFailed
  <2>1. data' \in {<<>>, data} /\ pc' = "closed" /\ gaveUp' \in BOOLEAN
        /\ UNCHANGED <<stream, arrived, hungUp, pos, delivered>>
    BY <1>1, <1>3 DEF SyncFailed, Environment
  <2>. QED  BY <2>1, ClosedStays
<1>4. CASE EndOfStream
  <2>1. data' \in {<<>>, data} /\ pc' = "closed" /\ gaveUp' \in BOOLEAN
        /\ UNCHANGED <<stream, arrived, hungUp, pos, delivered>>
    BY <1>1, <1>4 DEF EndOfStream, Environment
  <2>. QED  BY <2>1, ClosedStays
<1>5. CASE QuietInitial
  <2>1. data' \in {<<>>, data} /\ pc' = "closed" /\ gaveUp' \in BOOLEAN
        /\ UNCHANGED <<stream, arrived, hungUp, pos, delivered>>
    BY <1>5 DEF QuietInitial, Environment, Outputs
  <2>. QED  BY <2>1, ClosedStays
<1>6. CASE QuietLine
  <2>1. data' \in {<<>>, data} /\ pc' = "closed" /\ gaveUp' \in BOOLEAN
        /\ UNCHANGED <<stream, arrived, hungUp, pos, delivered>>
    BY <1>6 DEF QuietLine, Environment
  <2>. QED  BY <2>1, ClosedStays
<1>8. CASE LineTooLong
  <2>1. data' \in {<<>>, data} /\ pc' = "closed" /\ gaveUp' \in BOOLEAN
        /\ UNCHANGED <<stream, arrived, hungUp, pos, delivered>>
    BY <1>1, <1>8 DEF LineTooLong, Environment
  <2>. QED  BY <2>1, ClosedStays
<1>7. CASE UNCHANGED vars
  BY <1>7 DEF vars, StreamInv, Typed, InHand, Behind, Handed, Exhausted, Consecutive,
              NextInTurn
<1>. QED  BY <1>2, <1>3, <1>4, <1>5, <1>6, <1>7, <1>8, ArriveStays, HangUpStays, ReadStays,
             SyncV8Stays, SyncV8OpenStays, SyncV7Stays, ReadLineStays, LineCutShortStays
          DEF Next, Handler

LEMMA StreamInvariant == Spec => []StreamInv
BY StreamInit, StreamStep, PTL DEF Spec

LEMMA AccountsStep == StreamInv /\ Accounts /\ [Next]_vars => Accounts'
<1> SUFFICES ASSUME StreamInv, Accounts, [Next]_vars PROVE Accounts'
  OBVIOUS
<1>1. CASE UNCHANGED vars
  <2>1. /\ UNCHANGED <<stream, delivered, fragments, rejected, dropped, gaveUp>> /\ pc' = pc
        /\ Behind' = Behind
    BY <1>1 DEF vars, Behind
  <2>2. Clean => AtStart'
    BY <1>1, <2>1 DEF vars, Accounts, AtStart, Exhausted
  <2>. QED  BY <2>1, <2>2, NothingMoved
<1>. QED  BY <1>1, ArriveAccounts, HangUpAccounts, ReadAccounts, GivenUpAccounts,
             SyncV8Accounts, SyncV8OpenAccounts, SyncV7Accounts, SyncFailedAccounts, LineTooLongAccounts,
             ReadLineAccounts, LineCutShortAccounts, EndOfStreamAccounts
          DEF Next, Handler

LEMMA AccountsInvariant == Spec => [](StreamInv /\ Accounts)
<1>1. StreamInv /\ Accounts /\ [Next]_vars => (StreamInv /\ Accounts)'
  BY StreamStep, AccountsStep
<1>. QED  BY <1>1, StreamInit, AccountsInit, PTL DEF Spec

\* What has been put away and what is in hand is what has been read.
LEMMA NothingMissing ==
  ASSUME StreamInv, Accounts, Clean, ~gaveUp
  PROVE  Solid(Ledger \o data) = Solid(SubSeq(stream, 1, pos))
<1>1. Typed /\ InHand
  BY DEF StreamInv
<1>2. /\ Behind \in Nat /\ Behind <= pos /\ pos \in Nat /\ pos <= Len(stream)
      /\ data = SubSeq(stream, Behind + 1, pos) /\ data \in Seq(Cell)
      /\ stream \in Seq(Cell)
  <2>1. /\ Behind \in Nat /\ Behind + Len(data) = pos /\ pos \in Nat /\ Len(data) \in Nat
        /\ pos <= Len(stream) /\ data = SubSeq(stream, Behind + 1, pos)
    BY <1>1, HandIsPiece
  <2>2. data \in Seq(Cell) /\ stream \in Seq(Cell)
    BY <1>1, StreamIs
  <2>. QED  BY <2>1, <2>2
<1>3. Ledger \in Seq(Cell)
  BY <1>1, AllTyped DEF Accounts, Typed
<1> DEFINE a == SubSeq(stream, 1, Behind)
           d == SubSeq(stream, 1, pos)
<1>4. Solid(Ledger) = Solid(a)
  BY DEF Accounts
<1>5. a \in Seq(Cell) /\ d = a \o data
  BY <1>2, TwoPieces
<1> HIDE DEF a, d
<1>6. Solid(a \o data) = Solid(a) \o Solid(data)
  BY <1>2, <1>5, SolidJoin
<1>7. Solid(Ledger \o data) = Solid(Ledger) \o Solid(data)
  BY <1>2, <1>3, SolidJoin
<1>8. Solid(Ledger \o data) = Solid(d)
  BY <1>4, <1>5, <1>6, <1>7
<1>. QED  BY <1>8 DEF d

LEMMA StreamIsTyped == StreamInv => TypeOK
BY DEF StreamInv, Typed, InHand, TypeOK

LEMMA LinesHandedOn == StreamInv => V8FramesAreLines
<1> SUFFICES ASSUME StreamInv, NEW k \in DOMAIN delivered, StartsV8(delivered[k])
             PROVE  /\ \A i \in DOMAIN delivered[k] : Number(delivered[k]) = delivered[k][i][3]
                    /\ Where(delivered[k], "sig") = {1}
                    /\ \/ Where(delivered[k], "nl") = {Len(delivered[k])}
                       \/ Where(delivered[k], "nl") = {} /\ hungUp /\ k = Len(delivered)
  BY DEF V8FramesAreLines
<1>1. Line(delivered[k])
  BY DEF StreamInv, Handed
<1>2. Ends(delivered[k]) \/ (Where(delivered[k], "nl") = {} /\ hungUp /\ k = Len(delivered))
  BY DEF StreamInv, Handed
<1>. QED  BY <1>1, <1>2 DEF Line, Ends

\* However a connection joins the stream of a unit and however TCP cuts it, a v7
\* frame that the rewind put together from two reaches the decoder as the last
\* frame of the connection or not at all.
THEOREM MixedFramesEnd == Spec => []MixedFrameEndsConnection
<1>1. StreamInv => MixedFrameEndsConnection
  BY DEF StreamInv, Handed, MixedFrameEndsConnection
<1>. QED  BY <1>1, StreamInvariant, PTL

\* For streams of any length: the v8 frames handed on are whole lines of one frame
\* each, at most the last one short of its end, and the frames of a connection
\* are numbered without a gap and without a repetition.
THEOREM FramesComeInTurn == Spec => []NoFrameSkipped
<1>1. StreamInv => NoFrameSkipped
  BY StreamIsTyped, LinesHandedOn DEF StreamInv, Consecutive, NoFrameSkipped
<1>. QED  BY <1>1, StreamInvariant, PTL

\* For streams of any length, however TCP cuts them and whenever the unit hangs up:
\* on a clean stream every byte read is in one place, in order, in a frame handed
\* on, in the kept fragment, in the rejected bytes or in hand.  Given up are
\* separators between v8 frames and, once, less than one read of bytes carried
\* over behind a v8 frame that the decoder refused, as the connection ends.
THEOREM NoByteIsLost == Spec => []NoByteLost
<1>1. StreamInv /\ Accounts => NoByteLost
  BY NothingMissing DEF NoByteLost, Ledger, Accounts
<1>. QED  BY <1>1, AccountsInvariant, PTL
=============================================================================
