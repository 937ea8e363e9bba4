---------------------------- MODULE RecordingProofs ----------------------------
(***************************************************************************)
(* Proofs about Recording, for every set of units and requests, every name   *)
(* and every limit of photos, markers and switches.                          *)
(***************************************************************************)
EXTENDS Recording, SequenceTheorems, FiniteSetTheorems, WellFoundedInduction, TLAPS

-----------------------------------------------------------------------------
(* Lists and names *)

\* A list cut to its newest entries keeps them in order, and no more than the cap.
LEMMA NewestEffect ==
  ASSUME NEW S, NEW all \in Seq(S), NEW max \in Nat \ {0}
  PROVE  /\ Newest(all, max) \in Seq(S) /\ Len(Newest(all, max)) <= max
         /\ \E surplus \in Nat :
              /\ Len(Newest(all, max)) = Len(all) - surplus
              /\ \A i \in 1..Len(Newest(all, max)) :
                   i + surplus \in 1..Len(all) /\ Newest(all, max)[i] = all[i + surplus]
<1> DEFINE surplus == IF Len(all) > max THEN Len(all) - max ELSE 0
           first == surplus + 1
           last == Len(all)
           kept == SubSeq(all, first, last)
<1>1. surplus \in Nat /\ Len(all) \in Nat /\ surplus <= Len(all) /\ Len(all) - surplus <= max
  BY LenProperties
<1>2. kept = Newest(all, max)
  BY DEF Newest, Surplus
<1> HIDE DEF surplus
<1>3. /\ first \in Int /\ last \in Int /\ last - first + 1 = Len(all) - surplus
      /\ first <= last \/ Len(all) - surplus = 0
      /\ \A i \in first..last : all[i] \in S
  BY <1>1, ElementOfSeq
<1>4. /\ kept \in Seq(S)
      /\ Len(kept) = IF first <= last THEN last - first + 1 ELSE 0
      /\ \A i \in 1..(last - first + 1) : kept[i] = all[first + i - 1]
  <2> HIDE DEF first, last
  <2>. QED  BY <1>3, SubSeqProperties
<1> HIDE DEF kept
<1>5. Len(kept) = Len(all) - surplus
  <2> HIDE DEF first, last
  <2>. QED  BY <1>3, <1>4
<1>6. ASSUME NEW i \in 1..Len(kept)
      PROVE  i + surplus \in 1..Len(all) /\ kept[i] = all[i + surplus]
  <2>1. i \in 1..(last - first + 1) /\ first + i - 1 = i + surplus
    BY <1>1, <1>5
  <2>2. i + surplus \in 1..Len(all)
    BY <1>1, <1>5
  <2> HIDE DEF first, last
  <2>. QED  BY <1>4, <2>1, <2>2
<1>7. /\ kept \in Seq(S) /\ Len(kept) <= max
      /\ \E n \in Nat : /\ Len(kept) = Len(all) - n
                        /\ \A i \in 1..Len(kept) : i + n \in 1..Len(all) /\ kept[i] = all[i + n]
  BY <1>1, <1>4, <1>5, <1>6
<1>. QED  BY <1>2, <1>7

\* Taking an entry out of a list leaves the others, in their order.
LEMMA RemoveAtEffect ==
  ASSUME NEW S, NEW s \in Seq(S), NEW i \in DOMAIN s
  PROVE  /\ RemoveAt(s, i) \in Seq(S)
         /\ Len(RemoveAt(s, i)) = Len(s) - 1
         /\ \A j \in 1..(Len(s) - 1) :
              RemoveAt(s, i)[j] = IF j < i THEN s[j] ELSE s[j + 1]
<1> DEFINE left == SubSeq(s, 1, i - 1)
           right == SubSeq(s, i + 1, Len(s))
<1>1. Len(s) \in Nat /\ i \in 1..Len(s)
  BY LenProperties
<1>2. /\ \A j \in 1..(i - 1) : s[j] \in S
      /\ \A j \in (i + 1)..Len(s) : s[j] \in S
  BY <1>1, ElementOfSeq
<1>3. /\ left \in Seq(S) /\ Len(left) = IF 1 <= i - 1 THEN (i - 1) - 1 + 1 ELSE 0
      /\ \A j \in 1..((i - 1) - 1 + 1) : left[j] = s[1 + j - 1]
  BY <1>1, <1>2, SubSeqProperties
<1>4. /\ right \in Seq(S)
      /\ Len(right) = IF i + 1 <= Len(s) THEN Len(s) - (i + 1) + 1 ELSE 0
      /\ \A j \in 1..(Len(s) - (i + 1) + 1) : right[j] = s[(i + 1) + j - 1]
  BY <1>1, <1>2, SubSeqProperties
<1>8. RemoveAt(s, i) = left \o right
  BY DEF RemoveAt
<1> HIDE DEF left, right
<1>5. Len(left) = i - 1 /\ \A j \in 1..(i - 1) : left[j] = s[j]
  BY <1>1, <1>3
<1>6. Len(right) = Len(s) - i /\ \A j \in 1..(Len(s) - i) : right[j] = s[i + j]
  BY <1>1, <1>4
<1>7. /\ left \o right \in Seq(S)
      /\ Len(left \o right) = Len(left) + Len(right)
      /\ \A j \in 1..(Len(left) + Len(right)) :
           (left \o right)[j] = IF j <= Len(left) THEN left[j] ELSE right[j - Len(left)]
  BY <1>3, <1>4, ConcatProperties
<1>9. ASSUME NEW j \in 1..(Len(s) - 1)
      PROVE  (left \o right)[j] = IF j < i THEN s[j] ELSE s[j + 1]
  <2>1. i \in Int /\ j \in Int /\ j \in 1..(Len(left) + Len(right))
    BY <1>1, <1>5, <1>6
  <2>2. (left \o right)[j] = IF j <= Len(left) THEN left[j] ELSE right[j - Len(left)]
    BY <1>7, <2>1
  <2>3. CASE j < i
    <3>1. j <= i - 1 /\ j \in 1..(i - 1)
      BY <2>1, <2>3
    <3>. QED  BY <1>5, <2>2, <2>3, <3>1
  <2>4. CASE j >= i
    <3>1. j - (i - 1) \in 1..(Len(s) - i) /\ i + (j - (i - 1)) = j + 1 /\ ~(j <= i - 1) /\ ~(j < i)
      BY <1>1, <2>4
    <3>2. right[j - (i - 1)] = s[i + (j - (i - 1))]
      BY <1>6, <3>1
    <3>. QED  BY <1>5, <2>2, <3>1, <3>2
  <2>5. j < i \/ j >= i
    BY <2>1
  <2>. QED  BY <2>3, <2>4, <2>5
<1>10. Len(left \o right) = Len(s) - 1
  BY <1>1, <1>5, <1>6, <1>7
<1>. QED  BY <1>7, <1>8, <1>9, <1>10

\* A set of natural numbers that is not empty has a least one.
LEMMA LeastOf ==
  ASSUME NEW T, T \subseteq Nat, T # {}
  PROVE  \E k \in T : \A j \in T : k <= j
<1>1. \E k \in T : \A j \in T : ~ (<<j, k>> \in OpToRel(<, Nat))
  BY NatLessThanWellFounded, WFMin
<1>2. PICK k \in T : \A j \in T : ~ (<<j, k>> \in OpToRel(<, Nat))
  BY <1>1
<1>3. ASSUME NEW j \in T PROVE k <= j
  <2>1. ~(<<j, k>> \in OpToRel(<, Nat))
    BY <1>2
  <2>2. ~(j < k)
    BY <2>1 DEF OpToRel
  <2>. QED  BY <2>2
<1>. QED  BY <1>3

\* A photo finds a free name: among the counters up to one more than there are
\* photos one is free, and the least free one is taken.
LEMMA FreeNameEffect ==
  ASSUME NEW S, photos \in Seq(S), NEW stem
  PROVE  \E k \in 1..(Len(photos) + 1) :
           FreeName(stem) = <<stem, k>> /\ <<stem, k>> \notin ToSet(photos)
<1> DEFINE top == Len(photos) + 1
           free == {k \in 1..top : <<stem, k>> \notin ToSet(photos)}
<1>1. Len(photos) \in Nat /\ top \in Nat /\ DOMAIN photos = 1..Len(photos)
  BY LenProperties
<1>2. free # {}
  <2> SUFFICES ASSUME \A k \in 1..top : <<stem, k>> \in ToSet(photos) PROVE FALSE
    OBVIOUS
  <2> DEFINE at == [k \in 1..top |-> CHOOSE i \in 1..Len(photos) : photos[i] = <<stem, k>>]
  <2>1. \A k \in 1..top : at[k] \in 1..Len(photos) /\ photos[at[k]] = <<stem, k>>
    BY <1>1 DEF ToSet
  <2>2. at \in [1..top -> 1..Len(photos)]
    BY <2>1
  <2>3. /\ IsFiniteSet(1..top) /\ IsFiniteSet(1..Len(photos))
        /\ Cardinality(1..Len(photos)) < Cardinality(1..top)
    <3>1. /\ IsFiniteSet(1..Len(photos))
          /\ Cardinality(1..Len(photos)) = IF 1 > Len(photos) THEN 0 ELSE Len(photos) - 1 + 1
      <4>1. 1 \in Int /\ Len(photos) \in Int
        BY <1>1
      <4>. QED  BY <4>1, FS_Interval, Zenon
    <3>2. /\ IsFiniteSet(1..top)
          /\ Cardinality(1..top) = IF 1 > top THEN 0 ELSE top - 1 + 1
      <4> HIDE DEF top
      <4>. QED  BY <1>1, FS_Interval
    <3>. QED  BY <1>1, <3>1, <3>2
  <2>4. \E k, l \in 1..top : k # l /\ at[k] = at[l]
    <3> HIDE DEF at, top
    <3>. QED  BY <2>2, <2>3, FS_PigeonHole
  <2>5. PICK k \in 1..top, l \in 1..top : k # l /\ at[k] = at[l]
    BY <2>4
  <2>6. photos[at[k]] = <<stem, k>> /\ photos[at[l]] = <<stem, l>>
    BY <2>1
  <2> HIDE DEF at, top
  <2>7. <<stem, k>> = <<stem, l>>
    BY <2>5, <2>6
  <2>. QED  BY <2>5, <2>7
<1>3. PICK least \in free : \A j \in free : least <= j
  <2>1. free \subseteq Nat
    OBVIOUS
  <2> HIDE DEF free
  <2>. QED  BY <1>2, <2>1, LeastOf
<1>4. \A j \in 1..(least - 1) : <<stem, j>> \in ToSet(photos)
  BY <1>1, <1>3
<1> DEFINE Fits(k) == /\ <<stem, k>> \notin ToSet(photos)
                      /\ \A j \in 1..(k - 1) : <<stem, j>> \in ToSet(photos)
<1>5. least \in 1..top /\ Fits(least)
  BY <1>3, <1>4
<1>6. PICK k \in 1..top : Fits(k) /\ FreeName(stem) = <<stem, k>>
  <2> DEFINE chosen == CHOOSE k \in 1..top : Fits(k)
  <2>1. chosen \in 1..top /\ Fits(chosen)
    BY <1>5
  <2>2. FreeName(stem) = <<stem, chosen>>
    BY DEF FreeName
  <2>. QED  BY <2>1, <2>2
<1>. QED  BY <1>6

-----------------------------------------------------------------------------
(* Types *)

Names == {NoName} \cup (Stems \X Nat)

RequestRecord ==
  [pc : RequestPCs, gen : Nat, released : BOOLEAN, name : Names, from : Nat,
   stale : BOOLEAN, marked : BOOLEAN, on : BOOLEAN, off : BOOLEAN,
   ended : {"no", "cancelled", "failed"}]
CaseRecord == [n : Nat, photo : Names, by : Requests]
TapeRecord == ({"frame"} \X Units \X BOOLEAN) \cup ({"mark"} \X Nat \X Requests)

ReqTyped == req \in [Requests -> RequestRecord]

SwitchTyped ==
  /\ enabled \in BOOLEAN /\ generation \in Nat /\ switches \in Nat
  /\ known \subseteq Units /\ deleting \in Nat

LogTyped ==
  /\ tape \in Seq(TapeRecord) /\ nextMarker \in Nat \ {0}
  /\ cases \in Seq(CaseRecord) /\ through \in Nat

PhotosTyped == photos \in Seq(Names)

ZipTyped == zip \in [newest : Nat, cases : SUBSET Nat, asked : BOOLEAN] /\ held \subseteq Nat

Typed == ReqTyped /\ SwitchTyped /\ LogTyped /\ PhotosTyped /\ ZipTyped

LEMMA IdleTyped == Idle \in RequestRecord
BY DEF Idle, RequestRecord, RequestPCs, Names

LEMMA GoneIs ==
  ASSUME NEW pc, NEW name, NEW how
  PROVE  /\ Gone(pc, name, how).pc = pc /\ Gone(pc, name, how).name = name
         /\ Gone(pc, name, how).ended = how /\ Gone(pc, name, how).gen = 0
         /\ Gone(pc, name, how).released = FALSE
         /\ Gone(pc, name, how).marked = FALSE /\ Gone(pc, name, how).stale = FALSE
         /\ pc \in RequestPCs /\ name \in Names /\ how \in {"no", "cancelled", "failed"} =>
              Gone(pc, name, how) \in RequestRecord
BY DEF Gone, Idle, RequestRecord

\* The new name of a saved photo.
LEMMA SavedName == ASSUME PhotosTyped, NEW stem \in Stems
                   PROVE  FreeName(stem) \in Names /\ FreeName(stem) \notin ToSet(photos)
<1>1. PICK k \in 1..(Len(photos) + 1) :
        FreeName(stem) = <<stem, k>> /\ <<stem, k>> \notin ToSet(photos)
  BY FreeNameEffect DEF PhotosTyped
<1>2. Len(photos) \in Nat
  BY LenProperties DEF PhotosTyped
<1>3. k \in Nat
  BY <1>2
<1>. QED  BY <1>1, <1>3 DEF Names

\* The folder with a new photo, from which the oldest may be gone.
Took(name) ==
  /\ photos' \in Seq(Names)
  /\ \E surplus \in Nat :
       /\ Len(photos') = Len(photos) + 1 - surplus
       /\ \A i \in 1..Len(photos') :
            /\ i + surplus \in 1..(Len(photos) + 1)
            /\ photos'[i] = IF i + surplus = Len(photos) + 1 THEN name
                            ELSE photos[i + surplus]

LEMMA TookEffect ==
  ASSUME PhotosTyped, NEW name \in Names, NEW surplus \in Nat, photos' \in Seq(Names),
         LET all == Append(photos, name) IN
           /\ Len(photos') = Len(all) - surplus
           /\ \A i \in 1..Len(photos') : /\ i + surplus \in 1..Len(all)
                                        /\ photos'[i] = all[i + surplus]
  PROVE  Took(name)
<1> DEFINE all == Append(photos, name)
<1>1. photos \in Seq(Names) /\ Len(photos) \in Nat
  BY LenProperties DEF PhotosTyped
<1>2. /\ Len(all) = Len(photos) + 1
      /\ \A i \in 1..Len(photos) : all[i] = photos[i]
      /\ all[Len(photos) + 1] = name
  BY <1>1, AppendProperties
<1>3. /\ Len(photos') = Len(all) - surplus
      /\ \A i \in 1..Len(photos') : i + surplus \in 1..Len(all) /\ photos'[i] = all[i + surplus]
  OBVIOUS
<1> HIDE DEF all
<1>4. ASSUME NEW i \in 1..Len(photos')
      PROVE  /\ i + surplus \in 1..(Len(photos) + 1)
             /\ photos'[i] = IF i + surplus = Len(photos) + 1 THEN name
                             ELSE photos[i + surplus]
  <2>1. i + surplus \in 1..(Len(photos) + 1) /\ photos'[i] = all[i + surplus]
    BY <1>2, <1>3
  <2>2. i + surplus # Len(photos) + 1 => i + surplus \in 1..Len(photos)
    BY <1>1, <2>1
  <2>. QED  BY <1>2, <2>1, <2>2
<1>5. Len(photos') = Len(photos) + 1 - surplus
  BY <1>2, <1>3
<1>. QED  BY <1>4, <1>5 DEF Took

LEMMA SavePhotoEffect ==
  ASSUME PhotosTyped, NEW r, NEW stem \in Stems, SavePhoto(r, stem)
  PROVE  Took(FreeName(stem)) /\ Len(photos') <= MaxPhotos
<1> DEFINE name == FreeName(stem)
           all == Append(photos, name)
           kept == Newest(all, MaxPhotos)
<1>1. photos \in Seq(Names) /\ name \in Names
  BY SavedName DEF PhotosTyped
<1>2. all \in Seq(Names)
  BY <1>1, AppendProperties
<1>3. photos' = kept /\ MaxPhotos \in Nat \ {0}
  BY LimitsAssumption DEF LimitsAssumption, SavePhoto
<1> HIDE DEF name
<1>4. /\ kept \in Seq(Names) /\ Len(kept) <= MaxPhotos
      /\ \E n \in Nat :
           /\ Len(kept) = Len(all) - n
           /\ \A i \in 1..Len(kept) : i + n \in 1..Len(all) /\ kept[i] = all[i + n]
  <2> HIDE DEF all
  <2>. QED  BY <1>2, <1>3, NewestEffect
<1> HIDE DEF kept
<1>5. PICK n \in Nat :
        /\ Len(photos') = Len(all) - n
        /\ \A i \in 1..Len(photos') : i + n \in 1..Len(all) /\ photos'[i] = all[i + n]
  BY <1>3, <1>4
<1>6. Took(name)
  BY <1>1, <1>3, <1>4, <1>5, TookEffect
<1>. QED  BY <1>3, <1>4, <1>6 DEF name

\* A save that failed left the folder alone, or its file in it.
LEMMA SaveFailsEffect ==
  ASSUME PhotosTyped, NEW r, NEW stem \in Stems, SaveFails(r, stem)
  PROVE  photos' = photos \/ Took(FreeName(stem))
<1> SUFFICES ASSUME photos' # photos PROVE Took(FreeName(stem))
  OBVIOUS
<1> DEFINE name == FreeName(stem)
           all == Append(photos, name)
<1>1. photos \in Seq(Names) /\ name \in Names /\ Len(photos) \in Nat
  BY SavedName, LenProperties DEF PhotosTyped
<1>2. all \in Seq(Names) /\ Len(all) = Len(photos) + 1
  BY <1>1, AppendProperties
<1>3. PICK gone \in 0..Surplus(photos, MaxPhotos) :
        photos' = SubSeq(all, gone + 1, Len(photos) + 1)
  BY DEF SaveFails
<1> HIDE DEF name, all
<1>4. gone \in Nat /\ gone <= Len(photos)
  BY <1>1, LimitsAssumption DEF LimitsAssumption, Surplus
<1> DEFINE first == gone + 1
           last == Len(photos) + 1
<1>5. /\ first \in Int /\ last \in Int /\ first <= last
      /\ \A i \in first..last : all[i] \in Names
  BY <1>1, <1>2, <1>4, ElementOfSeq
<1>6. photos' = SubSeq(all, first, last)
  BY <1>3
<1>7. /\ photos' \in Seq(Names)
      /\ Len(photos') = last - first + 1
      /\ \A i \in 1..(last - first + 1) : photos'[i] = all[first + i - 1]
  <2> HIDE DEF first, last
  <2>. QED  BY <1>5, <1>6, SubSeqProperties
<1>8. /\ Len(photos') = Len(all) - gone
      /\ \A i \in 1..Len(photos') : i + gone \in 1..Len(all) /\ photos'[i] = all[i + gone]
  <2>1. Len(photos') = Len(all) - gone /\ last - first + 1 = Len(all) - gone
    BY <1>1, <1>2, <1>4, <1>7
  <2>2. ASSUME NEW i \in 1..Len(photos')
        PROVE  i + gone \in 1..Len(all) /\ photos'[i] = all[i + gone]
    <3>1. i \in 1..(last - first + 1) /\ first + i - 1 = i + gone /\ i + gone \in 1..Len(all)
      BY <1>1, <1>2, <1>4, <2>1
    <3>. QED  BY <1>7, <3>1
  <2>. QED  BY <2>1, <2>2
<1>9. Took(name)
  <2> HIDE DEF first, last
  <2>1. gone \in Nat /\ photos' \in Seq(Names) /\ name \in Names
    BY <1>1, <1>4, <1>7
  <2>. QED  BY <1>8, <2>1, TookEffect DEF all
<1>. QED  BY <1>9 DEF name

\* The folder without a refused upload's photo.
LEMMA DiscardPhotoEffect ==
  ASSUME PhotosTyped, NEW r, DiscardPhoto(r)
  PROVE  \/ photos' = photos /\ req[r].name \notin ToSet(photos)
         \/ \E i \in 1..Len(photos) :
              /\ photos[i] = req[r].name
              /\ photos' \in Seq(Names) /\ Len(photos') = Len(photos) - 1
              /\ \A j \in 1..(Len(photos) - 1) :
                   photos'[j] = IF j < i THEN photos[j] ELSE photos[j + 1]
<1>1. photos \in Seq(Names) /\ DOMAIN photos = 1..Len(photos)
  BY LenProperties DEF PhotosTyped
<1>2. ASSUME NEW i \in DOMAIN photos, photos[i] = req[r].name, photos' = RemoveAt(photos, i)
      PROVE  /\ photos' \in Seq(Names) /\ Len(photos') = Len(photos) - 1
             /\ \A j \in 1..(Len(photos) - 1) :
                  photos'[j] = IF j < i THEN photos[j] ELSE photos[j + 1]
  BY <1>1, <1>2, RemoveAtEffect
<1>. QED  BY <1>1, <1>2 DEF DiscardPhoto

\* A marker is numbered, the newest of the tape and of the list.
LEMMA WriteMarkerEffect ==
  ASSUME ReqTyped, LogTyped, NEW r \in Requests, WriteMarker(r)
  PROVE  /\ nextMarker' = nextMarker + 1 /\ through' = through
         /\ tape' \in Seq(TapeRecord) /\ Len(tape') = Len(tape) + 1
         /\ \A i \in 1..Len(tape) : tape'[i] = tape[i]
         /\ tape'[Len(tape) + 1] = <<"mark", nextMarker, r>>
         /\ \E surplus \in Nat :
              /\ cases' \in Seq(CaseRecord) /\ Len(cases') <= MaxMarkers
              /\ Len(cases') = Len(cases) + 1 - surplus
              /\ \A i \in 1..Len(cases') :
                   /\ i + surplus \in 1..(Len(cases) + 1)
                   /\ cases'[i].n = IF i + surplus = Len(cases) + 1 THEN nextMarker
                                    ELSE cases[i + surplus].n
<1> DEFINE new == [n |-> nextMarker, photo |-> req[r].name, by |-> r]
           all == Append(cases, new)
           mark == <<"mark", nextMarker, r>>
<1>1. cases \in Seq(CaseRecord) /\ new \in CaseRecord /\ new.n = nextMarker
  BY DEF LogTyped, ReqTyped, RequestRecord, CaseRecord
<1>2. tape \in Seq(TapeRecord) /\ mark \in TapeRecord
  BY DEF LogTyped, TapeRecord
<1>3. /\ nextMarker' = nextMarker + 1 /\ through' = through
      /\ tape' = Append(tape, mark)
      /\ cases' = Newest(all, MaxMarkers) /\ MaxMarkers \in Nat \ {0}
  BY LimitsAssumption DEF LimitsAssumption, WriteMarker
<1> HIDE DEF mark, new
<1>4. /\ tape' \in Seq(TapeRecord) /\ Len(tape') = Len(tape) + 1
      /\ \A i \in 1..Len(tape) : tape'[i] = tape[i]
      /\ tape'[Len(tape) + 1] = mark
  BY <1>2, <1>3, AppendProperties
<1>5. /\ all \in Seq(CaseRecord) /\ Len(all) = Len(cases) + 1
      /\ \A i \in 1..Len(cases) : all[i] = cases[i]
      /\ all[Len(cases) + 1] = new
  BY <1>1, AppendProperties
<1> HIDE DEF all
<1>6. cases' \in Seq(CaseRecord) /\ Len(cases') <= MaxMarkers
  BY <1>5, <1>3, NewestEffect
<1>7. PICK surplus \in Nat :
        /\ Len(cases') = Len(all) - surplus
        /\ \A i \in 1..Len(cases') : /\ i + surplus \in 1..Len(all)
                                     /\ cases'[i] = all[i + surplus]
  <2> DEFINE kept == Newest(all, MaxMarkers)
  <2>1. all \in Seq(CaseRecord) /\ MaxMarkers \in Nat \ {0}
    BY <1>5, <1>3
  <2>2. \E n \in Nat :
          /\ Len(kept) = Len(all) - n
          /\ \A i \in 1..Len(kept) : i + n \in 1..Len(all) /\ kept[i] = all[i + n]
    BY <2>1, NewestEffect
  <2>3. cases' = kept
    BY <1>3
  <2> HIDE DEF kept
  <2>. QED  BY <2>2, <2>3
<1>8. /\ Len(cases') = Len(cases) + 1 - surplus
      /\ \A i \in 1..Len(cases') : /\ i + surplus \in 1..(Len(cases) + 1)
                                   /\ cases'[i] = all[i + surplus]
  BY <1>5, <1>7
<1>9. Len(cases) \in Nat
  BY <1>1, LenProperties
<1>10. ASSUME NEW i \in 1..Len(cases')
      PROVE  cases'[i].n = IF i + surplus = Len(cases) + 1 THEN nextMarker
                           ELSE cases[i + surplus].n
  <2>1. i + surplus # Len(cases) + 1 => i + surplus \in 1..Len(cases)
    BY <1>8, <1>9
  <2>. QED  BY <1>1, <1>5, <1>8, <2>1
<1>. QED  BY <1>3, <1>4, <1>6, <1>8, <1>10 DEF mark

\* The cases are in the order they were marked in, under numbers given already.
Ascending ==
  /\ \A i, j \in 1..Len(cases) : i < j => cases[i].n < cases[j].n
  /\ \A i \in 1..Len(cases) : 0 < cases[i].n /\ cases[i].n < nextMarker

LEMMA CasesTyped == LogTyped => /\ Len(cases) \in Nat /\ DOMAIN cases = 1..Len(cases)
                                /\ \A i \in 1..Len(cases) : cases[i].n \in Nat
<1> SUFFICES ASSUME LogTyped PROVE /\ Len(cases) \in Nat /\ DOMAIN cases = 1..Len(cases)
                                   /\ \A i \in 1..Len(cases) : cases[i].n \in Nat
  OBVIOUS
<1>1. cases \in Seq(CaseRecord)
  BY DEF LogTyped
<1>2. \A i \in 1..Len(cases) : cases[i] \in CaseRecord
  BY <1>1, ElementOfSeq
<1>3. \A i \in 1..Len(cases) : cases[i].n \in Nat
  BY <1>2 DEF CaseRecord
<1>. QED  BY <1>1, <1>3, LenProperties

\* An export holds listed cases, and its number is that of the newest.
LEMMA ExportEffect ==
  ASSUME LogTyped, Ascending, NEW onlyNew, Export(onlyNew)
  PROVE  /\ zip'.asked /\ zip'.newest \in Nat /\ zip'.newest < nextMarker
         /\ zip' \in [newest : Nat, cases : SUBSET Nat, asked : BOOLEAN]
         /\ \A i \in 1..Len(cases) :
              cases[i].n <= zip'.newest /\ cases[i].n > through => cases[i].n \in zip'.cases
<1> DEFINE listed == {cases[i].n : i \in DOMAIN cases}
           top == CHOOSE n \in listed : \A m \in listed : m <= n
           newest == IF listed = {} THEN 0 ELSE top
           chosen == IF onlyNew THEN {n \in listed : n > through} ELSE listed
<1>1. zip' = [asked |-> TRUE, newest |-> newest, cases |-> chosen]
  BY DEF Export
<1>2. listed \subseteq Nat /\ \A n \in listed : n < nextMarker
  BY CasesTyped DEF Ascending
<1>3. nextMarker \in Nat \ {0} /\ through \in Nat
  BY DEF LogTyped
<1>4. listed # {} => top \in listed
  <2> SUFFICES ASSUME listed # {} PROVE \E n \in listed : \A m \in listed : m <= n
    OBVIOUS
  <2>1. Len(cases) \in Nat /\ Len(cases) # 0 /\ Len(cases) \in 1..Len(cases)
    BY CasesTyped
  <2>2. \A i \in 1..Len(cases) : cases[i].n <= cases[Len(cases)].n
    <3> SUFFICES ASSUME NEW i \in 1..Len(cases) PROVE cases[i].n <= cases[Len(cases)].n
      OBVIOUS
    <3>1. CASE i = Len(cases)
      BY <2>1, <3>1, CasesTyped
    <3>2. CASE i < Len(cases)
      BY <2>1, <3>2, CasesTyped DEF Ascending
    <3>. QED  BY <2>1, <3>1, <3>2
  <2>3. cases[Len(cases)].n \in listed
    BY <2>1, CasesTyped
  <2>. QED  BY <2>2, <2>3, CasesTyped
<1>5. newest \in Nat /\ newest < nextMarker
  <2>1. CASE listed = {}
    BY <1>3, <2>1
  <2>2. CASE listed # {}
    <3> HIDE DEF listed, top
    <3>. QED  BY <1>2, <1>4, <2>2
  <2>. QED  BY <2>1, <2>2
<1>6. chosen \subseteq Nat
  BY <1>2
<1>7. \A i \in 1..Len(cases) : cases[i].n > through => cases[i].n \in chosen
  BY CasesTyped
<1> HIDE DEF newest, chosen
<1>. QED  BY <1>1, <1>5, <1>6, <1>7

-----------------------------------------------------------------------------
(* The requests *)

LEMMA ReqTypedStep ==
  ASSUME Typed, [Next]_vars PROVE ReqTyped'
<1> USE DEF ReqTyped, SwitchTyped, Typed
<1>t. /\ req \in [Requests -> RequestRecord] /\ generation \in Nat /\ enabled \in BOOLEAN
      /\ Len(tape) \in Nat
  BY LenProperties DEF LogTyped
<1>0. ASSUME UNCHANGED req PROVE ReqTyped'
  BY <1>0
<1>1. ASSUME NEW u \in Units, NEW decodes \in BOOLEAN, Frame(u, decodes) PROVE ReqTyped'
  <2>1. \A r \in Requests : Released(r) \in RequestRecord
    BY <1>t DEF RequestRecord, Released
  <2>2. \A r \in Requests : req'[r] \in {req[r], Released(r)}
    BY <1>1, Zenon DEF Frame
  <2>3. req' = [r \in Requests |-> req'[r]]
    BY <1>1 DEF Frame
  <2>. QED  BY <1>t, <2>1, <2>2, <2>3
<1>2. ASSUME req' = Stale PROVE ReqTyped'
  <2>1. \A r \in Requests : [req[r] EXCEPT !.stale = TRUE] \in RequestRecord
    BY <1>t DEF RequestRecord
  <2>2. \A r \in Requests : req'[r] \in {req[r], [req[r] EXCEPT !.stale = TRUE]}
    BY <1>2, Zenon DEF Stale
  <2>3. req' = [r \in Requests |-> req'[r]]
    BY <1>2 DEF Stale
  <2>. QED  BY <1>t, <2>1, <2>2, <2>3
<1>3. ASSUME NEW r \in Requests, CallDump(r) PROVE ReqTyped'
  <2> DEFINE new == [Idle EXCEPT !.pc = "waiting", !.gen = generation,
                                 !.from = Len(tape), !.on = enabled]
  <2>1. new \in RequestRecord
    BY <1>t, IdleTyped DEF RequestRecord, RequestPCs
  <2>2. req' = [req EXCEPT ![r] = new]
    BY <1>3 DEF CallDump
  <2> HIDE DEF new
  <2>. QED  BY <2>1, <2>2
<1>4. ASSUME NEW r \in Requests, PostPhoto(r) PROVE ReqTyped'
  <2> DEFINE new == [Idle EXCEPT !.pc = "body"]
  <2>1. new \in RequestRecord
    BY <1>t, IdleTyped DEF RequestRecord, RequestPCs
  <2>2. req' = [req EXCEPT ![r] = new]
    BY <1>4 DEF PostPhoto
  <2> HIDE DEF new
  <2>. QED  BY <2>1, <2>2
<1>5. ASSUME NEW r \in Requests, BodyRead(r) PROVE ReqTyped'
  <2> DEFINE from == Len(tape)
  <2>1. \/ req' = [req EXCEPT ![r].pc = "done"]
        \/ req' = [req EXCEPT ![r].pc = "saving", ![r].gen = generation,
                              ![r].from = from, ![r].on = enabled]
    BY <1>5 DEF BodyRead
  <2>2. from \in Nat
    BY <1>t
  <2> HIDE DEF from
  <2>3. CASE req' = [req EXCEPT ![r].pc = "done"]
    BY <1>t, <2>3 DEF RequestRecord, RequestPCs
  <2>4. CASE req' = [req EXCEPT ![r].pc = "saving", ![r].gen = generation,
                                ![r].from = from, ![r].on = enabled]
    <3> DEFINE new == [req[r] EXCEPT !.pc = "saving", !.gen = generation,
                                     !.from = from, !.on = enabled]
    <3>1. new \in RequestRecord
      BY <1>t, <2>2 DEF RequestRecord, RequestPCs
    <3>2. req' = [req EXCEPT ![r] = new]
      BY <1>t, <2>4
    <3> HIDE DEF new
    <3>. QED  BY <1>t, <3>1, <3>2
  <2>. QED  BY <2>1, <2>3, <2>4
<1>6. ASSUME NEW r \in Requests, NEW stem \in Stems, SavePhoto(r, stem) PROVE ReqTyped'
  <2> DEFINE name == FreeName(stem)
  <2>1. name \in Names
    BY SavedName
  <2>2. PICK pc \in {"waiting", "done"} : req' = [req EXCEPT ![r].pc = pc, ![r].name = name]
    BY <1>6 DEF SavePhoto
  <2> DEFINE new == [req[r] EXCEPT !.pc = pc, !.name = name]
  <2> HIDE DEF name
  <2>3. new \in RequestRecord
    BY <1>t, <2>1 DEF RequestRecord, RequestPCs
  <2>4. req' = [req EXCEPT ![r] = new]
    BY <1>t, <2>2
  <2> HIDE DEF new
  <2>. QED  BY <1>t, <2>3, <2>4
<1>7. ASSUME NEW r \in Requests, Mark(r) PROVE ReqTyped'
  <2> DEFINE new == [req[r] EXCEPT !.pc = "done", !.marked = TRUE]
  <2>1. new \in RequestRecord
    BY <1>t DEF RequestRecord, RequestPCs
  <2>2. req' = [req EXCEPT ![r] = new]
    BY <1>t, <1>7 DEF Mark
  <2> HIDE DEF new
  <2>. QED  BY <1>t, <2>1, <2>2
<1>8. ASSUME NEW r \in Requests, MarkRefused(r) PROVE ReqTyped'
  <2> DEFINE pc == IF r \in Uploads THEN "discarding" ELSE "done"
             new == Gone(pc, req[r].name, "no")
  <2>1. new \in RequestRecord
    <3>1. pc \in RequestPCs /\ req[r].name \in Names
      BY <1>t DEF RequestRecord, RequestPCs
    <3> HIDE DEF pc
    <3>. QED  BY <3>1, GoneIs
  <2>2. req' = [req EXCEPT ![r] = new]
    BY <1>8 DEF MarkRefused
  <2> HIDE DEF new
  <2>. QED  BY <1>t, <2>1, <2>2
<1>9. ASSUME NEW r \in Requests, DiscardPhoto(r) PROVE ReqTyped'
  <2> DEFINE new == [req[r] EXCEPT !.pc = "done"]
  <2>1. new \in RequestRecord
    BY <1>t DEF RequestRecord, RequestPCs
  <2>2. req' = [req EXCEPT ![r] = new]
    BY <1>t, <1>9 DEF DiscardPhoto
  <2> HIDE DEF new
  <2>. QED  BY <1>t, <2>1, <2>2
<1>11. ASSUME NEW r \in Requests, NEW stem \in Stems, SaveFails(r, stem) PROVE ReqTyped'
  <2> DEFINE name == FreeName(stem)
  <2>1. name \in Names
    BY SavedName
  <2>2. req' = [req EXCEPT ![r] = Gone("done", name, "failed")]
    BY <1>11 DEF SaveFails
  <2> HIDE DEF name
  <2>3. Gone("done", name, "failed") \in RequestRecord
    BY <2>1, GoneIs DEF RequestPCs
  <2>. QED  BY <1>t, <2>2, <2>3
<1>12. ASSUME NEW r \in Requests, Cancelled(r) PROVE ReqTyped'
  <2>1. PICK pc \in {"done", "abandoned"} :
          req' = [req EXCEPT ![r] = Gone(pc, req[r].name, "cancelled")]
    BY <1>12 DEF Cancelled
  <2>2. pc \in RequestPCs /\ req[r].name \in Names
    BY <1>t DEF RequestRecord, RequestPCs
  <2>3. Gone(pc, req[r].name, "cancelled") \in RequestRecord
    BY <2>2, GoneIs
  <2>. QED  BY <1>t, <2>1, <2>3
<1>13. CASE Restart
  <2> DEFINE over(r) == Gone("done", req[r].name, "cancelled")
  <2>1. \A r \in Requests : over(r) \in RequestRecord
    <3> SUFFICES ASSUME NEW r \in Requests PROVE over(r) \in RequestRecord
      OBVIOUS
    <3>1. "done" \in RequestPCs /\ req[r].name \in Names
      BY <1>t DEF RequestRecord, RequestPCs
    <3>. QED  BY <3>1, GoneIs
  <2>2. \A r \in Requests : req'[r] \in {req[r], over(r)}
    BY <1>13, Zenon DEF Restart
  <2>3. req' = [r \in Requests |-> req'[r]]
    BY <1>13 DEF Restart
  <2> HIDE DEF over
  <2>. QED  BY <1>t, <2>1, <2>2, <2>3
<1>10. ASSUME Delete \/ \E on \in BOOLEAN : SetRecording(on) PROVE ReqTyped'
  BY <1>0, <1>2, <1>10 DEF SetRecording, Delete
<1>. QED
  BY <1>0, <1>1, <1>3, <1>4, <1>5, <1>6, <1>7, <1>8, <1>9, <1>10,
     <1>11, <1>12, <1>13
  DEF Next, Step, vars, ClearPhotos, Forget, Export, Exported, ExportLost

LEMMA LogTypedStep == ASSUME Typed, [Next]_vars PROVE LogTyped'
<1>t. LogTyped /\ ReqTyped /\ ZipTyped
  BY DEF Typed
<1>0. ASSUME UNCHANGED log PROVE LogTyped'
  BY <1>0, <1>t DEF log, LogTyped
<1>1. ASSUME NEW u \in Units, NEW decodes \in BOOLEAN, Frame(u, decodes) PROVE LogTyped'
  <2> DEFINE new == <<"frame", u, decodes>>
  <2>1. new \in TapeRecord
    BY DEF TapeRecord
  <2>2. /\ tape' = tape \/ tape' = Append(tape, new)
        /\ UNCHANGED <<nextMarker, cases, through>>
    BY <1>1 DEF Frame
  <2> HIDE DEF new
  <2>3. tape' \in Seq(TapeRecord)
    BY <1>t, <2>1, <2>2, AppendProperties DEF LogTyped
  <2>. QED  BY <1>t, <2>2, <2>3 DEF LogTyped
<1>2. CASE Delete
  <2>1. /\ tape' = <<>> /\ cases' = <<>> /\ through' = nextMarker - 1
        /\ nextMarker' = nextMarker
    BY <1>2 DEF Delete
  <2>2. tape' \in Seq(TapeRecord) /\ cases' \in Seq(CaseRecord)
    BY <2>1, EmptySeq
  <2>3. through' \in Nat /\ nextMarker' \in Nat \ {0}
    BY <1>t, <2>1 DEF LogTyped
  <2>. QED  BY <2>2, <2>3 DEF LogTyped
<1>3. CASE Forget
  <2>1. cases' \in Seq(CaseRecord)
    BY <1>3, EmptySeq DEF Forget
  <2>. QED  BY <1>3, <1>t, <2>1 DEF Forget, LogTyped
<1>4. ASSUME NEW r \in Requests, Mark(r) PROVE LogTyped'
  <2>1. WriteMarker(r)
    BY <1>4 DEF Mark
  <2>2. /\ nextMarker' = nextMarker + 1 /\ through' = through
        /\ tape' \in Seq(TapeRecord) /\ cases' \in Seq(CaseRecord)
    BY <1>t, <2>1, WriteMarkerEffect
  <2>. QED  BY <1>t, <2>2 DEF LogTyped
<1>5. CASE Exported
  BY <1>5, <1>t DEF Exported, LogTyped, ZipTyped
<1>. QED
  BY <1>0, <1>1, <1>2, <1>3, <1>4, <1>5
  DEF Next, Step, vars, log, SetRecording, ClearPhotos, CallDump, PostPhoto, BodyRead,
      SavePhoto, SaveFails, MarkRefused, DiscardPhoto, Cancelled, Restart, Export,
      ExportLost

LEMMA PhotosTypedStep == ASSUME Typed, [Next]_vars PROVE PhotosTyped'
<1>t. PhotosTyped
  BY DEF Typed
<1>0. ASSUME UNCHANGED photos PROVE PhotosTyped'
  BY <1>0, <1>t DEF PhotosTyped
<1>1. CASE ClearPhotos
  BY <1>1, EmptySeq DEF ClearPhotos, PhotosTyped
<1>2. ASSUME NEW r \in Requests, NEW stem \in Stems, SavePhoto(r, stem) PROVE PhotosTyped'
  <2>1. Took(FreeName(stem))
    BY <1>2, <1>t, SavePhotoEffect
  <2>. QED  BY <2>1 DEF Took, PhotosTyped
<1>4. ASSUME NEW r \in Requests, NEW stem \in Stems, SaveFails(r, stem) PROVE PhotosTyped'
  <2>1. photos' = photos \/ Took(FreeName(stem))
    BY <1>4, <1>t, SaveFailsEffect
  <2>. QED  BY <1>0, <2>1 DEF Took, PhotosTyped
<1>3. ASSUME NEW r \in Requests, DiscardPhoto(r) PROVE PhotosTyped'
  BY <1>3, <1>t, DiscardPhotoEffect DEF PhotosTyped
<1>. QED
  BY <1>0, <1>1, <1>2, <1>3, <1>4
  DEF Next, Step, vars, Frame, SetRecording, Delete, Forget, CallDump, PostPhoto,
      BodyRead, Mark, MarkRefused, Cancelled, Restart, Export, Exported, ExportLost

LEMMA ZipTypedStep == ASSUME Typed, Ascending, [Next]_vars PROVE ZipTyped'
<1>t. ZipTyped /\ LogTyped
  BY DEF Typed
<1>0. ASSUME UNCHANGED <<zip, held>> PROVE ZipTyped'
  BY <1>0, <1>t DEF ZipTyped
<1>1. ASSUME NEW onlyNew \in BOOLEAN, Export(onlyNew) PROVE ZipTyped'
  <2>1. held' = held
    BY <1>1 DEF Export
  <2>2. zip' \in [newest : Nat, cases : SUBSET Nat, asked : BOOLEAN]
    BY <1>1, <1>t, ExportEffect
  <2>. QED  BY <1>t, <2>1, <2>2 DEF ZipTyped
<1>2. CASE Exported \/ ExportLost
  <2>1. zip' = NoZip /\ (held' = held \cup zip.cases \/ held' = held)
    BY <1>2 DEF Exported, ExportLost
  <2>2. NoZip \in [newest : Nat, cases : SUBSET Nat, asked : BOOLEAN]
    BY DEF NoZip
  <2>3. zip.cases \subseteq Nat /\ held \subseteq Nat
    BY <1>t DEF ZipTyped
  <2>4. held' \subseteq Nat
    BY <2>1, <2>3
  <2>. QED  BY <2>1, <2>2, <2>4 DEF ZipTyped
<1>. QED
  BY <1>0, <1>1, <1>2
  DEF Next, Step, vars, Frame, SetRecording, Delete, ClearPhotos, Forget, CallDump,
      PostPhoto, BodyRead, SavePhoto, SaveFails, DiscardPhoto, Mark, MarkRefused,
      Cancelled, Restart

\* The switch is bounded, and so are the generations it counts.
SwitchBounded == SwitchTyped /\ generation <= switches /\ switches <= MaxSwitches

LEMMA SwitchStep == ASSUME SwitchBounded, [Next]_vars PROVE SwitchBounded'
<1> USE SwitchesAssumption DEF SwitchBounded, SwitchTyped, SwitchesAssumption
<1>0. ASSUME UNCHANGED <<enabled, generation, switches, known, deleting>> PROVE SwitchBounded'
  BY <1>0
<1>1. ASSUME NEW u \in Units, NEW decodes \in BOOLEAN, Frame(u, decodes)
      PROVE  SwitchBounded'
  BY <1>1 DEF Frame
<1>2. ASSUME NEW on \in BOOLEAN, SetRecording(on) PROVE SwitchBounded'
  BY <1>2 DEF SetRecording
<1>4. CASE Restart
  <2>1. /\ switches < MaxSwitches /\ switches' = switches + 1 /\ enabled' = enabled
        /\ generation' = 0 /\ known' = {} /\ deleting' = 0
    BY <1>4 DEF Restart
  <2>. QED  BY <2>1
<1>3. CASE Delete \/ ClearPhotos \/ Forget
  BY <1>3 DEF Delete, ClearPhotos, Forget, counts
<1>. QED
  BY <1>0, <1>1, <1>2, <1>3, <1>4
  DEF Next, Step, vars, counts, CallDump, PostPhoto, BodyRead, SavePhoto, SaveFails,
      DiscardPhoto, Mark, MarkRefused, Cancelled, Export, Exported, ExportLost

-----------------------------------------------------------------------------
(* Where a request stands *)

\* A request that still waits and whose recording has ended holds another
\* generation than the present one.  While its generation is the present one the
\* tape has not shrunk since, and recording is on if it was on when it began to
\* wait.  A request that was cut short is over, but for its job.
Stage(r) ==
  /\ req[r].pc \notin Over => req[r].gen <= generation
  /\ r \in Dumps => req[r].pc \in {"idle", "waiting", "done"}
  /\ req[r].pc \in {"idle", "body"} =>
       ~req[r].stale /\ ~req[r].marked /\ ~req[r].released /\ req[r].ended = "no"
  /\ req[r].pc \in {"saving", "abandoned"} => ~req[r].marked /\ ~req[r].released
  /\ req[r].marked => req[r].pc = "done" /\ ~req[r].stale
  /\ req[r].pc \in {"saving", "waiting"} =>
       /\ req[r].stale => req[r].gen # generation
       /\ req[r].gen = generation => req[r].from <= Len(tape) /\ (req[r].on => enabled)
  /\ req[r].ended = "failed" => req[r].pc = "done"
  /\ req[r].pc = "abandoned" => req[r].ended = "cancelled"

Stages == \A r \in Requests : Stage(r)

LEMMA StagesInit == Init => Stages
BY DEF Init, Stages, Stage, Idle, Over

\* What a request stands for does not depend on the others.
LEMMA OtherStages ==
  ASSUME Typed, Stages, NEW r \in Requests, NEW new, req' = [req EXCEPT ![r] = new],
         UNCHANGED <<enabled, generation>>, Len(tape') \in Nat, Len(tape) <= Len(tape'),
         Stage(r)'
  PROVE  Stages'
<1> SUFFICES ASSUME NEW q \in Requests PROVE Stage(q)'
  BY DEF Stages
<1>1. CASE q = r
  BY <1>1
<1>2. CASE q # r
  <2>1. req'[q] = req[q] /\ req[q] \in RequestRecord
    BY <1>2 DEF Typed, ReqTyped
  <2>2. Stage(q)
    BY DEF Stages
  <2>3. req[q].from <= Len(tape) => req[q].from <= Len(tape')
    <3>1. Len(tape) \in Nat /\ req[q].from \in Nat
      BY <2>1, LenProperties DEF Typed, LogTyped, RequestRecord
    <3>. QED  BY <3>1
  <2>. QED  BY <2>1, <2>2, <2>3 DEF Stage
<1>. QED  BY <1>1, <1>2

\* The end of a recording makes the requests that wait in it stale.
LEMMA StaleStages ==
  ASSUME Typed, Stages, req' = Stale, generation' = generation + 1 PROVE Stages'
<1> SUFFICES ASSUME NEW r \in Requests PROVE Stage(r)'
  BY DEF Stages
<1>1. /\ req'[r] = IF req[r].pc \in {"saving", "waiting"}
                   THEN [req[r] EXCEPT !.stale = TRUE] ELSE req[r]
      /\ req[r] \in RequestRecord
  BY DEF Stale, Typed, ReqTyped
<1>2. Stage(r)
  BY DEF Stages
<1>3. generation \in Nat /\ req[r].gen \in Nat
  BY <1>1 DEF Typed, SwitchTyped, RequestRecord
<1>4. req[r].pc \notin Over => req'[r].gen < generation'
  BY <1>1, <1>2, <1>3 DEF Stage, RequestRecord
<1>5. /\ req'[r].pc = req[r].pc /\ req'[r].marked = req[r].marked
      /\ req'[r].released = req[r].released /\ req'[r].ended = req[r].ended
      /\ req[r].pc \notin {"saving", "waiting"} => req'[r].stale = req[r].stale
  BY <1>1 DEF RequestRecord
<1>6. req[r].pc \notin Over => req'[r].gen # generation' /\ req'[r].gen <= generation'
  BY <1>1, <1>3, <1>4 DEF RequestRecord
<1>. QED  BY <1>2, <1>5, <1>6 DEF Stage, Over

LEMMA StagesStep == ASSUME Typed, Stages, [Next]_vars PROVE Stages'
<1>t. /\ req \in [Requests -> RequestRecord] /\ generation \in Nat /\ enabled \in BOOLEAN
      /\ Len(tape) \in Nat
  BY LenProperties DEF Typed, ReqTyped, SwitchTyped, LogTyped
<1>d. Uploads \cap Dumps = {}
  BY RequestsAssumption DEF RequestsAssumption
<1>0. ASSUME UNCHANGED <<req, enabled, generation, tape>> PROVE Stages'
  BY <1>0 DEF Stages, Stage
<1>1. ASSUME NEW u \in Units, NEW decodes \in BOOLEAN, Frame(u, decodes) PROVE Stages'
  <2>0. UNCHANGED <<enabled, generation>>
    BY <1>1 DEF Frame
  <2>1. Len(tape') \in Nat /\ Len(tape) <= Len(tape')
    <3>1. tape \in Seq(TapeRecord) /\ <<"frame", u, decodes>> \in TapeRecord
      BY DEF Typed, LogTyped, TapeRecord
    <3>2. Len(Append(tape, <<"frame", u, decodes>>)) = Len(tape) + 1
      BY <3>1, AppendProperties
    <3>3. tape' = tape \/ tape' = Append(tape, <<"frame", u, decodes>>)
      BY <1>1 DEF Frame
    <3>. QED  BY <1>t, <3>2, <3>3
  <2> SUFFICES ASSUME NEW r \in Requests PROVE Stage(r)'
    BY DEF Stages
  <2>2. Stage(r) /\ req[r] \in RequestRecord
    BY <1>t DEF Stages
  <2>3. \/ req'[r] = req[r]
        \/ req[r].pc = "waiting" /\ req'[r] = Released(r)
    <3>1. req'[r] = IF decodes /\ Answers(u, r) THEN Released(r) ELSE req[r]
      BY <1>1 DEF Frame
    <3>2. Answers(u, r) => req[r].pc = "waiting"
      BY DEF Answers
    <3>. QED  BY <3>1, <3>2
  <2>4. req'[r].from <= Len(tape) => req'[r].from <= Len(tape')
    <3>1. req'[r].from \in Nat
      BY <2>2, <2>3 DEF RequestRecord, Released
    <3>. QED  BY <1>t, <2>1, <3>1
  <2>5. CASE req'[r] = req[r]
    BY <2>0, <2>2, <2>4, <2>5 DEF Stage
  <2>6. CASE req[r].pc = "waiting" /\ req'[r] = Released(r)
    <3>1. /\ req'[r].pc = "waiting" /\ req'[r].gen = req[r].gen /\ req'[r].stale = req[r].stale
          /\ req'[r].marked = req[r].marked /\ req'[r].on = req[r].on
          /\ req'[r].from = req[r].from /\ req'[r].ended = req[r].ended
      BY <2>2, <2>6 DEF RequestRecord, Released
    <3>. QED  BY <2>0, <2>2, <2>4, <2>6, <3>1 DEF Stage
  <2>. QED  BY <2>3, <2>5, <2>6
<1>2. CASE SetRecording(TRUE)
  <2>1. enabled' = TRUE /\ UNCHANGED <<req, generation, tape>>
    BY <1>2 DEF SetRecording, log
  <2>. QED  BY <2>1 DEF Stages, Stage
<1>3. CASE SetRecording(FALSE) \/ Delete
  <2>1. req' = Stale /\ generation' = generation + 1
    BY <1>3 DEF SetRecording, Delete
  <2>. QED  BY <2>1, StaleStages
<1>4. ASSUME NEW r \in Requests, NEW new, req' = [req EXCEPT ![r] = new],
             UNCHANGED <<enabled, generation, tape>>, Stage(r)'
      PROVE  Stages'
  <2>1. Len(tape') \in Nat /\ Len(tape) <= Len(tape') /\ UNCHANGED <<enabled, generation>>
    BY <1>t, <1>4
  <2>. QED  BY <1>4, <2>1, OtherStages
<1>5. ASSUME NEW r \in Requests, CallDump(r) PROVE Stages'
  <2> DEFINE new == [Idle EXCEPT !.pc = "waiting", !.gen = generation,
                                 !.from = Len(tape), !.on = enabled]
  <2>1. req' = [req EXCEPT ![r] = new] /\ UNCHANGED <<enabled, generation, tape>> /\ enabled
    BY <1>5 DEF CallDump, log
  <2>2. req'[r] = new
    BY <1>t, <2>1
  <2>3. Stage(r)'
    <3>1. /\ new.pc = "waiting" /\ new.gen = generation /\ new.from = Len(tape)
          /\ ~new.stale /\ ~new.marked /\ new.ended = "no"
      BY DEF Idle
    <3> HIDE DEF new
    <3>. QED  BY <1>t, <2>1, <2>2, <3>1 DEF Stage
  <2> HIDE DEF new
  <2>. QED  BY <2>1, <2>3, <1>4
<1>6. ASSUME NEW r \in Requests, PostPhoto(r) PROVE Stages'
  <2> DEFINE new == [Idle EXCEPT !.pc = "body"]
  <2>1. /\ req' = [req EXCEPT ![r] = new] /\ UNCHANGED <<enabled, generation, tape>>
        /\ r \notin Dumps
    BY <1>6, <1>d DEF PostPhoto, log
  <2>2. req'[r] = new
    BY <1>t, <2>1
  <2>3. Stage(r)'
    <3>1. /\ new.pc = "body" /\ new.gen = 0 /\ ~new.stale /\ ~new.marked /\ ~new.released
          /\ new.ended = "no"
      BY DEF Idle
    <3> HIDE DEF new
    <3>. QED  BY <1>t, <2>1, <2>2, <3>1 DEF Stage
  <2> HIDE DEF new
  <2>. QED  BY <2>1, <2>3, <1>4
<1>7. ASSUME NEW r \in Requests, BodyRead(r) PROVE Stages'
  <2>0. Stage(r) /\ req[r] \in RequestRecord /\ req[r].pc = "body"
    BY <1>t, <1>7 DEF Stages, BodyRead
  <2>1. UNCHANGED <<enabled, generation, tape>>
    BY <1>7 DEF BodyRead, log
  <2>2. CASE req' = [req EXCEPT ![r].pc = "done"]
    <3> DEFINE new == [req[r] EXCEPT !.pc = "done"]
    <3>1. req' = [req EXCEPT ![r] = new] /\ req'[r] = new
      BY <1>t, <2>2
    <3>2. /\ new.pc = "done" /\ new.gen = req[r].gen /\ new.marked = req[r].marked
          /\ new.stale = req[r].stale /\ new.ended = req[r].ended
      BY <2>0 DEF RequestRecord
    <3> HIDE DEF new
    <3>3. Stage(r)'
      BY <2>0, <2>1, <3>1, <3>2 DEF Stage, Over
    <3>. QED  BY <2>1, <3>1, <3>3, <1>4
  <2>3. CASE req' = [req EXCEPT ![r].pc = "saving", ![r].gen = generation,
                                ![r].from = Len(tape), ![r].on = enabled]
    <3> DEFINE new == [req[r] EXCEPT !.pc = "saving", !.gen = generation,
                                     !.from = Len(tape), !.on = enabled]
    <3>1. req' = [req EXCEPT ![r] = new] /\ req'[r] = new
      BY <1>t, <2>3
    <3>2. /\ new.pc = "saving" /\ new.gen = generation /\ new.marked = req[r].marked
          /\ new.stale = req[r].stale /\ new.released = req[r].released
          /\ new.from = Len(tape) /\ new.on = enabled /\ new.ended = req[r].ended
      BY <2>0 DEF RequestRecord
    <3>d. r \notin Dumps
      BY <2>0 DEF Stage
    <3> HIDE DEF new
    <3>3. Stage(r)'
      BY <1>t, <2>0, <2>1, <3>1, <3>2, <3>d DEF Stage
    <3>. QED  BY <2>1, <3>1, <3>3, <1>4
  <2>. QED  BY <1>7, <2>2, <2>3 DEF BodyRead
<1>8. ASSUME NEW r \in Requests, NEW stem \in Stems, SavePhoto(r, stem) PROVE Stages'
  <2> DEFINE name == FreeName(stem)
             pc == IF req[r].pc = "saving" THEN "waiting" ELSE "done"
             new == [req[r] EXCEPT !.pc = pc, !.name = name]
  <2>0. Stage(r) /\ req[r] \in RequestRecord /\ req[r].pc \in {"saving", "abandoned"}
    BY <1>t, <1>8 DEF Stages, SavePhoto
  <2>1. UNCHANGED <<enabled, generation, tape>>
    BY <1>8 DEF SavePhoto, log
  <2>2. req' = [req EXCEPT ![r] = new] /\ req'[r] = new
    BY <1>t, <1>8 DEF SavePhoto
  <2>p. (req[r].pc = "saving" /\ pc = "waiting") \/ pc = "done"
    BY <2>0
  <2> HIDE DEF name, pc
  <2>3. /\ new.pc = pc /\ new.gen = req[r].gen /\ new.marked = req[r].marked
        /\ new.stale = req[r].stale /\ new.from = req[r].from /\ new.on = req[r].on
        /\ new.ended = req[r].ended
    BY <2>0 DEF RequestRecord
  <2> HIDE DEF new
  <2>4. Stage(r)'
    BY <2>0, <2>1, <2>2, <2>3, <2>p DEF Stage, Over
  <2>. QED  BY <2>1, <2>2, <2>4, <1>4
<1>9. ASSUME NEW r \in Requests, Mark(r) PROVE Stages'
  <2> DEFINE new == [req[r] EXCEPT !.pc = "done", !.marked = TRUE]
  <2>0. Stage(r) /\ req[r] \in RequestRecord /\ req[r].pc = "waiting" /\ req[r].gen = generation
    BY <1>t, <1>9 DEF Stages, Mark, WaitIsOver, Refused
  <2>1. UNCHANGED <<enabled, generation>>
    BY <1>9 DEF Mark
  <2>2. req' = [req EXCEPT ![r] = new] /\ req'[r] = new
    BY <1>t, <1>9 DEF Mark
  <2>3. /\ new.pc = "done" /\ new.gen = req[r].gen /\ new.stale = req[r].stale
        /\ new.ended = req[r].ended
    BY <2>0 DEF RequestRecord
  <2>4. Len(tape') \in Nat /\ Len(tape) <= Len(tape')
    <3>1. WriteMarker(r)
      BY <1>9 DEF Mark
    <3>2. Len(tape') = Len(tape) + 1
      BY <3>1, WriteMarkerEffect DEF Typed
    <3>. QED  BY <1>t, <3>2
  <2> HIDE DEF new
  <2>5. Stage(r)'
    BY <1>t, <2>0, <2>1, <2>2, <2>3 DEF Stage, Over
  <2>. QED  BY <2>1, <2>2, <2>4, <2>5, OtherStages
<1>10. ASSUME NEW r \in Requests, DiscardPhoto(r) PROVE Stages'
  <2> DEFINE new == [req[r] EXCEPT !.pc = "done"]
  <2>0. Stage(r) /\ req[r] \in RequestRecord /\ req[r].pc = "discarding"
    BY <1>t, <1>10 DEF Stages, DiscardPhoto
  <2>1. UNCHANGED <<enabled, generation, tape>>
    BY <1>10 DEF DiscardPhoto, log
  <2>2. req' = [req EXCEPT ![r] = new] /\ req'[r] = new
    BY <1>t, <1>10 DEF DiscardPhoto
  <2>4. /\ new.pc = "done" /\ new.gen = req[r].gen /\ new.marked = req[r].marked
        /\ new.stale = req[r].stale /\ new.ended = req[r].ended
    BY <2>0 DEF RequestRecord
  <2> HIDE DEF new
  <2>5. Stage(r)'
    BY <2>0, <2>1, <2>2, <2>4 DEF Stage, Over
  <2>. QED  BY <2>1, <2>2, <2>5, <1>4
\* One that will not be marked any more.
<1>11. ASSUME NEW r \in Requests, NEW pc, NEW name, NEW how \in {"no", "failed", "cancelled"},
              UNCHANGED <<enabled, generation, tape>>,
              req' = [req EXCEPT ![r] = Gone(pc, name, how)],
              \/ pc = "done"
              \/ pc = "discarding" /\ r \notin Dumps /\ how = "no"
              \/ pc = "abandoned" /\ req[r].pc = "saving" /\ how = "cancelled"
       PROVE  Stages'
  <2> DEFINE new == Gone(pc, name, how)
  <2>0. Stage(r) /\ req[r] \in RequestRecord
    BY <1>t DEF Stages
  <2>1. /\ new.pc = pc /\ new.gen = 0 /\ new.marked = FALSE
        /\ new.stale = FALSE /\ new.released = FALSE /\ new.ended = how
    BY DEF Gone, Idle
  <2>2. req' = [req EXCEPT ![r] = new] /\ req'[r] = new
    BY <1>t, <1>11
  <2>3. generation' \in Nat
    BY <1>t, <1>11
  <2> HIDE DEF new
  <2>4. Stage(r)'
    BY <1>11, <2>0, <2>1, <2>2, <2>3 DEF Stage, Over
  <2>. QED  BY <1>11, <2>2, <2>4, <1>4
<1>15. ASSUME NEW r \in Requests, MarkRefused(r) PROVE Stages'
  <2> DEFINE pc == IF r \in Uploads THEN "discarding" ELSE "done"
  <2>1. /\ req' = [req EXCEPT ![r] = Gone(pc, req[r].name, "no")]
        /\ UNCHANGED <<enabled, generation, tape>>
    BY <1>15 DEF MarkRefused, log
  <2>2. pc = "done" \/ (pc = "discarding" /\ r \notin Dumps)
    BY <1>d
  <2> HIDE DEF pc
  <2>. QED  BY <2>1, <2>2, <1>11
<1>12. ASSUME NEW r \in Requests, NEW stem \in Stems, SaveFails(r, stem) PROVE Stages'
  <2> DEFINE name == FreeName(stem)
  <2>1. /\ req' = [req EXCEPT ![r] = Gone("done", name, "failed")]
        /\ UNCHANGED <<enabled, generation, tape>>
    BY <1>12 DEF SaveFails, log
  <2> HIDE DEF name
  <2>. QED  BY <2>1, <1>11
<1>13. ASSUME NEW r \in Requests, Cancelled(r) PROVE Stages'
  <2>1. PICK pc \in {"done", "abandoned"} :
          /\ req' = [req EXCEPT ![r] = Gone(pc, req[r].name, "cancelled")]
          /\ pc = "done" \/ req[r].pc = "saving"
    BY <1>13 DEF Cancelled
  <2>2. UNCHANGED <<enabled, generation, tape>>
    BY <1>13 DEF Cancelled, log
  <2>. QED  BY <2>1, <2>2, <1>11
<1>14. CASE Restart
  <2> SUFFICES ASSUME NEW r \in Requests PROVE Stage(r)'
    BY DEF Stages
  <2>1. Stage(r) /\ req[r] \in RequestRecord
    BY <1>t DEF Stages
  <2>2. req'[r] = IF req[r].pc \in Over THEN req[r]
                  ELSE Gone("done", req[r].name, "cancelled")
    BY <1>14 DEF Restart
  <2>3. CASE req[r].pc \in Over
    BY <2>1, <2>2, <2>3 DEF Stage, Over
  <2>4. CASE req[r].pc \notin Over
    <3>1. /\ req'[r].pc = "done" /\ req'[r].marked = FALSE
          /\ req'[r].stale = FALSE /\ req'[r].ended = "cancelled"
      BY <2>2, <2>4 DEF Gone, Idle
    <3>. QED  BY <2>1, <2>4, <3>1 DEF Stage, Over
  <2>. QED  BY <2>3, <2>4
<1>. QED
  BY <1>0, <1>1, <1>2, <1>3, <1>5, <1>6, <1>7, <1>8, <1>9, <1>10, <1>12, <1>13,
     <1>14, <1>15
  DEF Next, Step, vars, log, ClearPhotos, Forget, Export, Exported, ExportLost

-----------------------------------------------------------------------------
(* Numbered cases and their export *)

Below == through < nextMarker /\ zip.newest < nextMarker

\* What the card confirms next covers the listed cases up to its number.
ZipCovers ==
  zip.asked => \A i \in 1..Len(cases) :
                 cases[i].n <= zip.newest => cases[i].n \in held \cup zip.cases

HeldBelow == \A i \in 1..Len(cases) : cases[i].n <= through => cases[i].n \in held

Downloads == Ascending /\ Below /\ ZipCovers /\ HeldBelow

LEMMA DownloadsInit == Init => Downloads
<1> SUFFICES ASSUME Init PROVE Downloads
  OBVIOUS
<1>1. cases = <<>> /\ through = 0 /\ nextMarker = 1 /\ zip = NoZip
  BY DEF Init
<1>2. Len(cases) = 0
  BY <1>1, EmptySeq
<1>3. 1..Len(cases) = {}
  BY <1>2
<1>. QED  BY <1>1, <1>3 DEF Downloads, Ascending, Below, ZipCovers, HeldBelow, NoZip

LEMMA DownloadsStep == ASSUME Typed, Downloads, [Next]_vars PROVE Downloads'
<1>t. LogTyped /\ ReqTyped /\ through \in Nat /\ nextMarker \in Nat \ {0}
  BY DEF Typed, LogTyped
<1>z. zip.newest \in Nat /\ zip.cases \subseteq Nat /\ held \subseteq Nat
  BY DEF Typed, ZipTyped
<1>c. Len(cases) \in Nat /\ \A i \in 1..Len(cases) : cases[i].n \in Nat
  BY <1>t, CasesTyped
<1>0. ASSUME UNCHANGED <<cases, nextMarker, through, zip, held>> PROVE Downloads'
  BY <1>0 DEF Downloads, Ascending, Below, ZipCovers, HeldBelow
<1>1. ASSUME cases' = <<>>, nextMarker' = nextMarker, zip' = zip, held' = held,
             through' = through \/ through' = nextMarker - 1
      PROVE  Downloads'
  <2>1. Len(cases') = 0 /\ 1..Len(cases') = {}
    BY <1>1, EmptySeq
  <2>2. Ascending' /\ ZipCovers' /\ HeldBelow'
    BY <2>1 DEF Ascending, ZipCovers, HeldBelow
  <2>3. Below'
    BY <1>1, <1>t DEF Downloads, Below
  <2>. QED  BY <2>2, <2>3 DEF Downloads
<1>2. ASSUME NEW r \in Requests, Mark(r) PROVE Downloads'
  <2>1. WriteMarker(r) /\ zip' = zip /\ held' = held
    BY <1>2 DEF Mark
  <2>2. /\ nextMarker' = nextMarker + 1 /\ through' = through
        /\ \E surplus \in Nat :
              /\ cases' \in Seq(CaseRecord) /\ Len(cases') <= MaxMarkers
              /\ Len(cases') = Len(cases) + 1 - surplus
              /\ \A i \in 1..Len(cases') :
                   /\ i + surplus \in 1..(Len(cases) + 1)
                   /\ cases'[i].n = IF i + surplus = Len(cases) + 1 THEN nextMarker
                                    ELSE cases[i + surplus].n
    BY <1>t, <2>1, WriteMarkerEffect
  <2>3. PICK surplus \in Nat :
          /\ Len(cases') = Len(cases) + 1 - surplus
          /\ \A i \in 1..Len(cases') :
               /\ i + surplus \in 1..(Len(cases) + 1)
               /\ cases'[i].n = IF i + surplus = Len(cases) + 1 THEN nextMarker
                                ELSE cases[i + surplus].n
    BY <2>2
  <2>4. ASSUME NEW i \in 1..Len(cases')
        PROVE  \/ i = Len(cases') /\ cases'[i].n = nextMarker
               \/ /\ i < Len(cases') /\ i + surplus \in 1..Len(cases)
                  /\ cases'[i].n = cases[i + surplus].n
    BY <2>3, <1>c
  <2>5. \A i \in 1..Len(cases') : 0 < cases'[i].n /\ cases'[i].n < nextMarker'
    <3> SUFFICES ASSUME NEW i \in 1..Len(cases')
                 PROVE  0 < cases'[i].n /\ cases'[i].n < nextMarker'
      OBVIOUS
    <3>1. CASE cases'[i].n = nextMarker
      BY <2>2, <3>1, <1>t
    <3>2. CASE i + surplus \in 1..Len(cases) /\ cases'[i].n = cases[i + surplus].n
      BY <2>2, <3>2, <1>c, <1>t DEF Downloads, Ascending
    <3>. QED  BY <2>4, <3>1, <3>2
  <2>6. ASSUME NEW i \in 1..Len(cases'), NEW j \in 1..Len(cases'), i < j
        PROVE  cases'[i].n < cases'[j].n
    <3>1. Len(cases') \in Int
      BY <2>3, <1>c
    <3>2. /\ i + surplus \in 1..Len(cases) /\ cases'[i].n = cases[i + surplus].n
          /\ cases'[i].n < nextMarker
      BY <2>4, <2>6, <3>1, <1>c DEF Downloads, Ascending
    <3>3. CASE cases'[j].n = nextMarker
      BY <3>2, <3>3
    <3>4. CASE j + surplus \in 1..Len(cases) /\ cases'[j].n = cases[j + surplus].n
      <4>1. i + surplus < j + surplus
        BY <2>6
      <4>. QED  BY <3>2, <3>4, <4>1 DEF Downloads, Ascending
    <3>. QED  BY <2>4, <3>3, <3>4
  <2>7. \A i \in 1..Len(cases') : cases'[i].n <= through' => cases'[i].n \in held'
    <3> SUFFICES ASSUME NEW i \in 1..Len(cases'), cases'[i].n <= through'
                 PROVE  cases'[i].n \in held'
      OBVIOUS
    <3>1. cases'[i].n # nextMarker
      BY <2>2, <1>t DEF Downloads, Below
    <3>2. i + surplus \in 1..Len(cases) /\ cases'[i].n = cases[i + surplus].n
      BY <2>4, <3>1
    <3>. QED  BY <2>1, <2>2, <3>2 DEF Downloads, HeldBelow
  <2>8. ZipCovers'
    <3> SUFFICES ASSUME zip.asked, NEW i \in 1..Len(cases'), cases'[i].n <= zip.newest
                 PROVE  cases'[i].n \in held \cup zip.cases
      BY <2>1 DEF ZipCovers
    <3>1. cases'[i].n # nextMarker
      BY <1>t, <1>z DEF Downloads, Below
    <3>2. i + surplus \in 1..Len(cases) /\ cases'[i].n = cases[i + surplus].n
      BY <2>4, <3>1
    <3>. QED  BY <3>2 DEF Downloads, ZipCovers
  <2>9. Below'
    BY <2>1, <2>2, <1>t, <1>z DEF Downloads, Below
  <2>. QED  BY <2>5, <2>6, <2>7, <2>8, <2>9 DEF Downloads, Ascending, HeldBelow
<1>3. ASSUME NEW onlyNew \in BOOLEAN, Export(onlyNew) PROVE Downloads'
  <2>1. UNCHANGED <<cases, nextMarker, through, held>>
    BY <1>3 DEF Export, log
  <2>2. Ascending
    BY DEF Downloads
  <2>3. /\ zip'.newest < nextMarker
        /\ \A i \in 1..Len(cases) :
             cases[i].n <= zip'.newest /\ cases[i].n > through => cases[i].n \in zip'.cases
    BY <1>3, <1>t, <2>2, ExportEffect
  <2>4. ASSUME NEW i \in 1..Len(cases), cases[i].n <= zip'.newest
        PROVE  cases[i].n \in held \cup zip'.cases
    <3>1. CASE cases[i].n <= through
      BY <3>1 DEF Downloads, HeldBelow
    <3>2. CASE cases[i].n > through
      BY <2>3, <2>4, <3>2
    <3>. QED  BY <3>1, <3>2, <1>c, <1>t
  <2>5. ZipCovers'
    BY <2>1, <2>4 DEF ZipCovers
  <2>6. Ascending' /\ HeldBelow' /\ Below'
    BY <2>1, <2>3 DEF Downloads, Ascending, HeldBelow, Below
  <2>. QED  BY <2>5, <2>6 DEF Downloads
<1>4. CASE Exported
  <2>1. /\ zip.asked /\ zip' = NoZip /\ held' = held \cup zip.cases
        /\ UNCHANGED <<cases, nextMarker>>
        /\ through' = IF zip.newest > through THEN zip.newest ELSE through
    BY <1>4 DEF Exported
  <2>2. Below'
    BY <2>1, <1>t, <1>z DEF Downloads, Below, NoZip
  <2>3. ZipCovers' /\ Ascending'
    BY <2>1 DEF Downloads, ZipCovers, Ascending, NoZip
  <2>4. HeldBelow'
    BY <2>1, <1>t, <1>z, <1>c DEF Downloads, ZipCovers, HeldBelow
  <2>. QED  BY <2>2, <2>3, <2>4 DEF Downloads
<1>5. CASE ExportLost
  <2>1. zip' = NoZip /\ UNCHANGED <<cases, nextMarker, through, held>>
    BY <1>5 DEF ExportLost, log
  <2>2. Below'
    BY <2>1, <1>t DEF Downloads, Below, NoZip
  <2>3. ZipCovers' /\ Ascending' /\ HeldBelow'
    BY <2>1 DEF Downloads, ZipCovers, Ascending, HeldBelow, NoZip
  <2>. QED  BY <2>2, <2>3 DEF Downloads
<1>6. CASE Delete
  <2>1. cases' = <<>> /\ nextMarker' = nextMarker /\ zip' = zip /\ held' = held
        /\ through' = nextMarker - 1
    BY <1>6 DEF Delete
  <2>. QED  BY <2>1, <1>1
<1>7. CASE Forget
  <2>1. cases' = <<>> /\ nextMarker' = nextMarker /\ zip' = zip /\ held' = held
        /\ through' = through
    BY <1>7 DEF Forget
  <2>. QED  BY <2>1, <1>1
<1>. QED
  BY <1>0, <1>2, <1>3, <1>4, <1>5, <1>6, <1>7
  DEF Next, Step, vars, log, Frame, SetRecording, ClearPhotos, CallDump, PostPhoto,
      BodyRead, SavePhoto, SaveFails, MarkRefused, DiscardPhoto, Cancelled, Restart

-----------------------------------------------------------------------------
(* The moves of one request *)

\* All a step can do to a request, whoever takes it.
Moves(q) ==
  \/ req'[q] = req[q]
  \/ /\ \E u \in Units : Frame(u, TRUE) /\ Answers(u, q)
     /\ req[q].pc = "waiting" /\ req'[q] = Released(q)
  \/ req[q].pc \in {"saving", "waiting"} /\ req'[q] = [req[q] EXCEPT !.stale = TRUE]
  \/ /\ req[q].pc \in {"idle", "body", "saving", "abandoned"}
     /\ req'[q].pc \in {"body", "saving", "abandoned", "waiting", "done"}
     /\ ~req'[q].marked /\ ~req'[q].released
     /\ req'[q].ended = req[q].ended \/ req'[q].ended # "no"
  \/ Mark(q) /\ req'[q] = [req[q] EXCEPT !.pc = "done", !.marked = TRUE]
  \/ /\ req[q].pc = "waiting"
     /\ req'[q] = Gone(IF q \in Uploads THEN "discarding" ELSE "done", req[q].name, "no")
  \/ DiscardPhoto(q) /\ req'[q] = [req[q] EXCEPT !.pc = "done"]
  \/ /\ req[q].pc \in {"waiting", "discarding"}
     /\ req'[q] = Gone("done", req[q].name, "cancelled")

LEMMA OneMove ==
  ASSUME Typed, Stages, [Next]_vars, NEW q \in Requests PROVE Moves(q)
<1>t. /\ req \in [Requests -> RequestRecord] /\ req[q] \in RequestRecord
      /\ Stage(q)
  BY DEF Typed, ReqTyped, Stages
<1> USE DEF Moves
<1>0. ASSUME UNCHANGED req PROVE Moves(q)
  BY <1>0
<1>1. ASSUME NEW u \in Units, NEW decodes \in BOOLEAN, Frame(u, decodes) PROVE Moves(q)
  <2>1. req'[q] = IF decodes /\ Answers(u, q) THEN Released(q) ELSE req[q]
    BY <1>1 DEF Frame
  <2>2. Answers(u, q) => req[q].pc = "waiting"
    BY DEF Answers
  <2>3. CASE decodes /\ Answers(u, q)
    <3>1. Frame(u, TRUE)
      <4>1. decodes = TRUE
        BY <2>3
      <4>. QED  BY <1>1, <4>1
    <3>. QED  BY <2>1, <2>2, <2>3, <3>1
  <2>4. CASE ~(decodes /\ Answers(u, q))
    BY <2>1, <2>4
  <2>. QED  BY <2>3, <2>4
<1>2. ASSUME req' = Stale PROVE Moves(q)
  BY <1>2 DEF Stale
<1>3. ASSUME NEW r \in Requests, CallDump(r) \/ PostPhoto(r) PROVE Moves(q)
  <2>1. CASE q = r
    <3>1. /\ req[q].pc = "idle" /\ req'[q].pc \in {"body", "waiting"}
          /\ ~req'[q].marked /\ ~req'[q].released /\ req'[q].ended = "no"
      BY <1>3, <1>t, <2>1 DEF CallDump, PostPhoto, Idle
    <3>2. req[q].ended = "no"
      BY <3>1, <1>t DEF Stage
    <3>. QED  BY <3>1, <3>2
  <2>2. CASE q # r
    BY <1>3, <1>t, <2>2 DEF CallDump, PostPhoto
  <2>. QED  BY <2>1, <2>2
<1>4. ASSUME NEW r \in Requests, BodyRead(r) PROVE Moves(q)
  <2>1. CASE q = r
    <3>1. /\ req[q].pc = "body" /\ req'[q].pc \in {"saving", "done"}
          /\ req'[q].marked = req[q].marked /\ req'[q].released = req[q].released
          /\ req'[q].ended = req[q].ended
      BY <1>4, <1>t, <2>1 DEF BodyRead, RequestRecord
    <3>. QED  BY <1>t, <3>1 DEF Stage
  <2>2. CASE q # r
    BY <1>4, <1>t, <2>2 DEF BodyRead
  <2>. QED  BY <2>1, <2>2
<1>5. ASSUME NEW r \in Requests, NEW stem \in Stems, SavePhoto(r, stem) PROVE Moves(q)
  <2>1. CASE q = r
    <3>1. /\ req[q].pc \in {"saving", "abandoned"} /\ req'[q].pc \in {"waiting", "done"}
          /\ req'[q].marked = req[q].marked /\ req'[q].released = req[q].released
          /\ req'[q].ended = req[q].ended
      BY <1>5, <1>t, <2>1 DEF SavePhoto, RequestRecord
    <3>. QED  BY <1>t, <3>1 DEF Stage
  <2>2. CASE q # r
    BY <1>5, <1>t, <2>2 DEF SavePhoto
  <2>. QED  BY <2>1, <2>2
<1>6. ASSUME NEW r \in Requests, Mark(r) PROVE Moves(q)
  BY <1>6, <1>t DEF Mark
<1>7. ASSUME NEW r \in Requests, MarkRefused(r) PROVE Moves(q)
  BY <1>7, <1>t DEF MarkRefused, WaitIsOver
<1>8. ASSUME NEW r \in Requests, DiscardPhoto(r) PROVE Moves(q)
  <2>1. req' = [req EXCEPT ![r].pc = "done"]
    BY <1>8 DEF DiscardPhoto
  <2>. QED  BY <1>8, <1>t, <2>1
<1>9. ASSUME NEW r \in Requests, NEW stem \in Stems, SaveFails(r, stem) PROVE Moves(q)
  <2>1. CASE q = r
    <3>1. /\ req[q].pc \in {"saving", "abandoned"} /\ req'[q].pc = "done"
          /\ req'[q].marked = FALSE /\ req'[q].released = FALSE
          /\ req'[q].ended = "failed"
      BY <1>9, <1>t, <2>1 DEF SaveFails, Gone, Idle
    <3>. QED  BY <1>t, <3>1 DEF Stage, RequestRecord
  <2>2. CASE q # r
    BY <1>9, <1>t, <2>2 DEF SaveFails
  <2>. QED  BY <2>1, <2>2
\* One that is cut short is over, or was not waiting yet.
<1>10. ASSUME req[q].pc \notin Over, NEW pc \in {"done", "abandoned"},
              pc = "done" \/ req[q].pc = "saving",
              req'[q] = Gone(pc, req[q].name, "cancelled")
       PROVE  Moves(q)
  <2>1. CASE req[q].pc \in {"body", "saving", "abandoned"}
    <3>1. /\ req'[q].pc = pc /\ req'[q].ended = "cancelled"
          /\ req'[q].marked = FALSE /\ req'[q].released = FALSE
      BY <1>10 DEF Gone, Idle
    <3>. QED  BY <1>10, <1>t, <2>1, <3>1 DEF Stage, RequestRecord
  <2>2. CASE req[q].pc \in {"waiting", "discarding"}
    BY <1>10, <2>2
  <2>3. req[q].pc \in {"body", "saving", "abandoned", "waiting", "discarding"}
    BY <1>10, <1>t DEF RequestRecord, RequestPCs, Over
  <2>. QED  BY <2>1, <2>2, <2>3
<1>11. ASSUME NEW r \in Requests, Cancelled(r) PROVE Moves(q)
  <2>1. PICK pc \in {"done", "abandoned"} :
          /\ req' = [req EXCEPT ![r] = Gone(pc, req[r].name, "cancelled")]
          /\ pc = "done" \/ req[r].pc = "saving"
    BY <1>11 DEF Cancelled
  <2>2. req[r].pc \notin Over
    BY <1>11 DEF Cancelled, Over
  <2>3. CASE q = r
    <3>1. req'[q] = Gone(pc, req[q].name, "cancelled")
      BY <1>t, <2>1, <2>3
    <3>. QED  BY <2>1, <2>2, <2>3, <3>1, <1>10
  <2>4. CASE q # r
    BY <1>t, <2>1, <2>4
  <2>. QED  BY <2>3, <2>4
<1>12. CASE Restart
  <2>1. req'[q] = IF req[q].pc \in Over THEN req[q]
                  ELSE Gone("done", req[q].name, "cancelled")
    BY <1>12 DEF Restart
  <2>2. CASE req[q].pc \in Over
    BY <2>1, <2>2
  <2>3. CASE req[q].pc \notin Over
    <3> DEFINE pc == "done"
    <3>1. pc \in {"done", "abandoned"} /\ pc = "done"
          /\ req'[q] = Gone(pc, req[q].name, "cancelled")
      BY <2>1, <2>3
    <3> HIDE DEF pc
    <3>. QED  BY <2>3, <3>1, <1>10
  <2>. QED  BY <2>2, <2>3
<1>. QED
  BY <1>0, <1>1, <1>2, <1>3, <1>4, <1>5, <1>6, <1>7, <1>8, <1>9, <1>11, <1>12
  DEF Next, Step, vars, SetRecording, Delete, ClearPhotos, Forget, Export, Exported,
      ExportLost

\* A request that has been answered stays as it is.
LEMMA DoneStays ==
  ASSUME Typed, Stages, [Next]_vars, NEW q \in Requests, req[q].pc = "done"
  PROVE  req'[q] = req[q]
<1>1. Moves(q)
  BY OneMove
<1>. QED  BY <1>1 DEF Moves, Mark, WaitIsOver, DiscardPhoto

\* Only Mark makes a request a marked one.
LEMMA MarkedStays ==
  ASSUME Typed, Stages, [Next]_vars, NEW q \in Requests
  PROVE  req'[q].marked = req[q].marked \/ Mark(q)
<1>1. Moves(q) /\ req[q] \in RequestRecord /\ Stage(q)
  BY OneMove DEF Typed, ReqTyped, Stages
<1>2. req[q].pc \in {"idle", "body", "saving", "abandoned"} => req[q].marked = FALSE
  BY <1>1 DEF Stage, RequestRecord
<1>3. req' \in [Requests -> RequestRecord]
  BY ReqTypedStep DEF ReqTyped
<1>4. req'[q].marked \in BOOLEAN
  BY <1>3 DEF RequestRecord
<1>5. CASE \E new \in {Released(q), [req[q] EXCEPT !.stale = TRUE]} : req'[q] = new
  BY <1>1, <1>5 DEF Released, RequestRecord
<1>6. CASE \E pc \in RequestPCs : req'[q] = [req[q] EXCEPT !.pc = pc]
  BY <1>1, <1>6 DEF RequestRecord
<1>7. CASE \E pc \in RequestPCs, how \in {"no", "cancelled"} :
             req'[q] = Gone(pc, req[q].name, how) /\ req[q].pc \in {"waiting", "discarding"}
  BY <1>1, <1>7 DEF Gone, Idle, Stage, RequestRecord
<1>8. CASE req[q].pc \in {"idle", "body", "saving", "abandoned"} /\ ~req'[q].marked
  BY <1>2, <1>4, <1>8
<1>. QED  BY <1>1, <1>5, <1>6, <1>7, <1>8 DEF Moves, RequestPCs

-----------------------------------------------------------------------------
(* Marker numbers *)

Marked == {r \in Requests : req[r].marked}

\* As many numbers have been given as requests have marked.
Numbered == nextMarker = Cardinality(Marked) + 1

LEMMA NumberedInit == Init => Numbered
<1> SUFFICES ASSUME Init PROVE Numbered
  OBVIOUS
<1>1. Marked = {} /\ nextMarker = 1
  BY DEF Init, Marked, Idle
<1>. QED  BY <1>1, FS_EmptySet DEF Numbered

LEMMA NumberedStep == ASSUME Typed, Stages, Numbered, [Next]_vars PROVE Numbered'
<1>t. req \in [Requests -> RequestRecord]
  BY DEF Typed, ReqTyped
<1>f. IsFiniteSet(Marked) /\ Cardinality(Marked) \in Nat
  <2>1. IsFiniteSet(Requests) /\ Marked \subseteq Requests
    BY RequestsAssumption DEF RequestsAssumption, Marked
  <2>2. IsFiniteSet(Marked)
    BY <2>1, FS_Subset
  <2>. QED  BY <2>2, FS_CardinalityType
<1>1. ASSUME NEW r \in Requests, Mark(r) PROVE Numbered'
  <2>1. req[r].pc = "waiting" /\ req' = [req EXCEPT ![r].pc = "done", ![r].marked = TRUE]
    BY <1>1 DEF Mark, WaitIsOver
  <2>2. Stage(r)
    BY DEF Stages
  <2>3. ~req[r].marked
    BY <2>1, <2>2 DEF Stage
  <2>4. \A q \in Requests : req'[q].marked <=> req[q].marked \/ q = r
    BY <1>t, <2>1 DEF RequestRecord
  <2>5. Marked' = Marked \cup {r} /\ r \notin Marked
    BY <2>3, <2>4 DEF Marked
  <2>6. Cardinality(Marked \cup {r}) = Cardinality(Marked) + 1
    BY <1>f, <2>5, FS_AddElement
  <2>7. nextMarker' = nextMarker + 1
    BY <1>1 DEF Mark, WriteMarker
  <2>. QED  BY <2>5, <2>6, <2>7 DEF Numbered
<1>2. ASSUME \A r \in Requests : ~Mark(r) PROVE Numbered'
  <2>1. \A q \in Requests : req'[q].marked = req[q].marked
    BY <1>2, MarkedStays
  <2>2. Marked' = Marked
    BY <2>1 DEF Marked
  <2>3. nextMarker' = nextMarker
    BY <1>2 DEF Next, Step, vars, log, Frame, SetRecording, Delete, ClearPhotos, Forget,
                CallDump, PostPhoto, BodyRead, SavePhoto, SaveFails, MarkRefused,
                DiscardPhoto, Cancelled, Restart, Export, Exported, ExportLost
  <2>. QED  BY <2>2, <2>3 DEF Numbered
<1>. QED  BY <1>1, <1>2

-----------------------------------------------------------------------------
(* The photo folder *)

Distinct == \A i, j \in 1..Len(photos) : photos[i] = photos[j] => i = j

\* It marked, it has still to be answered, or it is over because it was cut short.
Holds(r) == \/ req[r].marked \/ req[r].pc \in {"waiting", "discarding"}
            \/ req[r].pc = "done" /\ req[r].ended # "no"
Kept(p) == \E r \in Uploads : req[r].name = p /\ Holds(r)

FolderFits == Len(photos) <= MaxPhotos + Cardinality(Failed)

Folder ==
  /\ FolderFits /\ Distinct
  /\ \A i \in 1..Len(photos) : Kept(photos[i])

LEMMA FolderInit == Init => Folder
<1> SUFFICES ASSUME Init PROVE Folder
  OBVIOUS
<1>1. Len(photos) = 0 /\ 1..Len(photos) = {}
  BY EmptySeq DEF Init
<1>2. IsFiniteSet(Failed)
  <2>1. IsFiniteSet(Requests) /\ Failed \subseteq Requests
    BY RequestsAssumption DEF RequestsAssumption, Failed, Requests
  <2>. QED  BY <2>1, FS_Subset
<1>3. Cardinality(Failed) \in Nat
  BY <1>2, FS_CardinalityType
<1>. QED  BY <1>1, <1>3, LimitsAssumption DEF Folder, FolderFits, Distinct, LimitsAssumption

\* An upload that has its photo goes on having it until its photo is discarded.
LEMMA KeptOn ==
  ASSUME Typed, Stages, [Next]_vars, NEW r \in Uploads, Holds(r), ~DiscardPhoto(r)
  PROVE  req'[r].name = req[r].name /\ Holds(r)'
<1>1. r \in Requests
  BY DEF Requests
<1>2. Moves(r) /\ req[r] \in RequestRecord /\ Stage(r)
  BY <1>1, OneMove DEF Typed, ReqTyped, Stages
<1>3. req[r].pc \in {"waiting", "discarding", "done"}
  BY <1>2 DEF Holds, Stage
<1>4. CASE req[r].pc = "done"
  <2>1. req'[r] = req[r]
    BY <1>1, <1>4, DoneStays
  <2>. QED  BY <2>1 DEF Holds
<1>5. CASE req'[r] = Released(r)
  BY <1>2, <1>5 DEF Released, Holds, RequestRecord
<1>10. CASE req'[r] = [req[r] EXCEPT !.stale = TRUE]
  BY <1>2, <1>10 DEF Holds, RequestRecord
<1>6. CASE req'[r] = Gone("done", req[r].name, "cancelled")
  BY <1>2, <1>6 DEF Holds, Gone, Idle
<1>7. CASE req'[r] = [req[r] EXCEPT !.pc = "done", !.marked = TRUE]
  BY <1>2, <1>7 DEF Holds, RequestRecord
<1>8. CASE req'[r] = Gone("discarding", req[r].name, "no")
  BY <1>2, <1>8 DEF Holds, Gone, Idle
<1>9. CASE req'[r] = req[r]
  BY <1>9 DEF Holds
<1>. QED  BY <1>2, <1>3, <1>4, <1>5, <1>6, <1>7, <1>8, <1>9, <1>10 DEF Moves

\* Only the upload it belongs to can take a photo's name away.
LEMMA KeptByOthers ==
  ASSUME Typed, Stages, [Next]_vars, NEW p, Kept(p),
         \A r \in Uploads : DiscardPhoto(r) => req[r].name # p
  PROVE  Kept(p)'
<1>1. PICK r \in Uploads : req[r].name = p /\ Holds(r)
  BY DEF Kept
<1>2. req'[r].name = req[r].name /\ Holds(r)'
  BY <1>1, KeptOn
<1>. QED  BY <1>1, <1>2 DEF Kept

\* A save that has failed stays a failed one, so the bound on the folder never
\* goes down; the one that fails now raises it by one.
LEMMA FailedStays ==
  ASSUME Typed, Stages, [Next]_vars
  PROVE  /\ IsFiniteSet(Failed) /\ IsFiniteSet(Failed') /\ Failed \subseteq Failed'
         /\ Cardinality(Failed) \in Nat /\ Cardinality(Failed') \in Nat
         /\ Cardinality(Failed) <= Cardinality(Failed')
<1>1. IsFiniteSet(Requests) /\ Failed \subseteq Requests /\ Failed' \subseteq Requests
  BY RequestsAssumption DEF RequestsAssumption, Failed, Requests
<1>2. ASSUME NEW r \in Uploads, req[r].ended = "failed" PROVE req'[r].ended = "failed"
  <2>1. r \in Requests
    BY DEF Requests
  <2>2. req[r].pc = "done"
    BY <1>2, <2>1 DEF Stages, Stage
  <2>. QED  BY <1>2, <2>1, <2>2, DoneStays
<1>3. Failed \subseteq Failed'
  BY <1>2 DEF Failed
<1>4. IsFiniteSet(Failed) /\ IsFiniteSet(Failed')
  BY <1>1, FS_Subset
<1>. QED  BY <1>3, <1>4, FS_Subset, FS_CardinalityType

LEMMA OneMoreFailed ==
  ASSUME Typed, Stages, [Next]_vars, NEW r \in Uploads, NEW stem, SaveFails(r, stem)
  PROVE  Cardinality(Failed) + 1 <= Cardinality(Failed')
<1>1. r \in Requests /\ req \in [Requests -> RequestRecord]
  BY DEF Requests, Typed, ReqTyped
<1>2. req[r].pc # "done"
  BY DEF SaveFails
<1>3. r \notin Failed
  BY <1>1, <1>2 DEF Failed, Stages, Stage
<1>4. r \in Failed'
  <2> DEFINE name == FreeName(stem)
  <2>1. req' = [req EXCEPT ![r] = Gone("done", name, "failed")]
    BY DEF SaveFails
  <2> HIDE DEF name
  <2>2. req'[r].ended = "failed"
    BY <1>1, <2>1 DEF Gone, Idle
  <2>. QED  BY <2>2 DEF Failed
<1>5. /\ IsFiniteSet(Failed) /\ IsFiniteSet(Failed') /\ Failed \cup {r} \subseteq Failed'
      /\ Cardinality(Failed) \in Nat /\ Cardinality(Failed') \in Nat
  BY <1>4, FailedStays
<1>6. Cardinality(Failed \cup {r}) = Cardinality(Failed) + 1
  BY <1>3, <1>5, FS_AddElement
<1>7. Cardinality(Failed \cup {r}) <= Cardinality(Failed')
  BY <1>5, FS_Subset
<1>. QED  BY <1>6, <1>7

LEMMA FolderStep == ASSUME Typed, Stages, Folder, [Next]_vars PROVE Folder'
<1>t. /\ PhotosTyped /\ req \in [Requests -> RequestRecord] /\ Len(photos) \in Nat
      /\ MaxPhotos \in Nat
  BY LenProperties, LimitsAssumption
  DEF Typed, ReqTyped, PhotosTyped, LimitsAssumption
<1>c. FolderFits /\ Cardinality(Failed) <= Cardinality(Failed')
      /\ Cardinality(Failed) \in Nat /\ Cardinality(Failed') \in Nat
  BY FailedStays DEF Folder
<1>0. ASSUME photos' = photos, \A r \in Requests : ~DiscardPhoto(r) PROVE Folder'
  <2>1. \A r \in Uploads : ~DiscardPhoto(r)
    BY <1>0 DEF Requests
  <2>2. \A i \in 1..Len(photos) : Kept(photos[i])'
    <3> SUFFICES ASSUME NEW i \in 1..Len(photos) PROVE Kept(photos[i])'
      OBVIOUS
    <3>p. PICK p : p = photos[i]
      OBVIOUS
    <3>1. Kept(p)
      BY <3>p DEF Folder
    <3>2. photos'[i] = p
      BY <1>0, <3>p
    <3>3. Kept(p)'
      BY <2>1, <3>1, KeptByOthers
    <3>. QED  BY <3>2, <3>3 DEF Kept
  <2>3. FolderFits'
    BY <1>0, <1>c, <1>t DEF FolderFits
  <2>. QED  BY <1>0, <2>2, <2>3 DEF Folder, Distinct
<1>1. CASE ClearPhotos
  <2>1. Len(photos') = 0 /\ 1..Len(photos') = {}
    BY <1>1, EmptySeq DEF ClearPhotos
  <2>2. FolderFits'
    BY <1>c, <1>t, <2>1 DEF FolderFits
  <2>. QED  BY <2>1, <2>2 DEF Folder, Distinct
<1>2. ASSUME NEW r \in Requests, NEW stem \in Stems, Took(FreeName(stem)),
             SavePhoto(r, stem) \/ SaveFails(r, stem), FolderFits'
      PROVE  Folder'
  <2> DEFINE name == FreeName(stem)
  <2>1. name \notin ToSet(photos)
    BY <1>t, SavedName
  <2>3. PICK surplus \in Nat :
           /\ Len(photos') = Len(photos) + 1 - surplus
           /\ \A i \in 1..Len(photos') :
                /\ i + surplus \in 1..(Len(photos) + 1)
                /\ photos'[i] = IF i + surplus = Len(photos) + 1 THEN name
                                ELSE photos[i + surplus]
    BY <1>2 DEF Took
  <2>4. \A i \in 1..Len(photos) : photos[i] # name
    BY <2>1, <1>t DEF ToSet, PhotosTyped
  <2>s. Stage(r) /\ req[r] \in RequestRecord /\ req[r].pc \in {"saving", "abandoned"}
    BY <1>2, <1>t DEF Stages, SavePhoto, SaveFails
  <2>u. r \in Uploads
    BY <2>s DEF Stage, Requests
  <2>5. req'[r].name = name /\ Holds(r)'
    <3>1. CASE SavePhoto(r, stem)
      <4>1. PICK pc \in {"waiting", "done"} :
              /\ req' = [req EXCEPT ![r].pc = pc, ![r].name = name]
              /\ pc = "waiting" \/ req[r].pc = "abandoned"
        BY <3>1 DEF SavePhoto
      <4> HIDE DEF name
      <4>2. req'[r].name = name /\ req'[r].pc = pc /\ req'[r].ended = req[r].ended
        BY <1>t, <2>s, <4>1 DEF RequestRecord
      <4>3. pc = "done" => req[r].ended # "no"
        BY <2>s, <4>1 DEF Stage
      <4>. QED  BY <4>1, <4>2, <4>3 DEF Holds
    <3>2. CASE SaveFails(r, stem)
      <4>1. req' = [req EXCEPT ![r] = Gone("done", name, "failed")]
        BY <3>2 DEF SaveFails
      <4> HIDE DEF name
      <4>2. req'[r].name = name /\ req'[r].pc = "done" /\ req'[r].ended = "failed"
        BY <1>t, <4>1 DEF Gone, Idle
      <4>. QED  BY <4>2 DEF Holds
    <3>. QED  BY <1>2, <3>1, <3>2
  <2>6. \A q \in Uploads : ~DiscardPhoto(q)
    <3> SUFFICES ASSUME NEW q \in Uploads, DiscardPhoto(q) PROVE FALSE
      OBVIOUS
    <3>1. q \in Requests /\ req[q].pc = "discarding"
      BY DEF DiscardPhoto, Requests
    <3>2. q # r
      BY <2>s, <3>1
    <3>3. req'[q] = req[q]
      BY <1>2, <1>t, <3>1, <3>2 DEF SavePhoto, SaveFails
    <3>4. req'[q].pc = "done"
      <4>1. req' = [req EXCEPT ![q].pc = "done"]
        BY DEF DiscardPhoto
      <4>. QED  BY <1>t, <3>1, <4>1 DEF RequestRecord
    <3>. QED  BY <3>1, <3>3, <3>4
  <2> HIDE DEF name
  <2>7. \A i \in 1..Len(photos') :
           \/ i + surplus = Len(photos) + 1 /\ photos'[i] = name
           \/ i + surplus \in 1..Len(photos) /\ photos'[i] = photos[i + surplus]
    BY <1>t, <2>3
  <2>8. Distinct'
    <3> SUFFICES ASSUME NEW i \in 1..Len(photos'), NEW j \in 1..Len(photos'),
                        photos'[i] = photos'[j]
                 PROVE  i = j
      BY DEF Distinct
    <3>1. i + surplus = j + surplus
      BY <1>t, <2>4, <2>7 DEF Folder, Distinct
    <3>. QED  BY <3>1
  <2>9. \A i \in 1..Len(photos') : Kept(photos[i])'
    <3> SUFFICES ASSUME NEW i \in 1..Len(photos') PROVE Kept(photos[i])'
      OBVIOUS
    <3>1. CASE photos'[i] = name
      BY <2>5, <2>u, <3>1 DEF Kept
    <3>2. CASE i + surplus \in 1..Len(photos) /\ photos'[i] = photos[i + surplus]
      <4>p. PICK p : p = photos[i + surplus]
        OBVIOUS
      <4>1. Kept(p)
        BY <3>2, <4>p DEF Folder
      <4>2. Kept(p)'
        BY <2>6, <4>1, KeptByOthers
      <4>3. photos'[i] = p
        BY <3>2, <4>p
      <4>. QED  BY <4>2, <4>3 DEF Kept
    <3>. QED  BY <2>7, <3>1, <3>2
  <2>. QED  BY <1>2, <2>8, <2>9 DEF Folder
<1>5. ASSUME NEW r \in Requests, NEW stem \in Stems, SavePhoto(r, stem) PROVE Folder'
  <2>1. Took(FreeName(stem)) /\ Len(photos') <= MaxPhotos /\ photos' \in Seq(Names)
    BY <1>t, <1>5, SavePhotoEffect DEF Took
  <2>2. Len(photos') \in Nat /\ Cardinality(Failed') \in Nat
    BY <2>1, LenProperties, FailedStays
  <2>3. FolderFits'
    BY <1>t, <2>1, <2>2 DEF FolderFits
  <2>. QED  BY <1>2, <1>5, <2>1, <2>3
<1>6. ASSUME NEW r \in Requests, NEW stem \in Stems, SaveFails(r, stem) PROVE Folder'
  <2>1. CASE photos' = photos
    <3>1. ASSUME NEW q \in Requests PROVE ~DiscardPhoto(q)
      <4> SUFFICES ASSUME DiscardPhoto(q) PROVE FALSE
        OBVIOUS
      <4>1. req[q].pc = "discarding" /\ req[r].pc # "discarding"
        BY <1>6 DEF DiscardPhoto, SaveFails
      <4>2. req'[q] = req[q]
        BY <1>6, <1>t, <4>1 DEF SaveFails
      <4>3. req'[q].pc = "done"
        <5>1. req' = [req EXCEPT ![q].pc = "done"]
          BY DEF DiscardPhoto
        <5>. QED  BY <1>t, <5>1 DEF RequestRecord
      <4>. QED  BY <4>1, <4>2, <4>3
    <3>. QED  BY <1>0, <2>1, <3>1
  <2>2. CASE Took(FreeName(stem))
    <3>1. r \in Uploads
      BY <1>6 DEF Stages, Stage, Requests, SaveFails
    <3>2. Cardinality(Failed) + 1 <= Cardinality(Failed')
      BY <1>6, <3>1, OneMoreFailed
    <3>3. photos' \in Seq(Names) /\ \E surplus \in Nat : Len(photos') = Len(photos) + 1 - surplus
      BY <2>2 DEF Took
    <3>4. Len(photos') \in Nat /\ Len(photos') <= Len(photos) + 1
      BY <1>t, <3>3, LenProperties
    <3>5. FolderFits'
      BY <1>t, <3>2, <3>4, FailedStays DEF Folder, FolderFits
    <3>. QED  BY <1>2, <1>6, <2>2, <3>5
  <2>. QED  BY <1>6, <1>t, <2>1, <2>2, SaveFailsEffect
<1>3. ASSUME NEW r \in Requests, DiscardPhoto(r) PROVE Folder'
  <2> DEFINE name == req[r].name
  <2>1. \A q \in Uploads : DiscardPhoto(q) => req[q].name = name
    <3> SUFFICES ASSUME NEW q \in Uploads, DiscardPhoto(q) PROVE q = r
      OBVIOUS
    <3>1. q \in Requests /\ req[q].pc = "discarding" /\ req'[q].pc = "done"
      BY <1>t DEF DiscardPhoto, Requests, RequestRecord
    <3>2. req' = [req EXCEPT ![r].pc = "done"]
      BY <1>3 DEF DiscardPhoto
    <3>3. q # r => req'[q] = req[q]
      BY <1>t, <3>1, <3>2
    <3>. QED  BY <3>1, <3>3
  <2>2. ASSUME NEW p, Kept(p), p # name PROVE Kept(p)'
    <3>1. \A q \in Uploads : DiscardPhoto(q) => req[q].name # p
      BY <2>1, <2>2
    <3>. QED  BY <2>2, <3>1, KeptByOthers
  <2>3. \/ photos' = photos /\ name \notin ToSet(photos)
        \/ \E i \in 1..Len(photos) :
              /\ photos[i] = name
              /\ photos' \in Seq(Names) /\ Len(photos') = Len(photos) - 1
              /\ \A j \in 1..(Len(photos) - 1) :
                   photos'[j] = IF j < i THEN photos[j] ELSE photos[j + 1]
    BY <1>t, <1>3, DiscardPhotoEffect
  <2> HIDE DEF name
  <2>4. ASSUME NEW i \in 1..Len(photos'), NEW k \in 1..Len(photos),
               photos'[i] = photos[k], photos[k] # name
        PROVE  Kept(photos[i])'
    <3>p. PICK p : p = photos[k]
      OBVIOUS
    <3>1. Kept(p) /\ p # name
      BY <2>4, <3>p DEF Folder
    <3>2. photos'[i] = p
      BY <2>4, <3>p
    <3>3. Kept(p)'
      BY <2>2, <3>1
    <3>. QED  BY <3>2, <3>3 DEF Kept
  <2>5. CASE photos' = photos /\ name \notin ToSet(photos)
    <3>1. \A k \in 1..Len(photos) : photos[k] # name
      BY <1>t, <2>5 DEF ToSet, PhotosTyped
    <3>2. \A i \in 1..Len(photos') : Kept(photos[i])'
      BY <2>4, <2>5, <3>1
    <3>3. FolderFits'
      BY <1>c, <1>t, <2>5 DEF FolderFits
    <3>. QED  BY <2>5, <3>2, <3>3 DEF Folder, Distinct
  <2>6. ASSUME NEW i \in 1..Len(photos), photos[i] = name,
               Len(photos') = Len(photos) - 1,
               \A j \in 1..(Len(photos) - 1) :
                  photos'[j] = IF j < i THEN photos[j] ELSE photos[j + 1]
        PROVE  Folder'
    <3> DEFINE from(j) == IF j < i THEN j ELSE j + 1
    <3>1. \A j \in 1..Len(photos') : /\ from(j) \in 1..Len(photos) /\ from(j) # i
                                    /\ photos'[j] = photos[from(j)]
      BY <1>t, <2>6
    <3>2. \A j, k \in 1..Len(photos') : from(j) = from(k) => j = k
      BY <1>t, <2>6
    <3> HIDE DEF from
    <3>3. Distinct'
      BY <3>1, <3>2 DEF Folder, Distinct
    <3>4. \A j \in 1..Len(photos') : photos[from(j)] # name
      BY <2>6, <3>1 DEF Folder, Distinct
    <3>5. \A j \in 1..Len(photos') : Kept(photos[j])'
      BY <2>4, <3>1, <3>4
    <3>6. FolderFits'
      BY <1>c, <1>t, <2>6 DEF FolderFits
    <3>. QED  BY <3>3, <3>5, <3>6 DEF Folder
  <2>. QED  BY <2>3, <2>5, <2>6
<1>4. photos' = photos \/ ClearPhotos
      \/ (\E r \in Requests, stem \in Stems : SavePhoto(r, stem) \/ SaveFails(r, stem))
      \/ \E r \in Requests : DiscardPhoto(r)
  BY DEF Next, Step, vars, Frame, SetRecording, Delete, Forget, CallDump, PostPhoto,
         BodyRead, Mark, MarkRefused, Cancelled, Restart, Export, Exported, ExportLost
<1>. QED  BY <1>0, <1>1, <1>3, <1>4, <1>5, <1>6

-----------------------------------------------------------------------------
(* The tape *)

\* Record j ends the wait of r: a decoded frame of its unit, after its tap.
EndsWait(r, j) ==
  /\ j > req[r].from
  /\ tape[j][1] = "frame" /\ tape[j][3] /\ WaitsFor[r] \in {tape[j][2], AnyUnit}

\* Its body came in, and the frame that ended its wait, while recording was off.
Excused(r) == req[r].off /\ ~req[r].on

\* The mark at i is of a request that is done, and says it waited for a frame
\* only behind that frame.
MarkBehind(i) ==
  tape[i][1] = "mark" =>
    /\ tape[i][3] \in Requests /\ req[tape[i][3]].pc = "done"
    /\ req[tape[i][3]].released /\ ~Excused(tape[i][3]) =>
         \E j \in 1..(i - 1) : EndsWait(tape[i][3], j)

\* The frame that released a wait is on the tape as long as its mark may follow.
Answered(r) ==
  req[r].pc = "waiting" /\ req[r].released /\ ~Excused(r) /\ req[r].gen = generation =>
    \E j \in 1..Len(tape) : EndsWait(r, j)

TapeInOrder ==
  /\ \A i \in 1..Len(tape) : MarkBehind(i)
  /\ \A r \in Requests : Answered(r)

LEMMA TapeInit == Init => TapeInOrder
<1> SUFFICES ASSUME Init PROVE TapeInOrder
  OBVIOUS
<1>1. Len(tape) = 0 /\ 1..Len(tape) = {} /\ \A r \in Requests : req[r] = Idle
  BY EmptySeq DEF Init
<1>. QED  BY <1>1 DEF TapeInOrder, Answered, Idle

TapeGoesOn == /\ Len(tape') \in Nat /\ Len(tape) <= Len(tape')
              /\ \A i \in 1..Len(tape) : tape'[i] = tape[i]

\* A tape that only grows keeps its marks in order.
LEMMA MarksStay ==
  ASSUME Typed, Stages, TapeInOrder, [Next]_vars, TapeGoesOn, NEW i \in 1..Len(tape)
  PROVE  MarkBehind(i)'
<1>1. MarkBehind(i) /\ tape'[i] = tape[i] /\ Len(tape) \in Nat
  BY LenProperties DEF TapeInOrder, TapeGoesOn, Typed, LogTyped
<1>2. SUFFICES ASSUME tape[i][1] = "mark"
               PROVE  /\ tape[i][3] \in Requests /\ req'[tape[i][3]].pc = "done"
                      /\ req'[tape[i][3]].released /\ ~Excused(tape[i][3])' =>
                           \E j \in 1..(i - 1) :
                             /\ j > req'[tape[i][3]].from
                             /\ tape'[j][1] = "frame" /\ tape'[j][3]
                             /\ WaitsFor[tape[i][3]] \in {tape'[j][2], AnyUnit}
  BY <1>1 DEF MarkBehind, EndsWait, Excused
<1>3. /\ tape[i][3] \in Requests /\ req[tape[i][3]].pc = "done"
      /\ req[tape[i][3]].released /\ ~Excused(tape[i][3]) =>
           \E j \in 1..(i - 1) : EndsWait(tape[i][3], j)
  BY <1>1, <1>2 DEF MarkBehind
<1>4. req'[tape[i][3]] = req[tape[i][3]]
  BY <1>3, DoneStays
<1>5. \A j \in 1..(i - 1) : tape'[j] = tape[j]
  BY <1>1 DEF TapeGoesOn
<1>. QED  BY <1>1, <1>3, <1>4, <1>5 DEF EndsWait, Excused

\* A released wait keeps its frame while its generation is the present one.
LEMMA AnswersStay ==
  ASSUME Typed, Stages, TapeInOrder, [Next]_vars, TapeGoesOn, generation' = generation,
         NEW r \in Requests, req'[r].pc = "waiting", req[r].pc = "waiting",
         req[r].released, ~Excused(r)', req'[r].gen = generation'
  PROVE  \E j \in 1..Len(tape') : EndsWait(r, j)'
<1>1. Moves(r) /\ req[r] \in RequestRecord /\ Len(tape) \in Nat
  BY OneMove, LenProperties DEF Typed, ReqTyped, LogTyped
<1>2. /\ req'[r].from = req[r].from /\ req'[r].on = req[r].on /\ req'[r].gen = req[r].gen
      /\ req'[r].off = req[r].off
  <2>1. CASE req'[r] = req[r]
    BY <2>1
  <2>2. CASE req'[r] = [req[r] EXCEPT !.stale = TRUE]
    BY <1>1, <2>2 DEF RequestRecord
  <2>3. CASE \E u \in Units : Answers(u, r)
    BY <2>3 DEF Answers
  <2>4. CASE req'[r].pc # "waiting"
    BY <2>4
  <2>5. req'[r] = [req[r] EXCEPT !.pc = "done", !.marked = TRUE] => req'[r].pc # "waiting"
    BY <1>1 DEF RequestRecord
  <2>6. req'[r] = [req[r] EXCEPT !.pc = "done"] => req'[r].pc # "waiting"
    BY <1>1 DEF RequestRecord
  <2>7. \A pc \in {"done", "discarding"}, how \in {"no", "cancelled"} :
          req'[r] = Gone(pc, req[r].name, how) => req'[r].pc # "waiting"
    BY DEF Gone, Idle
  <2>. QED  BY <1>1, <2>1, <2>2, <2>3, <2>4, <2>5, <2>6, <2>7 DEF Moves
<1>3. Answered(r)
  BY DEF TapeInOrder
<1>4. PICK j \in 1..Len(tape) : EndsWait(r, j)
  BY <1>2, <1>3 DEF Answered, Excused
<1>5. j \in 1..Len(tape') /\ tape'[j] = tape[j]
  BY <1>1 DEF TapeGoesOn
<1>6. EndsWait(r, j)'
  BY <1>2, <1>4, <1>5 DEF EndsWait
<1>. QED  BY <1>5, <1>6

LEMMA TapeStep == ASSUME Typed, Stages, TapeInOrder, [Next]_vars PROVE TapeInOrder'
<1>t. /\ ReqTyped /\ LogTyped /\ tape \in Seq(TapeRecord) /\ Len(tape) \in Nat
      /\ req \in [Requests -> RequestRecord]
  BY LenProperties DEF Typed, ReqTyped, LogTyped
<1>r. req' \in [Requests -> RequestRecord] /\ generation \in Nat
  BY ReqTypedStep DEF ReqTyped, Typed, SwitchTyped
\* A wait that is released after the step was so before, or a frame released it.
<1>w. ASSUME NEW r \in Requests, req'[r].pc = "waiting", req'[r].released
      PROVE  /\ req[r].pc = "waiting"
             /\ \/ req[r].released
                \/ /\ \E u \in Units : Frame(u, TRUE) /\ Answers(u, r)
                   /\ req'[r] = Released(r)
  <2>1. Moves(r) /\ req[r] \in RequestRecord /\ Stage(r)
    BY OneMove, <1>t DEF Stages
  <2>2. \A pc \in {"done", "discarding"}, how \in {"no", "cancelled"} :
          req'[r] = Gone(pc, req[r].name, how) => req'[r].pc # "waiting"
    BY DEF Gone, Idle
  <2>3. /\ req'[r] = [req[r] EXCEPT !.pc = "done", !.marked = TRUE] => req'[r].pc # "waiting"
        /\ req'[r] = [req[r] EXCEPT !.pc = "done"] => req'[r].pc # "waiting"
    BY <2>1 DEF RequestRecord
  <2>4. req'[r] = [req[r] EXCEPT !.stale = TRUE] =>
          req'[r].pc = req[r].pc /\ req'[r].released = req[r].released
    BY <2>1 DEF RequestRecord
  <2>. QED  BY <1>w, <2>1, <2>2, <2>3, <2>4 DEF Moves
\* The step leaves the recording going on, and no frame releases anyone.
<1>0. ASSUME TapeGoesOn, generation' = generation,
             \A u \in Units : ~Frame(u, TRUE),
             \A i \in 1..Len(tape') : i \in 1..Len(tape) \/ MarkBehind(i)'
      PROVE  TapeInOrder'
  <2>1. \A i \in 1..Len(tape') : MarkBehind(i)'
    BY <1>0, MarksStay
  <2>2. ASSUME NEW r \in Requests, req'[r].pc = "waiting", req'[r].released,
               ~Excused(r)', req'[r].gen = generation'
        PROVE  \E j \in 1..Len(tape') : EndsWait(r, j)'
    <3>1. req[r].pc = "waiting" /\ req[r].released
      BY <1>0, <1>w, <2>2
    <3>. QED  BY <1>0, <2>2, <3>1, AnswersStay
  <2>3. \A r \in Requests : Answered(r)'
    BY <2>2 DEF Answered
  <2>. QED  BY <2>1, <2>3 DEF TapeInOrder
<1>s. ASSUME UNCHANGED <<tape, generation>>, \A u \in Units : ~Frame(u, TRUE)
      PROVE  TapeInOrder'
  <2>1. TapeGoesOn
    BY <1>s, <1>t DEF TapeGoesOn
  <2>2. \A i \in 1..Len(tape') : i \in 1..Len(tape)
    BY <1>s
  <2>. QED  BY <1>0, <1>s, <2>1, <2>2
<1>1. ASSUME NEW u \in Units, NEW decodes \in BOOLEAN, Frame(u, decodes) PROVE TapeInOrder'
  <2> DEFINE new == <<"frame", u, decodes>>
  <2>0. generation' = generation
    BY <1>1 DEF Frame
  <2>1. tape' = IF enabled THEN Append(tape, new) ELSE tape
    BY <1>1 DEF Frame
  <2>2. new[1] # "mark" /\ new \in TapeRecord
    BY DEF TapeRecord
  <2> HIDE DEF new
  <2>3. /\ Len(Append(tape, new)) = Len(tape) + 1
        /\ \A i \in 1..Len(tape) : Append(tape, new)[i] = tape[i]
        /\ Append(tape, new)[Len(tape) + 1] = new
    BY <1>t, <2>2, AppendProperties
  <2>4. TapeGoesOn
    BY <1>t, <2>1, <2>3 DEF TapeGoesOn
  <2>5. ASSUME NEW i \in 1..Len(tape') PROVE i \in 1..Len(tape) \/ tape'[i][1] # "mark"
    BY <1>t, <2>1, <2>2, <2>3
  <2>6. \A i \in 1..Len(tape') : i \in 1..Len(tape) \/ MarkBehind(i)'
    BY <2>5 DEF MarkBehind
  <2>7. \A i \in 1..Len(tape') : MarkBehind(i)'
    BY <2>4, <2>6, MarksStay
  <2>8. ASSUME NEW r \in Requests, req'[r].pc = "waiting", req'[r].released,
               ~Excused(r)', req'[r].gen = generation'
        PROVE  \E j \in 1..Len(tape') : EndsWait(r, j)'
    <3>1. CASE req[r].pc = "waiting" /\ req[r].released
      BY <2>0, <2>4, <2>8, <3>1, AnswersStay
    <3>2. CASE ~req[r].released
      <4>1. PICK v \in Units : Frame(v, TRUE) /\ Answers(v, r)
        BY <1>w, <2>8, <3>2
      <4>2. /\ req[r].pc = "waiting" /\ req'[r] = Released(r)
            /\ WaitsFor[r] \in {v, AnyUnit}
        BY <1>w, <2>8, <3>2, <4>1 DEF Answers
      <4>3. req[r] \in RequestRecord /\ Stage(r)
        BY <1>t DEF Stages
      <4>4. /\ req'[r].from = req[r].from /\ req'[r].on = req[r].on
            /\ req'[r].gen = req[r].gen /\ req'[r].off = ~enabled
        BY <4>2, <4>3 DEF Released, RequestRecord
      <4>5. enabled /\ req[r].from <= Len(tape) /\ req[r].from \in Nat
        BY <2>0, <2>8, <4>2, <4>3, <4>4 DEF Stage, Excused, RequestRecord
      <4> DEFINE answer == <<"frame", v, TRUE>>
      <4>6. tape' = Append(tape, answer)
        BY <4>1, <4>5 DEF Frame
      <4>7. /\ answer[1] = "frame" /\ answer[2] = v /\ answer[3] = TRUE
            /\ answer \in TapeRecord
        BY DEF TapeRecord
      <4> HIDE DEF answer
      <4>8. Len(tape') = Len(tape) + 1 /\ tape'[Len(tape) + 1] = answer
        BY <1>t, <4>6, <4>7, AppendProperties
      <4>9. PICK j : j = Len(tape) + 1
        OBVIOUS
      <4>10. j \in 1..Len(tape') /\ tape'[j] = answer /\ j > req'[r].from
        BY <1>t, <4>4, <4>5, <4>8, <4>9
      <4>11. EndsWait(r, j)'
        BY <4>2, <4>7, <4>10 DEF EndsWait
      <4>. QED  BY <4>10, <4>11
    <3>. QED  BY <1>w, <2>8, <3>1, <3>2
  <2>9. \A r \in Requests : Answered(r)'
    BY <2>8 DEF Answered
  <2>. QED  BY <2>7, <2>9 DEF TapeInOrder
<1>2. CASE Delete \/ SetRecording(FALSE)
  <2>1. generation' = generation + 1 /\ req' = Stale
    BY <1>2 DEF Delete, SetRecording
  <2>2. ASSUME NEW r \in Requests PROVE Answered(r)'
    <3>0. SUFFICES ASSUME req'[r].pc = "waiting" PROVE Answered(r)'
      BY DEF Answered
    <3>1. req'[r].gen = req[r].gen /\ req[r].gen <= generation /\ req[r].gen \in Nat
      <4>1. req[r] \in RequestRecord /\ Stage(r)
        BY <1>t DEF Stages
      <4>2. req'[r] = IF req[r].pc \in {"saving", "waiting"}
                      THEN [req[r] EXCEPT !.stale = TRUE] ELSE req[r]
        BY <2>1 DEF Stale
      <4>3. req'[r].pc = req[r].pc /\ req[r].pc \notin Over
        BY <3>0, <4>1, <4>2 DEF RequestRecord, Over
      <4>. QED  BY <4>1, <4>2, <4>3 DEF Stage, RequestRecord
    <3>2. req'[r].gen # generation'
      BY <1>r, <2>1, <3>1
    <3>. QED  BY <3>2 DEF Answered
  <2>3. CASE Delete
    <3>1. Len(tape') = 0 /\ 1..Len(tape') = {}
      BY <2>3, EmptySeq DEF Delete
    <3>. QED  BY <2>2, <3>1 DEF TapeInOrder
  <2>4. CASE SetRecording(FALSE)
    <3>1. tape' = tape
      BY <2>4 DEF SetRecording, log
    <3>2. TapeGoesOn
      BY <1>t, <3>1 DEF TapeGoesOn
    <3>3. \A i \in 1..Len(tape') : MarkBehind(i)'
      BY <3>1, <3>2, MarksStay
    <3>. QED  BY <2>2, <3>3 DEF TapeInOrder
  <2>. QED  BY <1>2, <2>3, <2>4
<1>3. ASSUME NEW r \in Requests, Mark(r) PROVE TapeInOrder'
  <2>0. WriteMarker(r) /\ generation' = generation /\ \A u \in Units : ~Frame(u, TRUE)
    <3>1. WriteMarker(r) /\ generation' = generation /\ nextMarker' = nextMarker + 1
      BY <1>3 DEF Mark, WriteMarker
    <3>2. nextMarker' # nextMarker
      BY <1>t, <3>1 DEF LogTyped
    <3>. QED  BY <3>1, <3>2 DEF Frame
  <2>1. /\ Len(tape') = Len(tape) + 1
        /\ \A i \in 1..Len(tape) : tape'[i] = tape[i]
        /\ tape'[Len(tape) + 1] = <<"mark", nextMarker, r>>
    BY <1>t, <2>0, WriteMarkerEffect
  <2>2. TapeGoesOn
    BY <1>t, <2>1 DEF TapeGoesOn
  <2>3. /\ req[r] \in RequestRecord /\ req[r].pc = "waiting" /\ req[r].gen = generation
        /\ req' = [req EXCEPT ![r].pc = "done", ![r].marked = TRUE]
    BY <1>3, <1>t DEF Mark, WaitIsOver, Refused
  <2>4. /\ req'[r].pc = "done" /\ req'[r].released = req[r].released
        /\ req'[r].on = req[r].on /\ req'[r].from = req[r].from
        /\ req'[r].off = req[r].off
    BY <1>t, <2>3 DEF RequestRecord
  <2>5. PICK i : i = Len(tape) + 1
    OBVIOUS
  <2>6. tape'[i][3] = r
    BY <2>1, <2>5
  <2>7. req[r].released /\ ~Excused(r) => \E j \in 1..(i - 1) : EndsWait(r, j)'
    <3>1. SUFFICES ASSUME req[r].released, ~Excused(r)
                   PROVE  \E j \in 1..(i - 1) : EndsWait(r, j)'
      OBVIOUS
    <3>2. PICK j \in 1..Len(tape) : EndsWait(r, j)
      BY <2>3, <3>1 DEF TapeInOrder, Answered
    <3>3. j \in 1..(i - 1) /\ tape'[j] = tape[j]
      BY <1>t, <2>1, <2>5
    <3>4. EndsWait(r, j)'
      BY <2>4, <3>2, <3>3 DEF EndsWait
    <3>. QED  BY <3>3, <3>4
  <2>8. MarkBehind(i)'
    BY <2>4, <2>6, <2>7 DEF MarkBehind, Excused
  <2>9. \A k \in 1..Len(tape') : k \in 1..Len(tape) \/ k = i
    BY <1>t, <2>1, <2>5
  <2>10. \A k \in 1..Len(tape') : k \in 1..Len(tape) \/ MarkBehind(k)'
    BY <2>8, <2>9
  <2>. QED  BY <1>0, <2>0, <2>2, <2>10
<1>5. CASE Restart
  <2>1. tape' = tape
    BY <1>5 DEF Restart, log
  <2>2. TapeGoesOn
    BY <1>t, <2>1 DEF TapeGoesOn
  <2>3. \A i \in 1..Len(tape') : MarkBehind(i)'
    BY <2>1, <2>2, MarksStay
  <2>4. ASSUME NEW r \in Requests PROVE Answered(r)'
    <3>1. req'[r] = IF req[r].pc \in Over THEN req[r]
                    ELSE Gone("done", req[r].name, "cancelled")
      BY <1>5 DEF Restart
    <3>2. req'[r].pc # "waiting"
      BY <1>t, <3>1 DEF Over, Gone, Idle
    <3>. QED  BY <3>2 DEF Answered
  <2>. QED  BY <2>3, <2>4 DEF TapeInOrder
<1>4. \/ UNCHANGED <<tape, generation>>
      \/ \E u \in Units, decodes \in BOOLEAN : Frame(u, decodes)
      \/ Delete \/ SetRecording(FALSE) \/ Restart
      \/ \E r \in Requests : Mark(r)
  <2>1. SetRecording(TRUE) => UNCHANGED <<tape, generation>>
    BY DEF SetRecording, log
  <2>. QED
    BY <2>1
    DEF Next, Step, vars, log, ClearPhotos, Forget, CallDump, PostPhoto,
        BodyRead, SavePhoto, SaveFails, MarkRefused, DiscardPhoto, Cancelled, Export,
        Exported, ExportLost
<1>. QED  BY <1>s, <1>1, <1>2, <1>3, <1>4, <1>5

-----------------------------------------------------------------------------
(* The inductive invariant *)

ListFits == Len(cases) <= MaxMarkers

LEMMA ListFitsStep == ASSUME Typed, ListFits, [Next]_vars PROVE ListFits'
<1>t. LogTyped /\ ReqTyped /\ MaxMarkers \in Nat
  BY LimitsAssumption DEF Typed, LimitsAssumption
<1>0. ASSUME cases' = cases PROVE ListFits'
  BY <1>0 DEF ListFits
<1>1. ASSUME cases' = <<>> PROVE ListFits'
  BY <1>1, <1>t, EmptySeq DEF ListFits
<1>2. ASSUME NEW r \in Requests, Mark(r) PROVE ListFits'
  <2>1. WriteMarker(r)
    BY <1>2 DEF Mark
  <2>2. Len(cases') <= MaxMarkers
    BY <1>t, <2>1, WriteMarkerEffect
  <2>. QED  BY <2>2 DEF ListFits
<1>. QED
  BY <1>0, <1>1, <1>2
  DEF Next, Step, vars, log, Frame, SetRecording, Delete, ClearPhotos, Forget, CallDump,
      PostPhoto, BodyRead, SavePhoto, SaveFails, MarkRefused, DiscardPhoto, Cancelled,
      Restart, Export, Exported, ExportLost

RecordingInv ==
  /\ Typed /\ SwitchBounded
  /\ Stages /\ Numbered /\ ListFits
  /\ Downloads
  /\ Folder
  /\ TapeInOrder

LEMMA RecordingInvInit == Init => RecordingInv
<1> SUFFICES ASSUME Init PROVE RecordingInv
  OBVIOUS
<1>1. ReqTyped
  BY IdleTyped DEF Init, ReqTyped
<1>2. SwitchTyped /\ SwitchBounded
  <2>1. enabled \in BOOLEAN /\ generation = 0 /\ switches = 0 /\ known = {} /\ deleting = 0
    BY DEF Init
  <2>2. SwitchTyped
    BY <2>1 DEF SwitchTyped
  <2>. QED  BY <2>1, <2>2, SwitchesAssumption DEF SwitchBounded, SwitchesAssumption
<1>3. LogTyped /\ PhotosTyped
  <2>1. tape = <<>> /\ cases = <<>> /\ photos = <<>> /\ nextMarker = 1 /\ through = 0
    BY DEF Init
  <2>. QED  BY <2>1, EmptySeq DEF LogTyped, PhotosTyped
<1>4. ZipTyped
  BY DEF Init, ZipTyped, NoZip
<1>5. ListFits
  BY EmptySeq, LimitsAssumption DEF Init, ListFits, LimitsAssumption
<1>. QED
  BY <1>1, <1>2, <1>3, <1>4, <1>5, StagesInit, NumberedInit, DownloadsInit, FolderInit,
     TapeInit
  DEF RecordingInv, Typed

LEMMA RecordingInvStep == RecordingInv /\ [Next]_vars => RecordingInv'
<1> SUFFICES ASSUME RecordingInv, [Next]_vars PROVE RecordingInv'
  OBVIOUS
<1>1. Typed /\ Stages /\ SwitchBounded /\ Numbered /\ ListFits /\ Downloads /\ Folder
      /\ TapeInOrder
  BY DEF RecordingInv
<1>2. Ascending
  BY <1>1 DEF Downloads
<1>3. SwitchBounded'
  BY <1>1, SwitchStep
<1>4. Typed'
  <2>1. SwitchTyped'
    BY <1>3 DEF SwitchBounded
  <2>2. ReqTyped' /\ LogTyped' /\ PhotosTyped' /\ ZipTyped'
    BY <1>1, <1>2, ReqTypedStep, LogTypedStep, PhotosTypedStep, ZipTypedStep
  <2>. QED  BY <2>1, <2>2 DEF Typed
<1>5. Stages' /\ Numbered' /\ ListFits'
  BY <1>1, StagesStep, NumberedStep, ListFitsStep
<1>6. Downloads' /\ Folder' /\ TapeInOrder'
  BY <1>1, DownloadsStep, FolderStep, TapeStep
<1>. QED  BY <1>3, <1>4, <1>5, <1>6 DEF RecordingInv

LEMMA RecordingInvariant == Spec => []RecordingInv
BY RecordingInvInit, RecordingInvStep, PTL DEF Spec

LEMMA InvTyped == RecordingInv => TypeOK
<1> SUFFICES ASSUME RecordingInv PROVE TypeOK
  OBVIOUS
<1>1. Typed /\ SwitchBounded /\ Stages /\ Numbered /\ ListFits /\ Downloads /\ Folder
  BY DEF RecordingInv
<1>2. /\ enabled \in BOOLEAN /\ generation \in 0..MaxSwitches /\ known \subseteq Units
      /\ generation \in Nat
  BY <1>1, SwitchesAssumption DEF SwitchBounded, SwitchTyped, SwitchesAssumption
<1>3. nextMarker \in 1..(Cardinality(Requests) + 1)
  <2>1. IsFiniteSet(Requests) /\ Marked \subseteq Requests
    BY RequestsAssumption DEF RequestsAssumption, Marked
  <2>2. /\ IsFiniteSet(Marked) /\ Cardinality(Marked) <= Cardinality(Requests)
    BY <2>1, FS_Subset
  <2>3. Cardinality(Marked) \in Nat /\ Cardinality(Requests) \in Nat
    BY <2>1, <2>2, FS_CardinalityType
  <2>. QED  BY <1>1, <2>2, <2>3 DEF Numbered
<1>4. through \in 0..(nextMarker - 1)
  <2>1. through \in Nat /\ nextMarker \in Nat /\ through < nextMarker
    BY <1>1 DEF Typed, LogTyped, Downloads, Below
  <2>. QED  BY <2>1
<1>5. Len(photos) <= MaxPhotos + Cardinality(Failed) /\ Len(cases) <= MaxMarkers
  BY <1>1 DEF Folder, FolderFits, ListFits
<1>6. \A i, j \in DOMAIN photos : photos[i] = photos[j] => i = j
  <2>1. DOMAIN photos = 1..Len(photos)
    BY <1>1, LenProperties DEF Typed, PhotosTyped
  <2>. QED  BY <1>1, <2>1 DEF Folder, Distinct
<1>7. ASSUME NEW r \in Requests
      PROVE  /\ req[r].pc \in RequestPCs
             /\ req[r].pc \notin Over => req[r].gen \in 0..generation
             /\ r \in Dumps => req[r].pc \in {"idle", "waiting", "done"}
  <2>1. req[r] \in RequestRecord /\ Stage(r)
    BY <1>1 DEF Typed, ReqTyped, Stages
  <2>2. req[r].pc \in RequestPCs /\ req[r].gen \in Nat
    BY <2>1 DEF RequestRecord
  <2>. QED  BY <1>2, <2>1, <2>2 DEF Stage
<1>. QED  BY <1>2, <1>3, <1>4, <1>5, <1>6, <1>7 DEF TypeOK

-----------------------------------------------------------------------------
(* What the recording promises *)

\* Types, limits and numbers: no two photos have a name, photos (but for one per
\* failed save) and listed cases stay within their limits, and no more marker numbers are given than there
\* were requests, however uploads, marks, deletes and discards overlap.
THEOREM RecordingIsTyped == Spec => []TypeOK
BY RecordingInvariant, InvTyped, PTL

\* A mark that started waiting before recording was stopped or deleted is never
\* written, for any number of switches back and forth while it waits.
THEOREM MarksStayInTheirRecording == Spec => []NeverInAnotherRecording
<1>1. RecordingInv => NeverInAnotherRecording
  BY DEF RecordingInv, Stages, Stage, NeverInAnotherRecording
<1>. QED  BY <1>1, RecordingInvariant, PTL

\* A case counts as downloaded only when the card has received a zip with it in.
THEOREM DownloadedCasesAreHeld == Spec => []DownloadedMeansHeld
<1>1. RecordingInv => DownloadedMeansHeld
  <2> SUFFICES ASSUME RecordingInv PROVE DownloadedMeansHeld
    OBVIOUS
  <2>1. HeldBelow /\ DOMAIN cases = 1..Len(cases)
    BY CasesTyped DEF RecordingInv, Downloads, Typed
  <2>. QED  BY <2>1 DEF HeldBelow, DownloadedMeansHeld
<1>. QED  BY <1>1, RecordingInvariant, PTL

\* Every photo of the folder belongs to an upload that has marked, waits, is about
\* to discard it, or was cut short by a failed save, a cancellation or a restart.
THEOREM EveryPhotoHasItsUpload == Spec => []NoOrphanPhoto
<1>1. RecordingInv => NoOrphanPhoto
  <2> SUFFICES ASSUME RecordingInv PROVE NoOrphanPhoto
    OBVIOUS
  <2>1. TypeOK
    BY InvTyped
  <2>2. Folder /\ photos \in Seq(Names)
    BY DEF RecordingInv, Typed, PhotosTyped
  <2>3. DOMAIN photos = 1..Len(photos)
    BY <2>2, LenProperties
  <2>4. \A p \in ToSet(photos) : Kept(p)
    BY <2>2, <2>3 DEF Folder, ToSet
  <2>. QED  BY <2>1, <2>4 DEF NoOrphanPhoto, Kept, Holds
<1>. QED  BY <1>1, RecordingInvariant, PTL

\* A mark that says it waited stands behind a decoded frame of the unit it waited
\* for, received after its tap and in the same recording, unless both its body and
\* the frame that ended its wait came in while recording was off.
THEOREM WaitedMarksFollowTheirFrame == Spec => []WaitedMarkFollowsFrame
<1>1. RecordingInv => WaitedMarkFollowsFrame
  <2> SUFFICES ASSUME RecordingInv, NEW i \in DOMAIN tape, WaitedMark(i),
                      ~Excused(tape[i][3])
               PROVE  StandsBehindFrame(i)
    BY DEF WaitedMarkFollowsFrame, Excused
  <2>1. i \in 1..Len(tape) /\ Len(tape) \in Nat
    BY LenProperties DEF RecordingInv, Typed, LogTyped
  <2>2. MarkBehind(i)
    BY <2>1 DEF RecordingInv, TapeInOrder
  <2>3. PICK j \in 1..(i - 1) : EndsWait(tape[i][3], j)
    BY <2>2 DEF MarkBehind, WaitedMark
  <2>4. req[tape[i][3]].from \in Nat
    BY <2>2 DEF MarkBehind, WaitedMark, RecordingInv, Typed, ReqTyped, RequestRecord
  <2>5. j \in (req[tape[i][3]].from + 1)..(i - 1)
    BY <2>1, <2>3, <2>4 DEF EndsWait
  <2>. QED  BY <2>3, <2>5 DEF EndsWait, StandsBehindFrame
<1>. QED  BY <1>1, RecordingInvariant, PTL

=============================================================================
