----------------------------- MODULE RingProofs -----------------------------
(* Theorems about LogRing, for any capacity, writers and lines.            *)
EXTENDS LogRing, SequenceTheorems, NaturalsInduction, WellFoundedInduction, TLAPS

\* The places chronological walks hold lines.
Filled == \A i \in 0..Size - 1 : full \/ i < next => buf[i] \in Lines

RingInv == RingTypeOK /\ Filled

(***************************************************************************)
(* The walk.                                                               *)
(***************************************************************************)
\* The remainder of an index that has passed the end of the buffer at most once.
LEMMA Wraps ==
  ASSUME NEW n \in Nat \ {0}, NEW a \in Nat, a < 2 * n
  PROVE  a % n = IF a < n THEN a ELSE a - n
OBVIOUS

\* NewRing makes at least one place.
LEMMA SizeIsPositive == Size \in Nat \ {0}
BY CapacityAssumption DEF Size

\* How many lines the ring has.
kept == IF full THEN Size ELSE next

\* The ith of them.
place(i) == IF full THEN (IF next + i - 1 < Size THEN next + i - 1 ELSE next + i - 1 - Size)
                    ELSE i - 1

\* The walk visits the places in order.
Walk ==
  /\ kept \in 0..Size
  /\ \A i \in 1..kept : place(i) \in 0..Size - 1 /\ buf[place(i)] \in Lines
  /\ chronological = [i \in 1..kept |-> buf[place(i)]]
  /\ chronological \in Seq(Lines) /\ Len(chronological) = kept
  /\ \A i \in 1..kept : chronological[i] = buf[place(i)]

\* They do, from the oldest line to the newest.
LEMMA WalkIsSequence == RingInv => Walk
<1> SUFFICES ASSUME RingInv PROVE Walk
  OBVIOUS
<1>1. kept \in 0..Size
  BY SizeIsPositive DEF kept, RingInv, RingTypeOK
<1>2. \A i \in 1..kept : place(i) \in 0..Size - 1 /\ buf[place(i)] \in Lines
  BY SizeIsPositive DEF kept, place, RingInv, RingTypeOK, Filled
<1>3. ASSUME NEW i \in 1..kept
      PROVE  place(i) = IF full THEN (next + i - 1) % Size ELSE i - 1
  <2>1. CASE full
    <3> DEFINE a == next + i - 1
    <3>1. a \in Nat /\ a < 2 * Size
      BY <2>1, SizeIsPositive DEF kept, RingInv, RingTypeOK
    <3>2. place(i) = IF a < Size THEN a ELSE a - Size
      BY <2>1, <3>1, SizeIsPositive DEF place, kept, RingInv, RingTypeOK
    <3> HIDE DEF a
    <3>3. a % Size = IF a < Size THEN a ELSE a - Size
      BY <3>1, SizeIsPositive, Wraps
    <3> QED
      BY <2>1, <3>2, <3>3 DEF a
  <2>2. CASE ~full
    BY <2>2 DEF place
  <2> QED
    BY <2>1, <2>2
<1>4. chronological = [i \in 1..kept |-> buf[place(i)]]
  BY <1>3 DEF chronological, kept
<1>5. chronological \in Seq(Lines) /\ Len(chronological) = kept
  BY <1>1, <1>2, <1>4
<1> QED
  BY <1>1, <1>2, <1>4, <1>5 DEF Walk

\* The index of the place after the last one is the first.
LEMMA NextWraps ==
  ASSUME RingInv, NEW w \in Writers, append(w)
  PROVE  next' = IF next + 1 < Size THEN next + 1 ELSE 0
<1> DEFINE a == next + 1
<1>1. a \in Nat /\ a < 2 * Size /\ a <= Size
  BY SizeIsPositive DEF RingInv, RingTypeOK
<1>2. next' = a % Size
  BY DEF append
<1> HIDE DEF a
<1>3. a % Size = IF a < Size THEN a ELSE a - Size
  BY <1>1, SizeIsPositive, Wraps
<1> QED
  BY <1>1, <1>2, <1>3, SizeIsPositive DEF a

\* The initial ring is empty.
LEMMA RingInitRefines == RingInit => RingInv /\ Ideal!LinesInit
<1> SUFFICES ASSUME RingInit PROVE RingInv /\ Ideal!LinesInit
  OBVIOUS
<1>1. RingInv
  <2>1. next = 0 /\ next \in 0..Size - 1 /\ full = FALSE
    BY SizeIsPositive DEF RingInit
  <2>2. buf \in [0..Size - 1 -> Lines \cup {Blank}] /\ pending \in [Writers -> Lines \cup {Blank}]
    BY DEF RingInit
  <2>4. level \in Levels /\ logged \subseteq Lines /\ shown \in Seq(Lines)
    BY DEF RingInit
  <2>5. RingTypeOK
    BY <2>1, <2>2, <2>4 DEF RingTypeOK
  <2>3. Filled
    BY <2>1 DEF Filled
  <2> QED
    BY <2>3, <2>5 DEF RingInv
<1>2. kept = 0
  BY DEF RingInit, kept
<1>3. chronological = <<>>
  BY <1>1, <1>2, WalkIsSequence DEF Walk
<1> QED
  BY <1>1, <1>3 DEF RingInit, Ideal!LinesInit

\* Putting a line into the ring is keeping the latest lines.
LEMMA AppendKeeps ==
  ASSUME RingInv, RingInv', NEW w \in Writers, append(w)
  PROVE  pending[w] \in Lines /\ Ideal!Keep(pending[w])
<1> DEFINE r == pending[w]
           c == chronological
           d == chronological'
<1>1. r \in Lines
  BY DEF append, RingInv, RingTypeOK
<1>2. next' = IF next + 1 < Size THEN next + 1 ELSE 0
  BY NextWraps
<1>3. /\ kept \in 0..Size /\ c \in Seq(Lines) /\ Len(c) = kept
      /\ \A i \in 1..kept : c[i] = buf[place(i)]
  BY WalkIsSequence DEF Walk
<1>4. /\ kept' \in 0..Size /\ d \in Seq(Lines) /\ Len(d) = kept'
      /\ d = [i \in 1..kept' |-> buf'[place(i)']]
  <2>1. Walk'
    BY WalkIsSequence, PTL
  <2> QED
    BY <2>1 DEF Walk
<1>5. /\ \A i \in 0..Size - 1 : buf'[i] = IF i = next THEN r ELSE buf[i]
      /\ full' <=> full \/ next' = 0
      /\ next \in 0..Size - 1 /\ next' \in 0..Size - 1
  BY DEF append, RingInv, RingTypeOK
<1>6. UNCHANGED shown
  BY DEF append
<1> DEFINE longer == Append(c, r)
<1>7. /\ longer \in Seq(Lines) /\ Len(longer) = kept + 1
      /\ \A i \in 1..kept + 1 : longer[i] = IF i = kept + 1 THEN r ELSE buf[place(i)]
  BY <1>1, <1>3
<1> HIDE DEF r, c, d
<1>8. d = Ideal!Latest(longer, Size)
  <2> HIDE DEF longer
  <2>1. CASE ~full
    <3>1. kept' = kept + 1 /\ kept = next
      BY <1>2, <1>5, <2>1, SizeIsPositive DEF kept
    <3>2. ASSUME NEW i \in 1..kept' PROVE place(i)' = i - 1
      BY <1>2, <1>5, <2>1, <3>1, <3>2, SizeIsPositive DEF place
    <3>3. \A i \in 1..kept : place(i) = i - 1
      BY <2>1 DEF place
    <3>4. ASSUME NEW i \in 1..kept' PROVE d[i] = longer[i]
      <4>1. d[i] = buf'[i - 1]
        BY <1>4, <3>2
      <4>2. i \in 1..kept + 1 /\ i - 1 \in 0..Size - 1 /\ (i - 1 = next <=> i = kept + 1)
        <5>1. Size \in Nat /\ next \in Nat /\ next < Size /\ kept' = next + 1 /\ kept = next
          BY <1>5, <3>1, SizeIsPositive
        <5> QED
          BY <5>1
      <4>3. buf'[i - 1] = IF i = kept + 1 THEN r ELSE buf[i - 1]
        BY <1>5, <4>2
      <4>4. i # kept + 1 => i \in 1..kept
        BY <1>3, <4>2
      <4> QED
        BY <1>7, <3>3, <4>1, <4>2, <4>3, <4>4
    <3>5. d = longer
      BY <1>4, <1>7, <3>1, <3>4, SeqEqual
    <3> QED
      BY <1>4, <1>7, <3>1, <3>5, SizeIsPositive DEF Ideal!Latest
  <2>2. CASE full
    <3>1. kept' = Size /\ kept = Size
      BY <1>5, <2>2 DEF kept
    <3> DEFINE last == SubSeq(longer, 2, Size + 1)
    <3>2. Ideal!Latest(longer, Size) = last
      BY <1>7, <3>1, SizeIsPositive DEF Ideal!Latest
    <3>3. \A i \in 2..Size + 1 : longer[i] \in Lines
      BY <1>7, <3>1, SizeIsPositive
    <3>4. /\ last \in Seq(Lines) /\ Len(last) = Size
          /\ \A i \in 1..Size : last[i] = longer[i + 1]
      BY <3>3, SizeIsPositive, SubSeqProperties
    <3>5. ASSUME NEW i \in 1..Size PROVE d[i] = longer[i + 1]
      <4>1. place(i)' = IF i = Size THEN next ELSE place(i + 1)
        BY <1>2, <1>5, <2>2, SizeIsPositive DEF place
      <4>2. i # Size => place(i + 1) # next /\ place(i + 1) \in 0..Size - 1
        BY <1>5, <2>2, SizeIsPositive DEF place
      <4> QED
        BY <1>4, <1>5, <1>7, <3>1, <4>1, <4>2, SizeIsPositive
    <3> QED
      BY <1>4, <3>1, <3>2, <3>4, <3>5, SeqEqual
  <2> QED
    BY <1>5, <2>1, <2>2
<1> QED
  BY <1>1, <1>6, <1>8 DEF c, d, r, longer, Ideal!Keep

(***************************************************************************)
(* The loop of Snapshot.                                                   *)
(***************************************************************************)
\* A nonempty set of numbers has a least member.
LEMMA HasLeast ==
  ASSUME NEW T \in SUBSET Nat, T # {}
  PROVE  \E x \in T : \A y \in T : x <= y
<1> DEFINE R == {ss \in Nat \X Nat : ss[1] < ss[2]}
<1>1. IsWellFoundedOn(R, Nat)
  BY NatLessThanWellFounded DEF OpToRel
<1>2. \A x, y \in Nat : <<y, x>> \in R <=> y < x
  OBVIOUS
<1> HIDE DEF R
<1>3. PICK x \in T : \A y \in T : ~ (<<y, x>> \in R)
  BY <1>1, WFMin
<1>4. \A y \in T : ~ (y < x)
  BY <1>2, <1>3
<1> QED
  BY <1>4

\* g holds what the loop has collected after each of the first n places.
Collects(g, s, min, n) ==
  g = [i \in 0..n |-> IF i = 0 THEN <<>>
                      ELSE IF LevelOf[s[i]] < min THEN g[i - 1] ELSE Append(g[i - 1], s[i])]

\* out has the lines at or above min of the first n places, in their order.
Picked(out, s, min, n) ==
  /\ out \in Seq(Lines) /\ Len(out) <= n
  /\ \E picks \in [1..Len(out) -> 1..n] :
       /\ \A i, k \in 1..Len(out) : i < k => picks[i] < picks[k]
       /\ {picks[i] : i \in 1..Len(out)} = {k \in 1..n : LevelOf[s[k]] >= min}
       /\ \A i \in 1..Len(out) : out[i] = s[picks[i]]

\* The loop ends: there is what it has collected.
LEMMA LoopCollects ==
  ASSUME NEW s \in Seq(Lines), NEW min \in Nat, NEW n \in 0..Len(s)
  PROVE  \E g : Collects(g, s, min, n)
<1> DEFINE T == {m \in 0..Len(s) : ~ \E g : Collects(g, s, min, m)}
<1> SUFFICES ASSUME T # {} PROVE FALSE
  OBVIOUS
<1>0. T \in SUBSET Nat
  OBVIOUS
<1> HIDE DEF T
<1>1. PICK x \in T : \A y \in T : x <= y
  BY <1>0, HasLeast
<1> USE DEF T
<1>2. CASE x = 0
  <2> DEFINE g == [i \in 0..0 |-> <<>>]
  <2>1. Collects(g, s, min, 0)
    BY DEF Collects
  <2> QED
    BY <1>2, <2>1
<1>3. CASE x # 0
  <2>1. x \in 1..Len(s) /\ x - 1 \in 0..Len(s) /\ x - 1 \notin T
    <3>1. x \in 1..Len(s) /\ x - 1 \in 0..Len(s) /\ ~(x <= x - 1)
      BY <1>3
    <3> HIDE DEF T
    <3> QED
      BY <1>1, <3>1
  <2>2. PICK g : Collects(g, s, min, x - 1)
    BY <2>1
  <2> DEFINE h == [i \in 0..x |-> IF i < x THEN g[i]
                                  ELSE IF LevelOf[s[x]] < min THEN g[x - 1] ELSE Append(g[x - 1], s[x])]
  <2>3. \A i \in 0..x - 1 : h[i] = g[i]
    BY <2>1
  <2>4. ASSUME NEW i \in 0..x
        PROVE  h[i] = IF i = 0 THEN <<>>
                      ELSE IF LevelOf[s[i]] < min THEN h[i - 1] ELSE Append(h[i - 1], s[i])
    <3>1. CASE i = x
      BY <2>1, <2>3, <3>1
    <3>2. CASE i # x
      <4>1. i \in 0..x - 1 /\ (i # 0 => i - 1 \in 0..x - 1)
        BY <2>1, <3>2
      <4>2. g[i] = IF i = 0 THEN <<>>
                   ELSE IF LevelOf[s[i]] < min THEN g[i - 1] ELSE Append(g[i - 1], s[i])
        BY <2>2, <4>1 DEF Collects
      <4> QED
        BY <2>3, <4>1, <4>2
    <3> QED
      BY <3>1, <3>2
  <2>5. Collects(h, s, min, x)
    BY <2>4 DEF Collects
  <2> QED
    BY <2>5
<1> QED
  BY <1>2, <1>3

\* One more place.
LEMMA OnePlace ==
  ASSUME NEW s \in Seq(Lines), NEW min \in Nat, NEW n \in Nat, n + 1 \in 1..Len(s),
         NEW out, Picked(out, s, min, n)
  PROVE  Picked(IF LevelOf[s[n + 1]] < min THEN out ELSE Append(out, s[n + 1]), s, min, n + 1)
<1>1. s[n + 1] \in Lines /\ LevelOf[s[n + 1]] \in Nat
  BY LinesAssumption
<1>2. PICK picks \in [1..Len(out) -> 1..n] :
        /\ \A i, k \in 1..Len(out) : i < k => picks[i] < picks[k]
        /\ {picks[i] : i \in 1..Len(out)} = {k \in 1..n : LevelOf[s[k]] >= min}
        /\ \A i \in 1..Len(out) : out[i] = s[picks[i]]
  BY DEF Picked
<1>3. out \in Seq(Lines) /\ Len(out) <= n /\ Len(out) \in Nat
  BY DEF Picked
<1>4. CASE LevelOf[s[n + 1]] < min
  <2>1. picks \in [1..Len(out) -> 1..n + 1]
    BY <1>2
  <2>2. {k \in 1..n + 1 : LevelOf[s[k]] >= min} = {k \in 1..n : LevelOf[s[k]] >= min}
    BY <1>1, <1>4
  <2>3. Len(out) <= n + 1
    BY <1>3
  <2>4. Picked(out, s, min, n + 1)
    BY <1>2, <1>3, <2>1, <2>2, <2>3, Zenon DEF Picked
  <2> QED
    BY <1>4, <2>4
<1>5. CASE ~(LevelOf[s[n + 1]] < min)
  <2> DEFINE all == Append(out, s[n + 1])
             more == [i \in 1..Len(out) + 1 |-> IF i <= Len(out) THEN picks[i] ELSE n + 1]
  <2>1. /\ all \in Seq(Lines) /\ Len(all) = Len(out) + 1
        /\ \A i \in 1..Len(out) : all[i] = out[i]
        /\ all[Len(out) + 1] = s[n + 1]
    BY <1>1, <1>3
  <2>2. more \in [1..Len(all) -> 1..n + 1]
    BY <1>2, <1>3, <2>1
  <2>3. /\ \A i \in 1..Len(out) : more[i] = picks[i] /\ picks[i] \in 1..n
        /\ more[Len(out) + 1] = n + 1
    BY <1>2, <1>3
  <2>4. Len(out) \in Nat /\ Len(all) \in Nat
    BY <1>3, <2>1
  <2> HIDE DEF all, more
  <2>5. \A i \in 1..Len(all) : \/ i \in 1..Len(out) /\ more[i] = picks[i] /\ picks[i] \in 1..n
                               \/ i = Len(out) + 1 /\ more[i] = n + 1
    BY <2>1, <2>3, <2>4
  <2>6. ASSUME NEW i \in 1..Len(all), NEW k \in 1..Len(all), i < k PROVE more[i] < more[k]
    <3>1. i \in 1..Len(out) /\ more[i] = picks[i] /\ picks[i] \in 1..n
      BY <2>1, <2>4, <2>5, <2>6
    <3>2. CASE k \in 1..Len(out)
      BY <1>2, <2>3, <2>6, <3>1, <3>2
    <3>3. CASE k = Len(out) + 1
      BY <2>3, <3>1, <3>3
    <3> QED
      BY <2>5, <3>2, <3>3
  <2>7. ASSUME NEW i \in 1..Len(all) PROVE more[i] \in {k \in 1..n + 1 : LevelOf[s[k]] >= min}
    <3>1. CASE i \in 1..Len(out) /\ more[i] = picks[i]
      <4>1. picks[i] \in {picks[k] : k \in 1..Len(out)}
        BY <3>1
      <4>2. picks[i] \in {k \in 1..n : LevelOf[s[k]] >= min}
        BY <1>2, <4>1, Zenon
      <4> QED
        BY <3>1, <4>2
    <3>2. CASE more[i] = n + 1
      BY <1>1, <1>5, <3>2
    <3> QED
      BY <2>5, <3>1, <3>2
  <2>8. ASSUME NEW k \in {p \in 1..n + 1 : LevelOf[s[p]] >= min} PROVE \E i \in 1..Len(all) : more[i] = k
    <3>1. CASE k = n + 1
      BY <2>1, <2>3, <2>4, <3>1
    <3>2. CASE k # n + 1
      <4>1. k \in {p \in 1..n : LevelOf[s[p]] >= min}
        BY <3>2
      <4>2. k \in {picks[i] : i \in 1..Len(out)}
        BY <1>2, <4>1, Zenon
      <4>3. PICK i \in 1..Len(out) : k = picks[i]
        BY <4>2, Zenon
      <4>4. i \in 1..Len(all) /\ more[i] = k
        BY <2>1, <2>3, <2>4, <4>3
      <4> QED
        BY <4>4
    <3> QED
      BY <3>1, <3>2
  <2>9. {more[i] : i \in 1..Len(all)} = {k \in 1..n + 1 : LevelOf[s[k]] >= min}
    BY <2>7, <2>8
  <2>10. ASSUME NEW i \in 1..Len(all) PROVE all[i] = s[more[i]]
    <3>1. CASE i \in 1..Len(out) /\ more[i] = picks[i]
      BY <1>2, <2>1, <3>1
    <3>2. CASE i = Len(out) + 1 /\ more[i] = n + 1
      BY <2>1, <3>2
    <3> QED
      BY <2>5, <3>1, <3>2
  <2>11. Len(all) <= n + 1
    BY <1>3, <2>1
  <2>12. Picked(all, s, min, n + 1)
    BY <2>1, <2>2, <2>6, <2>9, <2>10, <2>11, Zenon DEF Picked
  <2> QED
    BY <1>5, <2>12 DEF all
<1> QED
  BY <1>4, <1>5

\* What the loop has collected are the lines that match, in their order.
LEMMA LoopPicks ==
  ASSUME NEW s \in Seq(Lines), NEW min \in Nat
  PROVE  Picked(selected(s, min), s, min, Len(s))
<1> DEFINE body(g) == [i \in 0..Len(s) |-> IF i = 0 THEN <<>>
                         ELSE IF LevelOf[s[i]] < min THEN g[i - 1] ELSE Append(g[i - 1], s[i])]
           out == CHOOSE g : g = body(g)
           T == {m \in 0..Len(s) : ~ Picked(out[m], s, min, m)}
<1>1. selected(s, min) = out[Len(s)]
  BY DEF selected
<1>2. Len(s) \in Nat /\ Len(s) \in 0..Len(s)
  OBVIOUS
<1>3. \E g : g = body(g)
  BY <1>2, LoopCollects DEF Collects
<1>4. out = body(out)
  BY <1>3
<1>5. \A i \in 0..Len(s) :
        out[i] = IF i = 0 THEN <<>>
                 ELSE IF LevelOf[s[i]] < min THEN out[i - 1] ELSE Append(out[i - 1], s[i])
  BY <1>4
<1> HIDE DEF out, body
<1>6. ASSUME T # {} PROVE FALSE
  <2>0. T \in SUBSET Nat
    OBVIOUS
  <2> HIDE DEF T
  <2>1. PICK x \in T : \A y \in T : x <= y
    BY <1>6, <2>0, HasLeast
  <2>4. x \in 0..Len(s) /\ ~ Picked(out[x], s, min, x)
    BY DEF T
  <2>2. CASE x = 0
    <3>1. out[x] = <<>>
      BY <1>5, <2>2
    <3>2. Picked(<<>>, s, min, 0)
      <4> DEFINE none == [i \in 1..0 |-> 0]
      <4>1. none \in [1..Len(<<>>) -> 1..0] /\ 1..0 = {} /\ Len(<<>>) = 0
        OBVIOUS
      <4>2. <<>> \in Seq(Lines) /\ Len(<<>>) <= 0 /\ 1..Len(<<>>) = {}
        OBVIOUS
      <4>3. {none[i] : i \in 1..Len(<<>>)} = {k \in 1..0 : LevelOf[s[k]] >= min}
        BY <4>1, <4>2
      <4> HIDE DEF none
      <4>4. /\ \A i, k \in 1..Len(<<>>) : i < k => none[i] < none[k]
            /\ \A i \in 1..Len(<<>>) : <<>>[i] = s[none[i]]
        BY <4>2
      <4> QED
        BY <4>1, <4>2, <4>3, <4>4, Zenon DEF Picked
    <3> QED
      BY <2>2, <2>4, <3>1, <3>2
  <2>3. CASE x # 0
    <3>1. /\ x \in 1..Len(s) /\ x - 1 \in Nat /\ x - 1 \in 0..Len(s) /\ (x - 1) + 1 = x
          /\ ~(x <= x - 1)
      BY <2>3, <2>4
    <3>2. Picked(out[x - 1], s, min, x - 1)
      <4>1. x - 1 \notin T
        BY <2>1, <3>1
      <4> QED
        BY <3>1, <4>1 DEF T
    <3>3. out[x] = IF LevelOf[s[x]] < min THEN out[x - 1] ELSE Append(out[x - 1], s[x])
      BY <1>5, <3>1
    <3>4. Picked(out[x], s, min, x)
      BY <3>1, <3>2, <3>3, OnePlace
    <3> QED
      BY <2>4, <3>4
  <2> QED
    BY <2>2, <2>3
<1> QED
  BY <1>1, <1>2, <1>6

\* An answer is the latest of the lines kept that match.
LEMMA LogsShow ==
  ASSUME RingInv, handleLogs
  PROVE  /\ \E limit \in Limits, r \in Lines : Ideal!Show(limit, LevelOf[r])
         /\ shown' \in Seq(Lines)
<1>1. PICK limit \in Limits, r \in Lines : shown' = Snapshot(limit, LevelOf[r])
  BY DEF handleLogs
<1> DEFINE c == chronological
           min == LevelOf[r]
           out == selected(c, min)
<1>2. UNCHANGED c
  BY DEF handleLogs, chronological
<1>3. c \in Seq(Lines) /\ min \in Nat /\ limit \in Nat
  BY WalkIsSequence, LinesAssumption DEF Walk
<1>4. Picked(out, c, min, Len(c))
  BY <1>3, LoopPicks
<1>5. shown' = IF limit > 0 THEN Ideal!Latest(out, limit) ELSE out
  BY <1>1 DEF Snapshot, Ideal!Latest
<1> HIDE DEF c, out, min
<1>6. PICK picks \in [1..Len(out) -> 1..Len(c)] :
        /\ \A i, k \in 1..Len(out) : i < k => picks[i] < picks[k]
        /\ {picks[i] : i \in 1..Len(out)} = {k \in 1..Len(c) : LevelOf[c[k]] >= min}
        /\ \A i \in 1..Len(out) : out[i] = c[picks[i]]
  BY <1>4 DEF Picked
<1>7. /\ out \in Seq(Lines) /\ Len(out) \in 0..Len(c) /\ Len(c) \in Nat
      /\ DOMAIN c = 1..Len(c) /\ DOMAIN picks = 1..Len(out)
  BY <1>3, <1>4, <1>6 DEF Picked
<1>8. out = [i \in DOMAIN picks |-> c[picks[i]]]
  BY <1>6, <1>7
<1>9. picks \in UNION {[1..m -> DOMAIN c] : m \in 0..Len(c)}
  <2>1. picks \in [1..Len(out) -> DOMAIN c]
    BY <1>6, <1>7
  <2> QED
    BY <1>7, <2>1
<1>10. Ideal!Show(limit, min)
  <2>1. /\ \A i, k \in DOMAIN picks : i < k => picks[i] < picks[k]
        /\ {picks[i] : i \in DOMAIN picks} = {k \in DOMAIN c : LevelOf[c[k]] >= min}
    BY <1>6, <1>7
  <2>2. shown' = IF limit > 0 THEN Ideal!Latest([i \in DOMAIN picks |-> c[picks[i]]], limit)
                 ELSE [i \in DOMAIN picks |-> c[picks[i]]]
    BY <1>5, <1>8
  <2> QED
    BY <1>2, <1>9, <2>1, <2>2, Zenon DEF Ideal!Show, c
<1>11. shown' \in Seq(Lines)
  <2>1. CASE limit > 0 /\ Len(out) > limit
    BY <1>3, <1>5, <1>7, <2>1, SubSeqProperties DEF Ideal!Latest
  <2>2. CASE ~(limit > 0 /\ Len(out) > limit)
    BY <1>5, <1>7, <2>2 DEF Ideal!Latest
  <2> QED
    BY <2>1, <2>2
<1> QED
  BY <1>10, <1>11 DEF min

(***************************************************************************)
(* The steps.                                                              *)
(***************************************************************************)
\* Every step keeps the types and the places filled.
LEMMA RingInvStep == RingInv /\ [RingNext]_ringVars => RingInv'
<1> SUFFICES ASSUME RingInv, [RingNext]_ringVars PROVE RingInv'
  OBVIOUS
<1> USE DEF RingInv, RingTypeOK, Filled
<1>1. CASE handleSetLevel
  BY <1>1 DEF handleSetLevel
<1>2. CASE handleLogs
  BY <1>2, LogsShow DEF handleLogs
<1>3. ASSUME NEW w \in Writers, Handle(w) PROVE RingInv'
  BY <1>3 DEF Handle
<1>4. ASSUME NEW w \in Writers, append(w) PROVE RingInv'
  <2>1. pending[w] \in Lines
    BY <1>4 DEF append
  <2>2. next' = IF next + 1 < Size THEN next + 1 ELSE 0
    BY <1>4, NextWraps
  <2>3. RingTypeOK'
    BY <1>4, <2>1, <2>2, SizeIsPositive DEF append
  <2>4. Filled'
    BY <1>4, <2>1, <2>2, SizeIsPositive DEF append
  <2> QED
    BY <2>3, <2>4
<1>5. CASE UNCHANGED ringVars
  BY <1>5 DEF ringVars
<1> QED
  BY <1>1, <1>2, <1>3, <1>4, <1>5 DEF RingNext

\* Every step of the ring is a step of the ideal one, or changes nothing there.
LEMMA RingStepRefines ==
  ASSUME RingInv, RingInv', [RingNext]_ringVars
  PROVE  [Ideal!LinesNext]_<<chronological, shown>>
<1>1. CASE handleSetLevel
  BY <1>1 DEF handleSetLevel, chronological
<1>2. CASE handleLogs
  BY <1>2, LogsShow DEF Ideal!LinesNext
<1>3. ASSUME NEW w \in Writers, Handle(w) PROVE UNCHANGED <<chronological, shown>>
  BY <1>3 DEF Handle, chronological
<1>4. ASSUME NEW w \in Writers, append(w) PROVE Ideal!LinesNext
  BY <1>4, AppendKeeps DEF Ideal!LinesNext
<1>5. CASE UNCHANGED ringVars
  BY <1>5 DEF ringVars, chronological
<1> QED
  BY <1>1, <1>2, <1>3, <1>4, <1>5 DEF RingNext

(***************************************************************************)
(* The theorems.                                                           *)
(***************************************************************************)
\* The indices stay in the buffer, and every answer is made of lines.
THEOREM RingInductive == RingSpec => []RingInv
BY RingInitRefines, RingInvStep, PTL DEF RingSpec

\* The ring implements the list of the latest lines, and a query of it picks
\* the lines that match, in their order.
THEOREM RingIsIdeal == RingSpec => KeepsLatestLines
<1>1. RingInv /\ RingInv' /\ [RingNext]_ringVars => [Ideal!LinesNext]_<<chronological, shown>>
  BY RingStepRefines
<1> QED
  BY RingInductive, RingInitRefines, <1>1, PTL DEF RingSpec, KeepsLatestLines, Ideal!LinesSpec
=============================================================================
