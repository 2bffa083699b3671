-------------------------- MODULE JanixAppsProofs --------------------------
(***************************************************************************)
(* Proofs about the list of applications of module JanixApps, for any      *)
(* applications and any length of the list: the type invariant for any     *)
(* number of children, and, as long as the requests come one at a time,    *)
(* that what is installed is listed, once, and that the replies are true.  *)
(*                                                                         *)
(* The list alone does not say so: while a child is at work it is short of *)
(* a newline, or empty.  The inductive invariant speaks of the list as it  *)
(* was when it last was whole (Book), and of what the child has found out  *)
(* about it: the lines it has passed in its scan do not hold the name, the *)
(* name it installs was not in any line, the text it will write again is   *)
(* all there was.                                                          *)
(***************************************************************************)
EXTENDS JanixApps, FiniteSetTheorems, SequenceTheorems, WellFoundedInduction, TLAPS

\* A name stands in s.
Listed(s, a) == \E i \in 1 .. Len(s) : s[i] = a

\* Names and newlines take turns, from a name to a newline.
Whole(s) ==
    /\ s \in Text
    /\ s # <<>> => s[1] # Newline /\ s[Len(s)] = Newline
    /\ \A i \in 1 .. Len(s) - 1 : s[i] = Newline <=> s[i + 1] # Newline

\* No name stands twice.
Once(s) == \A i, j \in 1 .. Len(s) : s[i] = s[j] /\ s[i] # Newline => i = j

-----------------------------------------------------------------------------
(***************************************************************************)
(* Lemmas about texts.                                                     *)
(***************************************************************************)

\* The order of the natural numbers, as a relation.
Below == OpToRel(<, Nat)

\* A set of numbers has a least one.
LEMMA LeastOf ==
    ASSUME NEW I, I \subseteq Nat, I # {}
    PROVE  \E x \in I : \A y \in I : x <= y
<1>1. IsWellFoundedOn(Below, Nat)
  BY NatLessThanWellFounded DEF Below
<1>2. \A x, y \in Nat : <<x, y>> \in Below <=> x < y
  BY DEF OpToRel, Below
<1>3. PICK x \in I : \A y \in I : <<y, x>> \notin Below
  BY <1>1, WFMin
<1>4. \A y \in I : x \in Nat /\ y \in Nat /\ ~(y < x)
  BY <1>2, <1>3
<1> QED
  BY <1>4

LEMMA NothingLeft ==
    ASSUME NEW S, NEW s \in Seq(S), NEW n \in Nat, NEW m \in Nat, n < m
    PROVE  SubSeq(s, m, n) = <<>>
<1>1. \A i \in m .. n : s[i] \in S
  OBVIOUS
<1>2. SubSeq(s, m, n) \in Seq(S) /\ Len(SubSeq(s, m, n)) = 0
  BY <1>1, SubSeqProperties
<1> QED
  BY <1>2, EmptySeq

LEMMA FirstAlone ==
    ASSUME NEW S, NEW s \in Seq(S), s # <<>>
    PROVE  SubSeq(s, 1, 1) = <<s[1]>>
<1>1. s[1] \in S
  BY ElementOfSeq, LenProperties, EmptySeq
<1>2. \A i \in 1 .. 1 : s[i] \in S
  BY <1>1
<1>3. SubSeq(s, 1, 1) \in Seq(S) /\ Len(SubSeq(s, 1, 1)) = 1 /\ SubSeq(s, 1, 1)[1] = s[1]
  BY <1>2, SubSeqProperties
<1>4. <<s[1]>> \in Seq(S) /\ Len(<<s[1]>>) = 1 /\ <<s[1]>>[1] = s[1]
  BY <1>1
<1>5. \A i \in 1 .. 1 : SubSeq(s, 1, 1)[i] = <<s[1]>>[i]
  BY <1>3, <1>4
<1> QED
  BY <1>3, <1>4, <1>5, SeqEqual

\* What an append has added is taken off again.
LEMMA LastOff ==
    ASSUME NEW s \in Text, NEW e \in App \cup {Newline}
    PROVE  SubSeq(Append(s, e), 1, Len(Append(s, e)) - 1) = s
<1> DEFINE S == App \cup {Newline}
           new == Append(s, e)
<1>1. /\ new \in Seq(S) /\ s \in Seq(S) /\ Len(s) \in Nat /\ Len(new) - 1 = Len(s)
      /\ \A i \in 1 .. Len(s) : new[i] = s[i]
  BY DEF Text
<1> HIDE DEF new
<1> DEFINE front == SubSeq(new, 1, Len(s))
<1>2. \A i \in 1 .. Len(s) : new[i] \in S
  BY <1>1
<1>3. /\ front \in Seq(S) /\ Len(front) = IF 1 <= Len(s) THEN Len(s) - 1 + 1 ELSE 0
      /\ \A i \in 1 .. Len(s) - 1 + 1 : front[i] = new[1 + i - 1]
  BY <1>1, <1>2, SubSeqProperties
<1> HIDE DEF front
<1>4. Len(front) = Len(s) /\ \A i \in 1 .. Len(s) : front[i] = s[i]
  <2>1. Len(front) = Len(s)
    BY <1>1, <1>3
  <2>2. \A i \in 1 .. Len(s) : i \in 1 .. Len(s) - 1 + 1 /\ 1 + i - 1 = i
    BY <1>1
  <2> QED
    BY <1>1, <1>3, <2>1, <2>2
<1>5. front = s
  BY <1>1, <1>3, <1>4, SeqEqual
<1> QED
  BY <1>1, <1>5 DEF front, new

\* The end of the first line, in a text whose second byte is the first newline.
LEMMA LineEndIsTwo ==
    ASSUME NEW s \in Text, Len(s) >= 2, s[1] # Newline, s[2] = Newline
    PROVE  LineEnd(s) = 2
<1> DEFINE I == {i \in 1 .. Len(s) : s[i] = Newline}
<1>1. Contains(s, Newline)
  BY DEF Contains, Text
<1>2. 2 \in I /\ \A i \in I : 2 <= i
  BY DEF Text
<1>3. Min(I) = 2
  <2>1. \A x \in I : (\A y \in I : x <= y) => x = 2
    BY <1>2
  <2> QED
    BY <1>2, <2>1 DEF Min
<1>4. SelectInSeq(s, LAMBDA t : t = Newline) = 2
  BY <1>2, <1>3 DEF SelectInSeq
<1> QED
  BY <1>1, <1>4 DEF LineEnd

LEMMA LineEndOfNothing == LineEnd(<<>>) = 0
  BY DEF LineEnd, Contains

\* A name in a whole text has a line of its own.
LEMMA ListedHasLine ==
    ASSUME NEW s, Whole(s), NEW a \in App, Listed(s, a)
    PROVE  Lines(s, a) # {}
<1>1. PICK i \in 1 .. Len(s) : s[i] = a
  BY DEF Listed
<1>2. a # Newline /\ Len(s) \in Nat
  BY AppAssumption DEF Whole, Text
<1>3. i # Len(s) /\ i \in 1 .. Len(s) - 1
  BY <1>1, <1>2 DEF Whole
<1>4. s[i + 1] = Newline
  BY <1>1, <1>2, <1>3 DEF Whole
<1>5. i = 1 \/ s[i - 1] = Newline
  <2>1. CASE i # 1
    <3>1. i - 1 \in 1 .. Len(s) - 1 /\ (i - 1) + 1 = i
      BY <1>2, <1>3, <2>1
    <3> QED
      BY <1>1, <1>2, <3>1 DEF Whole
  <2> QED
    BY <2>1
<1> QED
  BY <1>1, <1>3, <1>4, <1>5 DEF Lines

\* A name that stands once has one line at most.
LEMMA OneLineAtMost ==
    ASSUME NEW s \in Text, Once(s), NEW a \in App
    PROVE  Cardinality(Lines(s, a)) <= 1
<1>1. \A i, j \in Lines(s, a) : i = j
  BY AppAssumption DEF Lines, Once, Text
<1>2. CASE Lines(s, a) = {}
  BY <1>2, FS_EmptySet
<1>3. CASE Lines(s, a) # {}
  <2>1. PICK i : Lines(s, a) = {i}
    BY <1>1, <1>3
  <2> QED
    BY <2>1, FS_Singleton
<1> QED
  BY <1>2, <1>3

\* The line at the place a scan has come to.
LEMMA NextLine ==
    ASSUME NEW s, Whole(s), NEW o \in 0 .. Len(s), o = 0 \/ s[o] = Newline
    PROVE  LET rest == SubSeq(s, o + 1, Len(s))
           IN  /\ o = Len(s) => LineEnd(rest) = 0
               /\ o < Len(s) => /\ o + 2 <= Len(s)
                                /\ s[o + 1] \in App
                                /\ s[o + 2] = Newline
                                /\ LineEnd(rest) = 2
                                /\ SubSeq(rest, 1, LineEnd(rest) - 1) = <<s[o + 1]>>
<1> DEFINE rest == SubSeq(s, o + 1, Len(s))
<1>0. s \in Text /\ s \in Seq(App \cup {Newline}) /\ Len(s) \in Nat
  BY DEF Whole, Text
<1>1. CASE o = Len(s)
  <2>1. rest = <<>>
    <3>1. Len(s) < o + 1 /\ o + 1 \in Nat
      BY <1>0, <1>1
    <3> QED
      BY <1>0, <3>1, NothingLeft
  <2>2. LineEnd(rest) = 0
    BY <2>1, LineEndOfNothing
  <2>3. ~(o < Len(s))
    BY <1>0, <1>1
  <2> QED
    BY <2>2, <2>3
<1>2. CASE o < Len(s)
  <2>1. s[o + 1] # Newline
    <3>1. CASE o = 0
      BY <1>0, <1>2, <3>1 DEF Whole
    <3>2. CASE o # 0
      <4>1. o \in 1 .. Len(s) - 1 /\ s[o] = Newline
        BY <1>0, <1>2, <3>2
      <4> QED
        BY <4>1 DEF Whole
    <3> QED
      BY <3>1, <3>2
  <2>2. o + 1 # Len(s)
    BY <1>0, <1>2, <2>1 DEF Whole
  <2>3. o + 1 \in 1 .. Len(s) - 1 /\ o + 2 \in 1 .. Len(s)
    BY <1>0, <1>2, <2>2
  <2>4. s[o + 2] = Newline
    <3>1. (o + 1) + 1 = o + 2
      OBVIOUS
    <3> QED
      BY <2>1, <2>3, <3>1 DEF Whole
  <2>5. /\ rest \in Text /\ Len(rest) = Len(s) - o
        /\ rest[1] = s[o + 1] /\ rest[2] = s[o + 2]
    <3>1. \A i \in (o + 1) .. Len(s) : s[i] \in App \cup {Newline}
      BY <1>0, <2>3
    <3>2. /\ rest \in Seq(App \cup {Newline})
          /\ Len(rest) = IF o + 1 <= Len(s) THEN Len(s) - (o + 1) + 1 ELSE 0
          /\ \A i \in 1 .. Len(s) - (o + 1) + 1 : rest[i] = s[(o + 1) + i - 1]
      BY <1>0, <3>1, SubSeqProperties
    <3>3. 1 \in 1 .. Len(s) - (o + 1) + 1 /\ 2 \in 1 .. Len(s) - (o + 1) + 1
      BY <1>0, <2>3
    <3>4. rest[1] = s[(o + 1) + 1 - 1] /\ rest[2] = s[(o + 1) + 2 - 1]
      BY <3>2, <3>3
    <3>5. (o + 1) + 1 - 1 = o + 1 /\ (o + 1) + 2 - 1 = o + 2
      OBVIOUS
    <3>6. Len(rest) = Len(s) - o
      BY <1>0, <2>3, <3>2
    <3> HIDE DEF rest
    <3> QED
      BY <3>2, <3>4, <3>5, <3>6 DEF Text
  <2>6. LineEnd(rest) = 2
    <3> HIDE DEF rest
    <3>1. Len(rest) >= 2
      BY <1>0, <2>3, <2>5
    <3> QED
      BY <2>1, <2>4, <2>5, <3>1, LineEndIsTwo
  <2>7. SubSeq(rest, 1, 1) = <<s[o + 1]>>
    <3> HIDE DEF rest
    <3>1. rest \in Seq(App \cup {Newline}) /\ rest # <<>> /\ rest[1] = s[o + 1]
      BY <1>0, <2>3, <2>5 DEF Text
    <3> QED
      BY <3>1, FirstAlone
  <2> QED
    BY <1>0, <1>2, <2>1, <2>3, <2>4, <2>6, <2>7
<1> QED
  BY <1>1, <1>2

\* Appending the two bytes of a new line.
LEMMA WholeAppend ==
    ASSUME NEW s, Whole(s), Once(s), NEW a \in App, ~Listed(s, a)
    PROVE  LET new == Append(Append(s, a), Newline)
           IN  /\ Whole(new) /\ Once(new)
               /\ \A b : Listed(s, b) \/ b = a => Listed(new, b)
<1> DEFINE new == Append(Append(s, a), Newline)
<1>0. s \in Seq(App \cup {Newline}) /\ Len(s) \in Nat /\ a # Newline
  BY AppAssumption DEF Whole, Text
<1>1. /\ new \in Seq(App \cup {Newline}) /\ Len(new) = Len(s) + 2
      /\ \A i \in 1 .. Len(s) : new[i] = s[i]
      /\ new[Len(s) + 1] = a /\ new[Len(s) + 2] = Newline
  BY <1>0
<1> HIDE DEF new
<1>2. Whole(new)
  <2>1. new # <<>> /\ new[1] # Newline /\ new[Len(new)] = Newline
    BY <1>0, <1>1 DEF Whole
  <2>2. ASSUME NEW i \in 1 .. Len(new) - 1
        PROVE  new[i] = Newline <=> new[i + 1] # Newline
    <3>1. CASE i \in 1 .. Len(s) - 1
      <4>1. new[i] = s[i] /\ new[i + 1] = s[i + 1]
        BY <1>0, <1>1, <3>1
      <4> QED
        BY <3>1, <4>1 DEF Whole
    <3>2. CASE i = Len(s) /\ Len(s) > 0
      BY <1>0, <1>1, <3>2 DEF Whole
    <3>3. CASE i = Len(s) + 1
      BY <1>0, <1>1, <3>3
    <3> QED
      BY <1>0, <1>1, <3>1, <3>2, <3>3
  <2> QED
    BY <1>1, <2>1, <2>2 DEF Whole, Text
<1>3. Once(new)
  <2> SUFFICES ASSUME NEW i \in 1 .. Len(new), NEW j \in 1 .. Len(new),
                      new[i] = new[j], new[i] # Newline
               PROVE  i = j
    BY DEF Once
  <2>1. i # Len(s) + 2 /\ j # Len(s) + 2
    BY <1>1
  <2>2. CASE i \in 1 .. Len(s) /\ j \in 1 .. Len(s)
    BY <1>1, <2>2 DEF Once
  <2>3. CASE i = Len(s) + 1 \/ j = Len(s) + 1
    <3>1. new[i] = a /\ new[j] = a
      BY <1>1, <2>3
    <3>2. \A k \in 1 .. Len(s) : new[k] # a
      BY <1>1 DEF Listed
    <3> QED
      BY <1>0, <1>1, <2>1, <3>1, <3>2
  <2> QED
    BY <1>0, <1>1, <2>1, <2>2, <2>3
<1>4. ASSUME NEW b, Listed(s, b) \/ b = a
      PROVE  Listed(new, b)
  <2>1. Len(s) + 1 \in 1 .. Len(new) /\ \A i \in 1 .. Len(s) : i \in 1 .. Len(new)
    BY <1>0, <1>1
  <2> QED
    BY <1>1, <1>4, <2>1 DEF Listed
<1> QED
  BY <1>2, <1>3, <1>4 DEF new

\* Cutting out the line of a name.
LEMMA WholeCut ==
    ASSUME NEW s, Whole(s), Once(s), NEW i \in 1 .. Len(s), s[i] # Newline
    PROVE  LET new == SubSeq(s, 1, i - 1) \o SubSeq(s, i + 2, Len(s))
           IN  /\ Whole(new) /\ Once(new)
               /\ \A b \in App : Listed(s, b) /\ b # s[i] => Listed(new, b)
<1> DEFINE S == App \cup {Newline}
           left == SubSeq(s, 1, i - 1)
           right == SubSeq(s, i + 2, Len(s))
           new == left \o right
           n == Len(s)
           Old(k) == IF k < i THEN k ELSE k + 2
<1>0. s \in Seq(S) /\ n \in Nat /\ i \in Nat
  BY DEF Whole, Text
<1>1. i # n /\ i \in 1 .. n - 1 /\ s[i + 1] = Newline
  <2>1. i # n
    BY <1>0 DEF Whole
  <2>2. i \in 1 .. n - 1
    BY <1>0, <2>1
  <2> QED
    BY <2>1, <2>2 DEF Whole
<1>2. left \in Seq(S) /\ Len(left) = i - 1 /\ \A k \in 1 .. i - 1 : left[k] = s[k]
  <2>1. \A k \in 1 .. i - 1 : s[k] \in S
    BY <1>0, <1>1
  <2>2. /\ left \in Seq(S) /\ Len(left) = IF 1 <= i - 1 THEN i - 1 - 1 + 1 ELSE 0
        /\ \A k \in 1 .. i - 1 - 1 + 1 : left[k] = s[1 + k - 1]
    BY <1>0, <2>1, SubSeqProperties
  <2> HIDE DEF left
  <2>3. \A k \in 1 .. i - 1 : k \in 1 .. i - 1 - 1 + 1 /\ 1 + k - 1 = k
    BY <1>0
  <2>4. Len(left) = i - 1
    BY <1>0, <2>2
  <2> QED
    BY <2>2, <2>3, <2>4
<1>3. right \in Seq(S) /\ Len(right) = n - i - 1 /\ \A k \in 1 .. n - i - 1 : right[k] = s[i + 1 + k]
  <2>1. \A k \in i + 2 .. n : s[k] \in S
    BY <1>0, <1>1
  <2>2. /\ right \in Seq(S) /\ Len(right) = IF i + 2 <= n THEN n - (i + 2) + 1 ELSE 0
        /\ \A k \in 1 .. n - (i + 2) + 1 : right[k] = s[i + 2 + k - 1]
    BY <1>0, <2>1, SubSeqProperties
  <2> HIDE DEF right
  <2>3. \A k \in 1 .. n - i - 1 : k \in 1 .. n - (i + 2) + 1 /\ i + 2 + k - 1 = i + 1 + k
    BY <1>0
  <2>4. Len(right) = n - i - 1
    BY <1>0, <1>1, <2>2
  <2> QED
    BY <2>2, <2>3, <2>4
<1>4. /\ new \in Seq(S) /\ Len(new) = n - 2
      /\ \A k \in 1 .. n - 2 : new[k] = s[Old(k)]
  <2> HIDE DEF left, right
  <2>1. /\ new \in Seq(S) /\ Len(new) = Len(left) + Len(right)
        /\ \A k \in 1 .. Len(left) + Len(right) :
              new[k] = IF k <= Len(left) THEN left[k] ELSE right[k - Len(left)]
    BY <1>2, <1>3, ConcatProperties
  <2> HIDE DEF new
  <2>2. Len(new) = n - 2
    BY <1>0, <1>1, <1>2, <1>3, <2>1
  <2>3. ASSUME NEW k \in 1 .. n - 2
        PROVE  new[k] = s[Old(k)]
    <3>1. CASE k < i
      <4>1. k \in 1 .. i - 1 /\ k \in 1 .. Len(left) + Len(right) /\ k <= Len(left)
        BY <1>0, <1>1, <1>2, <1>3, <3>1
      <4>2. new[k] = left[k]
        BY <2>1, <4>1
      <4> QED
        BY <1>2, <3>1, <4>1, <4>2
    <3>2. CASE ~(k < i)
      <4>1. k - (i - 1) \in 1 .. n - i - 1 /\ i + 1 + (k - (i - 1)) = k + 2
        BY <1>0, <1>1, <3>2
      <4>2. new[k] = right[k - (i - 1)]
        BY <1>0, <1>1, <1>2, <1>3, <2>1, <3>2
      <4> QED
        BY <1>3, <3>2, <4>1, <4>2
    <3> QED
      BY <3>1, <3>2
  <2> QED
    BY <2>1, <2>2, <2>3
<1> HIDE DEF left, right, new
<1>5. \A k \in 1 .. n - 2 : Old(k) \in 1 .. n /\ Old(k) # i
  BY <1>0, <1>1
<1>6. Whole(new)
  <2>1. ASSUME new # <<>>
        PROVE  new[1] # Newline /\ new[Len(new)] = Newline
    <3>1. n - 2 >= 1 /\ 1 \in 1 .. n - 2 /\ n - 2 \in 1 .. n - 2
      BY <1>0, <1>1, <1>4, <2>1
    <3>2. new[1] = s[Old(1)] /\ new[Len(new)] = s[Old(n - 2)]
      BY <1>4, <3>1
    <3>3. s[1] # Newline /\ s[n] = Newline
      BY <1>0, <1>1 DEF Whole
    <3>4. i > 1 => i - 1 \in 1 .. n - 1 /\ s[i - 1] = Newline
      <4>1. i > 1 => i - 1 \in 1 .. n - 1 /\ (i - 1) + 1 = i
        BY <1>0, <1>1
      <4> QED
        BY <4>1 DEF Whole
    <3>5. i = 1 => s[3] # Newline
      <4>1. i = 1 => 2 \in 1 .. n - 1 /\ s[2] = Newline
        BY <1>0, <1>1, <3>1
      <4> QED
        BY <4>1 DEF Whole
    <3>6. s[Old(1)] # Newline
      BY <1>0, <1>1, <3>3, <3>5
    <3>7. s[Old(n - 2)] = Newline
      <4>1. CASE n - 2 < i
        <5>1. i = n - 1
          BY <1>0, <1>1, <4>1
        <5> QED
          BY <1>0, <1>1, <3>1, <3>4, <4>1, <5>1
      <4>2. CASE ~(n - 2 < i)
        BY <1>0, <3>3, <4>2
      <4> QED
        BY <4>1, <4>2
    <3> QED
      BY <3>2, <3>6, <3>7
  <2>2. ASSUME NEW k \in 1 .. Len(new) - 1
        PROVE  new[k] = Newline <=> new[k + 1] # Newline
    <3>1. k \in 1 .. n - 2 /\ k + 1 \in 1 .. n - 2
      BY <1>0, <1>4
    <3>2. new[k] = s[Old(k)] /\ new[k + 1] = s[Old(k + 1)]
      BY <1>4, <3>1
    <3>3. CASE k + 1 < i
      BY <1>0, <1>1, <3>1, <3>2, <3>3 DEF Whole
    <3>4. CASE k >= i
      <4>1. k + 2 \in 1 .. n - 1 /\ (k + 2) + 1 = (k + 1) + 2
        BY <1>0, <3>1
      <4> QED
        BY <1>0, <3>1, <3>2, <3>4, <4>1 DEF Whole
    <3>5. CASE k + 1 = i
      <4>1. k \in 1 .. n - 1 /\ s[k] = Newline
        BY <1>0, <1>1, <3>1, <3>5 DEF Whole
      <4>2. i + 1 \in 1 .. n - 1 /\ (i + 1) + 1 = i + 2
        BY <1>0, <3>1, <3>5
      <4>3. s[i + 2] # Newline
        BY <1>1, <4>2 DEF Whole
      <4> QED
        BY <1>0, <3>1, <3>2, <3>5, <4>1, <4>3
    <3> QED
      BY <1>0, <3>1, <3>3, <3>4, <3>5
  <2> QED
    BY <1>4, <2>1, <2>2 DEF Whole, Text
<1>7. Once(new)
  <2> SUFFICES ASSUME NEW k \in 1 .. Len(new), NEW j \in 1 .. Len(new),
                      new[k] = new[j], new[k] # Newline
               PROVE  k = j
    BY DEF Once
  <2>1. s[Old(k)] = s[Old(j)] /\ s[Old(k)] # Newline /\ Old(k) \in 1 .. n /\ Old(j) \in 1 .. n
    BY <1>4, <1>5
  <2>2. Old(k) = Old(j)
    <3> HIDE DEF Old
    <3> QED
      BY <2>1 DEF Once
  <2> QED
    BY <1>0, <1>4, <2>2
<1>8. ASSUME NEW b \in App, Listed(s, b), b # s[i]
      PROVE  Listed(new, b)
  <2>1. PICK k \in 1 .. n : s[k] = b
    BY <1>8 DEF Listed
  <2>2. k # i /\ k # i + 1
    BY <1>1, <1>8, <2>1, AppAssumption
  <2>3. CASE k < i
    BY <1>0, <1>1, <1>4, <2>1, <2>3 DEF Listed
  <2>4. CASE k > i + 1
    <3>1. k - 2 \in 1 .. n - 2 /\ ~(k - 2 < i) /\ (k - 2) + 2 = k
      BY <1>0, <1>1, <2>4
    <3>2. new[k - 2] = b
      BY <1>4, <2>1, <3>1
    <3> QED
      BY <1>4, <3>1, <3>2 DEF Listed
  <2> QED
    BY <1>0, <2>2, <2>3, <2>4
<1> QED
  BY <1>6, <1>7, <1>8 DEF new, left, right

-----------------------------------------------------------------------------
(***************************************************************************)
(* The type invariant, for any number of children.                         *)
(***************************************************************************)

\* A text that was read is no longer than the list may be.
TypeInv == TypeOK /\ \A c \in Child : Len(text[c]) <= MaxLength

\* A part of a text is a text, and no longer.
LEMMA PartOfText ==
    ASSUME NEW s \in Text, NEW m \in Nat \ {0}, NEW n \in 0 .. Len(s)
    PROVE  /\ SubSeq(s, m, n) \in Text
           /\ Len(SubSeq(s, m, n)) = IF m <= n THEN n - m + 1 ELSE 0
<1>1. s \in Seq(App \cup {Newline}) /\ Len(s) \in Nat
  BY DEF Text
<1>2. \A i \in m .. n : s[i] \in App \cup {Newline}
  BY <1>1
<1> QED
  BY <1>1, <1>2, SubSeqProperties DEF Text

LEMMA TwoTexts ==
    ASSUME NEW s \in Text, NEW t \in Text
    PROVE  s \o t \in Text /\ Len(s \o t) = Len(s) + Len(t)
  BY ConcatProperties DEF Text

LEMMA PlaceIs ==
    ASSUME NEW s \in Text, NEW a
    PROVE  \/ Place(s, a) = 0 /\ ~\E i \in 1 .. Len(s) - 1 : s[i] = a /\ s[i + 1] = Newline
           \/ /\ Place(s, a) \in 1 .. Len(s) - 1
              /\ s[Place(s, a)] = a /\ s[Place(s, a) + 1] = Newline
<1> DEFINE At(i) == s[i] = a /\ s[i + 1] = Newline
           First(i) == At(i) /\ \A j \in 1 .. i - 1 : ~At(j)
<1>1. CASE ~\E i \in 1 .. Len(s) - 1 : At(i)
  BY <1>1 DEF Place
<1>2. CASE \E i \in 1 .. Len(s) - 1 : At(i)
  <2>1. \E i \in 1 .. Len(s) - 1 : First(i)
    <3> DEFINE I == {i \in 1 .. Len(s) - 1 : At(i)}
    <3>1. I \subseteq Nat /\ I # {}
      <4>1. PICK i \in 1 .. Len(s) - 1 : At(i)
        BY <1>2
      <4>2. i \in I
        BY <4>1
      <4>3. Len(s) \in Nat
        BY DEF Text
      <4>4. \A k \in 1 .. Len(s) - 1 : k \in Nat
        BY <4>3
      <4>5. I \subseteq Nat
        BY <4>4
      <4> QED
        BY <4>2, <4>5
    <3>2. PICK i \in I : \A j \in I : i <= j
      <4> HIDE DEF I
      <4> QED
        BY <3>1, LeastOf
    <3>3. Len(s) \in Nat
      BY DEF Text
    <3>4. \A j \in 1 .. i - 1 : j \in 1 .. Len(s) - 1 /\ ~(i <= j)
      BY <3>3
    <3>5. First(i)
      BY <3>2, <3>4
    <3> QED
      BY <3>5
  <2>2. Place(s, a) = CHOOSE i \in 1 .. Len(s) - 1 : First(i)
    BY <1>2 DEF Place
  <2>3. Place(s, a) \in 1 .. Len(s) - 1 /\ First(Place(s, a))
    <3> HIDE DEF First
    <3> QED
      BY <2>1, <2>2
  <2> QED
    BY <2>3
<1> QED
  BY <1>1, <1>2

LEMMA RemoveType ==
    ASSUME NEW s \in Text, NEW a, NEW stale \in BOOLEAN
    PROVE  removeString(s, a, stale) \in Text /\ Len(removeString(s, a, stale)) <= Len(s)
<1> DEFINE i == Place(s, a)
<1>0. Len(s) \in Nat
  BY DEF Text
<1>1. CASE stale \/ i = 0
  BY <1>0, <1>1 DEF removeString
<1>2. CASE ~(stale \/ i = 0)
  <2>1. i \in 1 .. Len(s) - 1
    BY <1>2, PlaceIs
  <2> HIDE DEF i
  <2> DEFINE left == SubSeq(s, 1, i - 1)
             right == SubSeq(s, i + 2, Len(s))
  <2>2. left \in Text /\ Len(left) = i - 1
    <3>1. i - 1 \in 0 .. Len(s) /\ 1 \in Nat \ {0}
      BY <1>0, <2>1
    <3>2. left \in Text /\ Len(left) = IF 1 <= i - 1 THEN i - 1 - 1 + 1 ELSE 0
      BY <3>1, PartOfText
    <3> HIDE DEF left
    <3> QED
      BY <1>0, <2>1, <3>2
  <2>3. right \in Text /\ Len(right) = Len(s) - i - 1
    <3>1. i + 2 \in Nat \ {0} /\ Len(s) \in 0 .. Len(s)
      BY <1>0, <2>1
    <3>2. right \in Text /\ Len(right) = IF i + 2 <= Len(s) THEN Len(s) - (i + 2) + 1 ELSE 0
      BY <3>1, PartOfText
    <3> HIDE DEF right
    <3> QED
      BY <1>0, <2>1, <3>2
  <2>4. removeString(s, a, stale) = left \o right
    BY <1>2 DEF removeString, i
  <2> HIDE DEF left, right
  <2>5. Len(removeString(s, a, stale)) = (i - 1) + (Len(s) - i - 1)
    BY <2>2, <2>3, <2>4, TwoTexts
  <2>6. removeString(s, a, stale) \in Text
    BY <2>2, <2>3, <2>4, TwoTexts
  <2> QED
    BY <1>0, <2>1, <2>5, <2>6
<1> QED
  BY <1>1, <1>2

LEMMA TypeInit == Init => TypeInv
<1> SUFFICES ASSUME Init PROVE TypeInv
  OBVIOUS
<1>1. <<>> \in Text /\ Len(<<>>) = 0 /\ 0 \in 0 .. MaxLength
  BY LengthAssumption DEF Text
<1>2. (CHOOSE a \in App : TRUE) \in App
  BY AppAssumption
<1> QED
  BY <1>1, <1>2, LengthAssumption DEF Init, TypeInv, TypeOK, Step

LEMMA ScanType ==
    ASSUME TypeInv, NEW c \in Child, ScanLine(c)
    PROVE  TypeInv'
<1> DEFINE rest == SubSeq(list, offset[c] + 1, Len(list))
           end == LineEnd(rest)
<1>0. /\ list \in Text /\ Len(list) \in Nat /\ Len(list) <= MaxLength
      /\ offset[c] \in Nat /\ offset \in [Child -> 0 .. MaxLength]
  BY LengthAssumption DEF TypeInv, TypeOK, Text
<1>1. rest \in Text /\ Len(rest) = IF offset[c] + 1 <= Len(list) THEN Len(list) - offset[c] ELSE 0
  <2>1. offset[c] + 1 \in Nat \ {0} /\ Len(list) \in 0 .. Len(list)
    BY <1>0
  <2>2. /\ rest \in Text
        /\ Len(rest) = IF offset[c] + 1 <= Len(list) THEN Len(list) - (offset[c] + 1) + 1 ELSE 0
    BY <1>0, <2>1, PartOfText
  <2>3. Len(list) - (offset[c] + 1) + 1 = Len(list) - offset[c]
    BY <1>0
  <2> HIDE DEF rest
  <2> QED
    BY <2>2, <2>3
<1> HIDE DEF rest
<1>2. end = 0 \/ end \in 1 .. Len(rest)
  <2> DEFINE I == {i \in 1 .. Len(rest) : rest[i] = Newline}
  <2>1. CASE I = {}
    <3>1. ~Contains(rest, Newline)
      BY <2>1 DEF Contains
    <3> QED
      BY <3>1 DEF LineEnd
  <2>2. CASE I # {}
    <3>1. Contains(rest, Newline)
      BY <2>2 DEF Contains
    <3>2. I \subseteq Nat
      OBVIOUS
    <3>3. Min(I) \in I
      <4> HIDE DEF I
      <4>1. \E i \in I : \A j \in I : i <= j
        BY <2>2, <3>2, LeastOf
      <4> QED
        BY <4>1 DEF Min
    <3>4. SelectInSeq(rest, LAMBDA t : t = Newline) = Min(I)
      BY <2>2 DEF SelectInSeq
    <3> QED
      BY <3>1, <3>3, <3>4 DEF LineEnd
  <2> QED
    BY <2>1, <2>2
<1>3. UNCHANGED <<installed, list, op, app, text>>
  BY DEF ScanLine
<1>4. CASE Decide(c, FALSE) \/ Decide(c, TRUE)
  <2>1. /\ offset' = [offset EXCEPT ![c] = 0]
        /\ \E p \in Step : pc' = [pc EXCEPT ![c] = p]
        /\ answer' = answer \/ \E a \in {"Y", "N", "F"} : answer' = [answer EXCEPT ![c] = a]
    BY <1>4 DEF Decide, Finish, Goto, Step
  <2> QED
    BY <1>0, <1>3, <2>1, LengthAssumption DEF TypeInv, TypeOK
<1>5. CASE /\ end # 0 /\ offset' = [offset EXCEPT ![c] = @ + end] /\ UNCHANGED <<pc, answer>>
  <2>1. offset[c] + end \in 0 .. MaxLength
    <3> HIDE DEF end
    <3> QED
      BY <1>0, <1>1, <1>2, <1>5, LengthAssumption
  <2>2. offset' \in [Child -> 0 .. MaxLength]
    BY <1>0, <1>5, <2>1
  <2> QED
    BY <1>3, <1>5, <2>2 DEF TypeInv, TypeOK
<1>6. \/ Decide(c, FALSE) \/ Decide(c, TRUE)
      \/ end # 0 /\ offset' = [offset EXCEPT ![c] = @ + end] /\ UNCHANGED <<pc, answer>>
  BY DEF ScanLine, rest
<1> QED
  BY <1>4, <1>5, <1>6

LEMMA RewriteType ==
    ASSUME TypeInv, NEW c \in Child, Rewrite(c)
    PROVE  TypeInv'
<1>0. /\ list \in Text /\ Len(list) \in Nat /\ Len(list) <= MaxLength
      /\ text[c] \in Text /\ Len(text[c]) \in Nat /\ Len(text[c]) <= MaxLength
  BY DEF TypeInv, TypeOK, Text
<1>1. PICK stale \in BOOLEAN :
        LET new == removeString(text[c], app[c], stale)
        IN  list' = new \o SubSeq(list, Len(new) + 1, Len(list))
  BY StaleAssumption DEF Rewrite
<1> DEFINE new == removeString(text[c], app[c], stale)
           tail == SubSeq(list, Len(new) + 1, Len(list))
<1>2. new \in Text /\ Len(new) \in Nat /\ Len(new) <= MaxLength
  <2>1. new \in Text /\ Len(new) <= Len(text[c])
    BY <1>0, RemoveType
  <2> HIDE DEF new
  <2>2. Len(new) \in Nat
    BY <2>1 DEF Text
  <2> QED
    BY <1>0, <2>1, <2>2, LengthAssumption
<1> HIDE DEF new
<1>3. /\ tail \in Text
      /\ Len(tail) = IF Len(new) + 1 <= Len(list) THEN Len(list) - (Len(new) + 1) + 1 ELSE 0
  <2>1. Len(new) + 1 \in Nat \ {0} /\ Len(list) \in 0 .. Len(list)
    BY <1>0, <1>2
  <2> QED
    BY <1>0, <2>1, PartOfText
<1> HIDE DEF tail
<1>4. list' = new \o tail
  BY <1>1 DEF new, tail
<1>5. list' \in Text /\ Len(list') <= MaxLength
  <2>1. list' \in Text /\ Len(list') = Len(new) + Len(tail)
    BY <1>2, <1>3, <1>4, TwoTexts
  <2>2. Len(new) + Len(tail) <= MaxLength
    BY <1>0, <1>2, <1>3, LengthAssumption
  <2> QED
    BY <2>1, <2>2
<1>6. text' = [text EXCEPT ![c] = <<>>] /\ <<>> \in Text /\ Len(<<>>) = 0
  BY DEF Rewrite, Text
<1>7. /\ UNCHANGED <<installed, op, app, offset>>
      /\ pc' = [pc EXCEPT ![c] = "reply"] /\ answer' = [answer EXCEPT ![c] = "S"]
  BY DEF Rewrite, Finish, Goto
<1> QED
  BY <1>5, <1>6, <1>7, LengthAssumption DEF TypeInv, TypeOK, Step

LEMMA OtherType ==
    ASSUME TypeInv, NEW c \in Child,
           \/ Request(c) \/ Reply(c)
           \/ PkgAdd(c) \/ PkgAddFails(c) \/ PkgAddCrashes(c) \/ WriteName(c) \/ WriteNewline(c)
           \/ PkgRm(c) \/ PkgRmFails(c) \/ Reread(c) \/ Truncate(c)
    PROVE  TypeInv'
<1> USE DEF TypeInv, TypeOK, Step
<1>1. CASE Request(c)
  BY <1>1 DEF Request
<1>6. CASE Reply(c)
  BY <1>6 DEF Reply, Goto
<1>2. CASE PkgAddFails(c) \/ PkgAddCrashes(c) \/ PkgRmFails(c)
  BY <1>2 DEF PkgAddFails, PkgAddCrashes, PkgRmFails, Finish, Goto
<1>7. CASE PkgAdd(c) \/ PkgRm(c)
  <2>1. installed' \subseteq App
    BY <1>7 DEF PkgAdd, PkgRm
  <2>2. pc' \in [Child -> Step]
    BY <1>7 DEF PkgAdd, PkgRm, Goto
  <2>3. UNCHANGED <<list, op, app, offset, text, answer>>
    BY <1>7 DEF PkgAdd, PkgRm
  <2> QED
    BY <2>1, <2>2, <2>3
<1>3. CASE WriteName(c) \/ WriteNewline(c)
  <2>1. PICK e \in App \cup {Newline} : list' = Append(list, e)
    BY <1>3 DEF WriteName, WriteNewline
  <2>2. list' \in Text /\ Len(list') = Len(list) + 1 /\ Len(list) \in Nat
    BY <2>1 DEF Text
  <2>3. Len(list') <= MaxLength
    BY <1>3, <2>2, LengthAssumption DEF WriteName, WriteNewline
  <2> QED
    BY <1>3, <2>2, <2>3 DEF WriteName, WriteNewline, Finish, Goto
<1>4. CASE Reread(c)
  BY <1>4 DEF Reread, Goto
<1>5. CASE Truncate(c)
  <2>1. <<>> \in Text /\ Len(<<>>) <= MaxLength
    BY LengthAssumption DEF Text
  <2> QED
    BY <1>5, <2>1 DEF Truncate, Goto
<1> QED
  BY <1>1, <1>2, <1>3, <1>4, <1>5, <1>6, <1>7

LEMMA TypeNext == TypeInv /\ [Next]_vars => TypeInv'
<1> SUFFICES ASSUME TypeInv, [Next]_vars PROVE TypeInv'
  OBVIOUS
<1>1. CASE UNCHANGED vars
  BY <1>1 DEF vars, TypeInv, TypeOK
<1>2. CASE Next
  <2>1. PICK c \in Child :
            \/ Request(c) \/ ScanLine(c) \/ Reply(c)
            \/ PkgAdd(c) \/ PkgAddFails(c) \/ PkgAddCrashes(c) \/ WriteName(c) \/ WriteNewline(c)
            \/ PkgRm(c) \/ PkgRmFails(c) \/ Reread(c) \/ Truncate(c) \/ Rewrite(c)
    BY <1>2 DEF Next
  <2> QED
    BY <2>1, ScanType, RewriteType, OtherType
<1> QED
  BY <1>1, <1>2

LEMMA TypeHolds == Spec => []TypeInv
  BY TypeInit, TypeNext, PTL DEF Spec

\* Every reachable state is well typed, however many children race: the list is never
\* longer than a child that scans it can count.
THEOREM TypeCorrect == Spec => []TypeOK
<1>1. TypeInv => TypeOK
  BY DEF TypeInv
<1> QED
  BY <1>1, TypeHolds, PTL

-----------------------------------------------------------------------------
(***************************************************************************)
(* One request at a time.                                                  *)
(***************************************************************************)

\* The list as it was when it was last whole.
Book(c) ==
    CASE pc[c] = "newline" -> SubSeq(list, 1, Len(list) - 1)
      [] pc[c] = "rewrite" -> text[c]
      [] OTHER -> list

\* What is installed stands in the book; a name that is being written, not yet.
InstalledInBook(c) ==
    \A a \in installed : Listed(Book(c), a) \/ (pc[c] \in {"name", "newline"} /\ a = app[c])

\* The lines a scan has passed do not hold the name it looks for.
Scanned(c) ==
    /\ pc[c] # "scan" => offset[c] = 0
    /\ pc[c] = "scan" =>
         /\ offset[c] \in 0 .. Len(list)
         /\ offset[c] = 0 \/ list[offset[c]] = Newline
         /\ \A i \in 1 .. offset[c] : list[i] # app[c]

\* What a child that runs a tool or edits the list has found out.
Installing(c) ==
    pc[c] \in {"pkgadd", "name", "newline"} =>
        /\ op[c] = "install"
        /\ ~Listed(Book(c), app[c])
        /\ pc[c] # "pkgadd" => app[c] \in installed
        /\ pc[c] = "newline" => list = Append(Book(c), app[c])

Uninstalling(c) ==
    pc[c] \in {"pkgrm", "reread", "truncate", "rewrite"} =>
        /\ op[c] = "uninstall"
        /\ pc[c] # "pkgrm" => app[c] \notin installed
        /\ pc[c] = "truncate" => text[c] = list
        /\ pc[c] = "rewrite" => list = <<>>

Answering(c) ==
    pc[c] = "reply" =>
        /\ op[c] = "install" /\ answer[c] = "S" => app[c] \in installed
        /\ op[c] = "install" /\ answer[c] = "S" => Listed(list, app[c])
        /\ op[c] = "uninstall" /\ answer[c] = "S" => app[c] \notin installed
        /\ op[c] = "skip" /\ answer[c] = "N" => app[c] \notin installed

SerialInv(c) ==
    /\ Whole(Book(c)) /\ Once(Book(c))
    /\ InstalledInBook(c)
    /\ Scanned(c)
    /\ Installing(c)
    /\ Uninstalling(c)
    /\ Answering(c)

\* The only child.
Alone(c) == c \in Child /\ Child = {c}

LEMMA SerialInit == ASSUME NEW c, Alone(c), Init PROVE SerialInv(c)
<1>1. /\ pc[c] = "idle" /\ offset[c] = 0 /\ list = <<>> /\ installed = {}
  BY DEF Alone, Init
<1>2. Whole(<<>>) /\ Once(<<>>)
  BY DEF Whole, Once, Text
<1> QED
  BY <1>1, <1>2
  DEF SerialInv, Book, InstalledInBook, Scanned, Installing, Uninstalling, Answering

\* Steps that leave list and tools alone.
LEMMA SerialQuiet ==
    ASSUME NEW c, Alone(c), TypeInv, SerialInv(c),
           \/ Request(c) \/ Reply(c)
           \/ PkgAddFails(c) \/ PkgAddCrashes(c) \/ PkgRmFails(c)
    PROVE  SerialInv(c)'
<1>1. /\ UNCHANGED <<installed, list, offset, text>> /\ Book(c) = list
      /\ pc[c] # "scan" /\ c \in Child
      /\ pc'[c] \in {"scan", "idle", "reply"}
      /\ pc'[c] = "reply" => answer'[c] = "F"
  BY DEF Alone, TypeInv, TypeOK, Request, Reply, PkgAddFails, PkgAddCrashes, PkgRmFails,
         Finish, Goto, Book
<1>2. Book(c)' = list
  BY <1>1 DEF Book
<1>3. Whole(Book(c))' /\ Once(Book(c))'
  BY <1>1, <1>2 DEF SerialInv
<1>4. \A a \in installed : Listed(list, a)
  <2>1. pc[c] \notin {"name", "newline"}
    BY DEF Request, Reply, PkgAddFails, PkgAddCrashes, PkgRmFails
  <2> QED
    BY <1>1, <2>1 DEF SerialInv, InstalledInBook
<1>5. InstalledInBook(c)'
  BY <1>1, <1>2, <1>4 DEF InstalledInBook
<1>6. Scanned(c)'
  <2>1. offset[c] = 0 /\ Len(list) \in Nat
    BY <1>1 DEF SerialInv, Scanned, TypeInv, TypeOK, Text
  <2> QED
    BY <1>1, <2>1 DEF Scanned
<1> QED
  BY <1>1, <1>3, <1>5, <1>6 DEF SerialInv, Installing, Uninstalling, Answering

LEMMA SerialScan ==
    ASSUME NEW c, Alone(c), TypeInv, SerialInv(c), ScanLine(c)
    PROVE  SerialInv(c)'
<1> DEFINE o == offset[c]
           rest == SubSeq(list, o + 1, Len(list))
           end == LineEnd(rest)
           line == SubSeq(rest, 1, end - 1)
<1>0. /\ c \in Child /\ pc[c] = "scan" /\ Book(c) = list
      /\ UNCHANGED <<installed, list, op, app, text>>
      /\ pc \in [Child -> Step] /\ offset \in [Child -> 0 .. MaxLength]
      /\ answer \in [Child -> {"none", "Y", "N", "S", "F"}]
      /\ app[c] \in App /\ op[c] \in {"install", "uninstall", "skip"}
  BY DEF Alone, ScanLine, Book, TypeInv, TypeOK
<1>1. /\ Whole(list) /\ Once(list) /\ Len(list) \in Nat
      /\ \A a \in installed : Listed(list, a)
      /\ o \in 0 .. Len(list) /\ (o = 0 \/ list[o] = Newline)
      /\ \A i \in 1 .. o : list[i] # app[c]
  BY <1>0 DEF SerialInv, InstalledInBook, Scanned, Whole, Text
<1>2. /\ o = Len(list) => end = 0
      /\ o < Len(list) => /\ o + 2 <= Len(list)
                          /\ list[o + 1] \in App
                          /\ list[o + 2] = Newline
                          /\ end = 2
                          /\ line = <<list[o + 1]>>
  <2> HIDE DEF o
  <2> QED
    BY <1>1, NextLine
<1>3. \/ end = 0 /\ Decide(c, FALSE)
      \/ end # 0 /\ line = <<app[c]>> /\ Decide(c, TRUE)
      \/ /\ end # 0 /\ line # <<app[c]>>
         /\ offset' = [offset EXCEPT ![c] = @ + end]
         /\ UNCHANGED <<pc, answer>>
  BY DEF ScanLine
<1> HIDE DEF end, line, rest
<1>4. CASE end = 0 /\ Decide(c, FALSE)
  <2>1. ~Listed(list, app[c]) /\ app[c] \notin installed
    <3>1. o = Len(list)
      BY <1>1, <1>2, <1>4
    <3> QED
      BY <1>1, <3>1 DEF Listed
  <2>2. /\ pc'[c] \in {"reply", "pkgadd"} /\ offset'[c] = 0
        /\ pc'[c] = "pkgadd" => op[c] = "install"
        /\ pc'[c] = "reply" => answer'[c] # "S"
    BY <1>0, <1>4 DEF Decide, Finish, Goto
  <2>3. Book(c)' = list
    BY <1>0, <2>2 DEF Book
  <2> QED
    BY <1>0, <1>1, <2>1, <2>2, <2>3
    DEF SerialInv, InstalledInBook, Scanned, Installing, Uninstalling, Answering
<1>5. CASE end # 0 /\ Decide(c, TRUE)
  <2>2. /\ pc'[c] \in {"reply", "pkgrm"} /\ offset'[c] = 0
        /\ pc'[c] = "pkgrm" => op[c] = "uninstall"
        /\ pc'[c] = "reply" => answer'[c] \in {"Y", "F"}
    BY <1>0, <1>5 DEF Decide, Finish, Goto
  <2>3. Book(c)' = list
    BY <1>0, <2>2 DEF Book
  <2> QED
    BY <1>0, <1>1, <2>2, <2>3
    DEF SerialInv, InstalledInBook, Scanned, Installing, Uninstalling, Answering
<1>6. CASE /\ end # 0 /\ line # <<app[c]>>
           /\ offset' = [offset EXCEPT ![c] = @ + end]
           /\ UNCHANGED <<pc, answer>>
  <2>1. /\ o + 2 <= Len(list) /\ list[o + 2] = Newline /\ end = 2
        /\ list[o + 1] # app[c] /\ Newline # app[c]
    <3>1. o < Len(list)
      BY <1>1, <1>2, <1>6
    <3> QED
      BY <1>0, <1>2, <1>6, <3>1, AppAssumption
  <2>2. offset'[c] = o + 2
    BY <1>0, <1>6, <2>1
  <2>3. Scanned(c)'
    <3>1. \A i \in 1 .. o + 2 : i \in 1 .. o \/ i = o + 1 \/ i = o + 2
      BY <1>1
    <3>2. \A i \in 1 .. o + 2 : list[i] # app[c]
      BY <1>1, <2>1, <3>1
    <3>3. o + 2 \in 0 .. Len(list)
      BY <1>1, <2>1
    <3> HIDE DEF o
    <3> QED
      BY <1>0, <1>6, <2>1, <2>2, <3>2, <3>3 DEF Scanned
  <2>4. Book(c)' = list
    BY <1>0, <1>6 DEF Book
  <2> QED
    BY <1>0, <1>1, <1>6, <2>3, <2>4
    DEF SerialInv, InstalledInBook, Installing, Uninstalling, Answering
<1> QED
  BY <1>3, <1>4, <1>5, <1>6

LEMMA SerialPkg ==
    ASSUME NEW c, Alone(c), TypeInv, SerialInv(c), PkgAdd(c) \/ PkgRm(c)
    PROVE  SerialInv(c)'
<1>1. c \in Child /\ Book(c) = list /\ pc \in [Child -> Step] /\ pc[c] \notin {"name", "newline"}
  BY DEF Alone, PkgAdd, PkgRm, Book, TypeInv, TypeOK
<1>2. /\ Whole(list) /\ Once(list) /\ offset[c] = 0
      /\ \A a \in installed : Listed(list, a)
  BY <1>1 DEF SerialInv, InstalledInBook, Scanned, PkgAdd, PkgRm
<1>3. CASE PkgAdd(c)
  <2>1. /\ pc'[c] = "name" /\ installed' = installed \cup {app[c]}
        /\ UNCHANGED <<list, op, app, offset, text, answer>>
        /\ op[c] = "install" /\ ~Listed(list, app[c])
    BY <1>1, <1>3 DEF PkgAdd, Goto, SerialInv, Installing
  <2>2. Book(c)' = list
    BY <2>1 DEF Book
  <2> QED
    BY <1>2, <2>1, <2>2
    DEF SerialInv, InstalledInBook, Scanned, Installing, Uninstalling, Answering
<1>4. CASE PkgRm(c)
  <2>1. /\ pc'[c] = "reread" /\ installed' = installed \ {app[c]}
        /\ UNCHANGED <<list, op, app, offset, text, answer>>
        /\ op[c] = "uninstall"
    BY <1>1, <1>4 DEF PkgRm, Goto, SerialInv, Uninstalling
  <2>2. Book(c)' = list
    BY <2>1 DEF Book
  <2> QED
    BY <1>2, <2>1, <2>2
    DEF SerialInv, InstalledInBook, Scanned, Installing, Uninstalling, Answering
<1> QED
  BY <1>3, <1>4

LEMMA SerialWriteName ==
    ASSUME NEW c, Alone(c), TypeInv, SerialInv(c), WriteName(c)
    PROVE  SerialInv(c)'
<1>1. c \in Child /\ Book(c) = list /\ pc \in [Child -> Step] /\ list \in Text /\ app[c] \in App
  BY DEF Alone, WriteName, Book, TypeInv, TypeOK
<1>2. /\ Whole(list) /\ Once(list) /\ offset[c] = 0 /\ ~Listed(list, app[c])
      /\ op[c] = "install" /\ app[c] \in installed
      /\ \A a \in installed : Listed(list, a) \/ a = app[c]
  BY <1>1 DEF SerialInv, InstalledInBook, Scanned, Installing, WriteName
<1>3. /\ pc'[c] = "newline" /\ list' = Append(list, app[c])
      /\ UNCHANGED <<installed, op, app, offset, text, answer>>
  BY <1>1 DEF WriteName, Goto
<1>4. Book(c)' = list
  <2>1. Book(c)' = SubSeq(Append(list, app[c]), 1, Len(Append(list, app[c])) - 1)
    BY <1>3 DEF Book
  <2>2. SubSeq(Append(list, app[c]), 1, Len(Append(list, app[c])) - 1) = list
    BY <1>1, LastOff
  <2> QED
    BY <2>1, <2>2
<1> QED
  BY <1>2, <1>3, <1>4
  DEF SerialInv, InstalledInBook, Scanned, Installing, Uninstalling, Answering

LEMMA SerialWriteNewline ==
    ASSUME NEW c, Alone(c), TypeInv, SerialInv(c), WriteNewline(c)
    PROVE  SerialInv(c)'
<1> DEFINE old == Book(c)
<1>1. c \in Child /\ pc \in [Child -> Step] /\ answer \in [Child -> {"none", "Y", "N", "S", "F"}]
      /\ app[c] \in App /\ pc[c] = "newline"
  BY DEF Alone, WriteNewline, TypeInv, TypeOK
<1>2. /\ Whole(old) /\ Once(old) /\ offset[c] = 0 /\ ~Listed(old, app[c])
      /\ op[c] = "install" /\ app[c] \in installed /\ list = Append(old, app[c])
      /\ \A a \in installed : Listed(old, a) \/ a = app[c]
  BY <1>1 DEF SerialInv, InstalledInBook, Scanned, Installing
<1> HIDE DEF old
<1>3. /\ pc'[c] = "reply" /\ answer'[c] = "S"
      /\ list' = Append(Append(old, app[c]), Newline)
      /\ UNCHANGED <<installed, op, app, offset, text>>
  BY <1>1, <1>2 DEF WriteNewline, Finish, Goto
<1>4. /\ Whole(list') /\ Once(list')
      /\ \A a : Listed(old, a) \/ a = app[c] => Listed(list', a)
  BY <1>1, <1>2, <1>3, WholeAppend
<1>5. Book(c)' = list'
  BY <1>3 DEF Book
<1> QED
  BY <1>2, <1>3, <1>4, <1>5
  DEF SerialInv, InstalledInBook, Scanned, Installing, Uninstalling, Answering

LEMMA SerialRereadTruncate ==
    ASSUME NEW c, Alone(c), TypeInv, SerialInv(c), Reread(c) \/ Truncate(c)
    PROVE  SerialInv(c)'
<1>1. c \in Child /\ Book(c) = list /\ pc \in [Child -> Step] /\ text \in [Child -> Text]
  BY DEF Alone, Reread, Truncate, Book, TypeInv, TypeOK
<1>2. /\ Whole(list) /\ Once(list) /\ offset[c] = 0
      /\ op[c] = "uninstall" /\ app[c] \notin installed
      /\ \A a \in installed : Listed(list, a)
      /\ pc[c] = "truncate" => text[c] = list
  BY <1>1 DEF SerialInv, InstalledInBook, Scanned, Uninstalling, Reread, Truncate
<1>3. UNCHANGED <<installed, op, app, offset, answer>>
  BY DEF Reread, Truncate
<1>4. CASE Reread(c)
  <2>1. pc'[c] = "truncate" /\ text'[c] = list /\ list' = list
    BY <1>1, <1>4 DEF Reread, Goto
  <2>2. Book(c)' = list
    BY <2>1 DEF Book
  <2> QED
    BY <1>2, <1>3, <2>1, <2>2
    DEF SerialInv, InstalledInBook, Scanned, Installing, Uninstalling, Answering
<1>5. CASE Truncate(c)
  <2>1. pc'[c] = "rewrite" /\ text'[c] = list /\ list' = <<>>
    BY <1>1, <1>2, <1>5 DEF Truncate, Goto
  <2>2. Book(c)' = list
    BY <2>1 DEF Book
  <2> QED
    BY <1>2, <1>3, <2>1, <2>2
    DEF SerialInv, InstalledInBook, Scanned, Installing, Uninstalling, Answering
<1> QED
  BY <1>4, <1>5

\* What removeString() leaves of a whole text is whole, and short of the name at most.
LEMMA RemoveKeeps ==
    ASSUME NEW s, Whole(s), Once(s), NEW a \in App, NEW stale \in BOOLEAN
    PROVE  LET new == removeString(s, a, stale)
           IN  /\ Whole(new) /\ Once(new)
               /\ \A b \in App : Listed(s, b) /\ b # a => Listed(new, b)
<1>0. s \in Text /\ Len(s) \in Nat
  BY DEF Whole, Text
<1>1. CASE stale \/ Place(s, a) = 0
  BY <1>1 DEF removeString
<1>2. CASE ~(stale \/ Place(s, a) = 0)
  <2> DEFINE i == Place(s, a)
  <2>1. i \in 1 .. Len(s) - 1 /\ s[i] = a
    BY <1>0, <1>2, PlaceIs
  <2> HIDE DEF i
  <2>2. i \in 1 .. Len(s) /\ s[i] # Newline
    BY <1>0, <2>1, AppAssumption
  <2>3. removeString(s, a, stale) = SubSeq(s, 1, i - 1) \o SubSeq(s, i + 2, Len(s))
    BY <1>2 DEF removeString, i
  <2> QED
    BY <2>1, <2>2, <2>3, WholeCut
<1> QED
  BY <1>1, <1>2

LEMMA SerialRewrite ==
    ASSUME NEW c, Alone(c), TypeInv, SerialInv(c), Rewrite(c)
    PROVE  SerialInv(c)'
<1>1. c \in Child /\ pc[c] = "rewrite" /\ Book(c) = text[c] /\ pc \in [Child -> Step]
      /\ answer \in [Child -> {"none", "Y", "N", "S", "F"}] /\ app[c] \in App
      /\ installed \subseteq App
  BY DEF Alone, Rewrite, Book, TypeInv, TypeOK
<1>2. /\ Whole(text[c]) /\ Once(text[c]) /\ offset[c] = 0 /\ list = <<>>
      /\ op[c] = "uninstall" /\ app[c] \notin installed
      /\ \A a \in installed : Listed(text[c], a)
  BY <1>1 DEF SerialInv, InstalledInBook, Scanned, Uninstalling
<1>3. PICK stale \in BOOLEAN :
        LET new == removeString(text[c], app[c], stale)
        IN  list' = new \o SubSeq(list, Len(new) + 1, Len(list))
  BY StaleAssumption DEF Rewrite
<1> DEFINE new == removeString(text[c], app[c], stale)
<1>4. /\ Whole(new) /\ Once(new)
      /\ \A b \in App : Listed(text[c], b) /\ b # app[c] => Listed(new, b)
  BY <1>1, <1>2, RemoveKeeps
<1>5. list' = new
  <2>1. list' = new \o SubSeq(<<>>, Len(new) + 1, Len(<<>>))
    BY <1>2, <1>3
  <2> HIDE DEF new
  <2>2. new \in Seq(App \cup {Newline}) /\ Len(new) \in Nat
    BY <1>4 DEF Whole, Text
  <2>3. SubSeq(<<>>, Len(new) + 1, Len(<<>>)) = <<>>
    <3>1. <<>> \in Seq(App) /\ Len(<<>>) \in Nat /\ Len(new) + 1 \in Nat /\ Len(<<>>) < Len(new) + 1
      BY <2>2
    <3> QED
      BY <3>1, NothingLeft
  <2>4. new \o <<>> = new
    BY <2>2, ConcatEmptySeq
  <2> QED
    BY <2>1, <2>3, <2>4
<1> HIDE DEF new
<1>6. /\ pc'[c] = "reply" /\ answer'[c] = "S"
      /\ UNCHANGED <<installed, op, app, offset>>
  BY <1>1 DEF Rewrite, Finish, Goto
<1>7. Book(c)' = new
  BY <1>5, <1>6 DEF Book
<1>8. \A a \in installed : Listed(new, a)
  BY <1>1, <1>2, <1>4
<1> QED
  BY <1>2, <1>4, <1>5, <1>6, <1>7, <1>8
  DEF SerialInv, InstalledInBook, Scanned, Installing, Uninstalling, Answering

LEMMA SerialNext ==
    ASSUME NEW c, Alone(c), TypeInv, SerialInv(c), [Next]_vars
    PROVE  SerialInv(c)'
<1>1. CASE UNCHANGED vars
  BY <1>1 DEF vars, SerialInv, Book, InstalledInBook, Scanned, Installing, Uninstalling, Answering
<1>2. CASE Next
  <2>1. \/ Request(c) \/ ScanLine(c) \/ Reply(c)
        \/ PkgAdd(c) \/ PkgAddFails(c) \/ PkgAddCrashes(c) \/ WriteName(c) \/ WriteNewline(c)
        \/ PkgRm(c) \/ PkgRmFails(c) \/ Reread(c) \/ Truncate(c) \/ Rewrite(c)
    BY <1>2 DEF Next, Alone
  <2> QED
    BY <2>1, SerialQuiet, SerialScan, SerialPkg, SerialWriteName, SerialWriteNewline,
       SerialRereadTruncate, SerialRewrite
<1> QED
  BY <1>1, <1>2

LEMMA SerialHolds ==
    ASSUME NEW c, Alone(c)
    PROVE  Spec => [](TypeInv /\ SerialInv(c))
<1>1. Init => TypeInv /\ SerialInv(c)
  BY TypeInit, SerialInit
<1>2. TypeInv /\ SerialInv(c) /\ [Next]_vars => TypeInv' /\ SerialInv(c)'
  BY TypeNext, SerialNext
<1> QED
  BY <1>1, <1>2, PTL DEF Spec

-----------------------------------------------------------------------------
\* Requests that come one at a time, however their tools fail and wherever they crash
\* before the tool, leave everything that is installed in the list.
THEOREM InstalledStaysListed ==
    ASSUME NEW c, Alone(c)
    PROVE  Spec => []InstalledIsListed
<1>1. TypeInv /\ SerialInv(c) => InstalledIsListed
  <2> SUFFICES ASSUME TypeInv, SerialInv(c), Settled, NEW a \in installed
               PROVE  Lines(list, a) # {}
    BY DEF InstalledIsListed
  <2>1. Book(c) = list /\ pc[c] \notin {"name", "newline"} /\ a \in App
    BY DEF Settled, Alone, Book, TypeInv, TypeOK
  <2> QED
    BY <2>1, ListedHasLine DEF SerialInv, InstalledInBook
<1> QED
  BY <1>1, SerialHolds, PTL

\* The replies are true of the tools and the list.
THEOREM RepliesAreTrue ==
    ASSUME NEW c, Alone(c)
    PROVE  Spec => []AnswersHold
<1>1. TypeInv /\ SerialInv(c) => AnswersHold
  <2> SUFFICES ASSUME TypeInv, SerialInv(c), pc[c] = "reply"
               PROVE  /\ op[c] = "install" /\ answer[c] = "S" =>
                           app[c] \in installed /\ Lines(list, app[c]) # {}
                      /\ op[c] = "uninstall" /\ answer[c] = "S" => app[c] \notin installed
                      /\ op[c] = "skip" /\ answer[c] = "N" => app[c] \notin installed
    BY DEF AnswersHold, Alone
  <2>1. Book(c) = list /\ Whole(list) /\ app[c] \in App
    BY DEF Book, SerialInv, Alone, TypeInv, TypeOK
  <2> QED
    BY <2>1, ListedHasLine DEF SerialInv, Answering
<1> QED
  BY <1>1, SerialHolds, PTL

\* A child that removes a name finds it in one line at most, as the comment in the code
\* says; it takes a second request at the same time to make it two.
THEOREM SeriallyListedOnce ==
    ASSUME NEW c, Alone(c)
    PROVE  Spec => []ListedOnce
<1>1. TypeInv /\ SerialInv(c) => ListedOnce
  <2> SUFFICES ASSUME TypeInv, SerialInv(c), pc[c] \in {"truncate", "rewrite"}
               PROVE  Cardinality(Lines(text[c], app[c])) <= 1
    BY DEF ListedOnce, Alone
  <2>1. Book(c) = text[c]
    BY DEF Book, SerialInv, Uninstalling
  <2>2. text[c] \in Text /\ Once(text[c]) /\ app[c] \in App
    BY <2>1 DEF SerialInv, Alone, TypeInv, TypeOK
  <2> QED
    BY <2>2, OneLineAtMost
<1> QED
  BY <1>1, SerialHolds, PTL

=============================================================================
