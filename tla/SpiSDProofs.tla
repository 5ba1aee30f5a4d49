---------------------------- MODULE SpiSDProofs ----------------------------
(***************************************************************************)
(* Proofs about SpiSD, for any nodes, characters, calls, cards and refused  *)
(* accesses.                                                                *)
(*                                                                         *)
(* The invariant SInv has five parts.  The slots of a directory are in      *)
(* order: every entry exists and has a name no other entry of it has, and   *)
(* behind a slot never used are only such slots.  The handle a call works   *)
(* on knows all slots of its directory, so a name at which no search ends,  *)
(* a volume label's neither, is not there and may be given to a new entry.  *)
(* Of the two handles of a walk one is the parent and the other is closed.  *)
(* A listing has shown just the entries before its place.  And begin()'s    *)
(* invariant still holds.                                                   *)
(*                                                                         *)
(* The first part is about names: that what dirName prints is turned back   *)
(* into the same name, and accepted texts are those in 8.3 form.            *)
(*                                                                         *)
(* The last part is the refinement of FileTree.  The functions that cut a   *)
(* path and that place the directories are recursive; that they exist is    *)
(* proved, and then one step of each is all that is needed: a path is its   *)
(* next component and what is left, and a place is that of the directory    *)
(* above and a name.  Meaning ties the two together: wherever a call has    *)
(* come to, the path it means is the place of the directory it is in and    *)
(* then the names that are left, and an answer that waits to be given is    *)
(* true, or the card was to blame.                                          *)
(***************************************************************************)
EXTENDS SpiSD, VolumeProofs, SequenceTheorems, FiniteSetTheorems

-----------------------------------------------------------------------------
(* Names. *)

\* A set of numbers that is not empty has a least one.
LEMMA LeastOf ==
  ASSUME NEW S \in SUBSET Nat, S # {}
  PROVE  \E x \in S : \A y \in S : x <= y
<1> DEFINE T == {0 .. x : x \in S}
<1>1. T \subseteq FiniteSubsetsOf(Nat)
  <2>1. SUFFICES ASSUME NEW x \in S PROVE (0 .. x) \in FiniteSubsetsOf(Nat)
    OBVIOUS
  <2>2. IsFiniteSet(0 .. x)
    BY FS_Interval
  <2>3. QED
    BY <2>2 DEF FiniteSubsetsOf
<1>2. T # {}
  OBVIOUS
<1>3. PICK t \in T : \A u \in T : ~ (<<u, t>> \in StrictSubsetOrdering(Nat))
  <2> HIDE DEF T
  <2> QED
    BY <1>1, <1>2, WFMin, FS_StrictSubsetOrderingWellFounded
<1>4. PICK x \in S : t = 0 .. x
  OBVIOUS
<1>5. ASSUME NEW y \in S, y < x PROVE FALSE
  <2>1. (0 .. y) \subseteq 0 .. x /\ x \in 0 .. x /\ x \notin 0 .. y
    BY <1>5
  <2>2. <<0 .. y, t>> \in StrictSubsetOrdering(Nat)
    BY <1>4, <2>1 DEF StrictSubsetOrdering
  <2>3. QED
    BY <1>3, <2>2
<1>6. QED
  BY <1>5

\* The least number of a set is one of the set.
LEMMA MinIs ==
  ASSUME NEW S \in SUBSET Nat, S # {}
  PROVE  Min(S) \in S /\ \A y \in S : Min(S) <= y
BY LeastOf DEF Min

-----------------------------------------------------------------------------
(* Texts and names. *)

\* The search for a character ends at the first one, or just behind the text.
LEMMA NextPlaceIs ==
  ASSUME NEW S, NEW text \in Seq(S), NEW c, NEW i \in 1 .. Len(text) + 1
  PROVE  /\ NextPlace(c, text, i) \in i .. Len(text) + 1
         /\ \A j \in i .. NextPlace(c, text, i) - 1 : text[j] # c
         /\ NextPlace(c, text, i) <= Len(text) => text[NextPlace(c, text, i)] = c
<1> DEFINE T == {j \in i .. Len(text) : text[j] = c} \cup {Len(text) + 1}
           p == NextPlace(c, text, i)
<1>1. Len(text) \in Nat
  OBVIOUS
<1>2. T \in SUBSET Nat /\ T # {} /\ Len(text) + 1 \in T
  BY <1>1
<1>3. p \in T /\ \A y \in T : p <= y
  BY <1>2, MinIs DEF NextPlace
<1>4. QED
  BY <1>1, <1>3

\* What stands before a place and what stands behind it.
LEMMA UpTo ==
  ASSUME NEW S, NEW text \in Seq(S), NEW p \in 1 .. Len(text) + 1
  PROVE  /\ SubSeq(text, 1, p - 1) \in Seq(S)
         /\ Len(SubSeq(text, 1, p - 1)) = p - 1
         /\ \A i \in 1 .. p - 1 : SubSeq(text, 1, p - 1)[i] = text[i]
<1>1. Len(text) \in Nat /\ \A i \in 1 .. p - 1 : text[i] \in S
  OBVIOUS
<1>2. QED
  BY <1>1, SubSeqProperties

\* The text from a place on.
LEMMA FromPlace ==
  ASSUME NEW S, NEW text \in Seq(S), NEW p \in 1 .. Len(text) + 1
  PROVE  /\ SubSeq(text, p, Len(text)) \in Seq(S)
         /\ Len(SubSeq(text, p, Len(text))) = Len(text) + 1 - p
         /\ \A i \in 1 .. Len(text) + 1 - p : SubSeq(text, p, Len(text))[i] = text[p + i - 1]
<1>1. Len(text) \in Nat /\ \A i \in p .. Len(text) : text[i] \in S
  OBVIOUS
<1>2. QED
  BY <1>1, SubSeqProperties

\* The text between two places.
LEMMA Between ==
  ASSUME NEW S, NEW text \in Seq(S), NEW p \in 1 .. Len(text) + 1, NEW q \in p .. Len(text) + 1
  PROVE  SubSeq(text, p, q - 1) \in Seq(S)
<1>1. Len(text) \in Nat /\ \A i \in p .. q - 1 : text[i] \in S
  OBVIOUS
<1>2. QED
  BY <1>1, SubSeqProperties

\* A text of legal characters in upper case, character by character.
LEMMA UpperText ==
  ASSUME NEW text \in Seq(Letter)
  PROVE  /\ InUpper(text) \in Seq(Letter) /\ Len(InUpper(text)) = Len(text)
         /\ \A i \in 1 .. Len(text) : InUpper(text)[i] = Upper[text[i]]
         /\ InUpper(InUpper(text)) = InUpper(text)
<1>1. Len(text) \in Nat /\ text \in [1 .. Len(text) -> Letter]
  OBVIOUS
<1>2. InUpper(text) \in [1 .. Len(text) -> Letter]
  BY <1>1, NamesAssumption DEF InUpper
<1>3. InUpper(text) \in Seq(Letter) /\ Len(InUpper(text)) = Len(text)
  BY <1>1, <1>2
<1>4. \A i \in 1 .. Len(text) : InUpper(text)[i] = Upper[text[i]]
  BY <1>1 DEF InUpper
<1>5. InUpper(InUpper(text)) = InUpper(text)
  BY <1>1, <1>2, <1>4, NamesAssumption DEF InUpper
<1>6. QED
  BY <1>3, <1>4, <1>5

\* A text is legal if each of its characters is.
LEMMA LegalText ==
  ASSUME NEW S, NEW text \in Seq(S)
  PROVE  AllLegal(text) <=> \A i \in 1 .. Len(text) : text[i] \in Letter
BY RangeEquality DEF AllLegal

\* A legal text is a sequence of the characters a name may have.
LEMMA LegalSeq ==
  ASSUME NEW S, NEW text \in Seq(S), AllLegal(text)
  PROVE  text \in Seq(Letter)
BY SeqOfRange, SeqMonotonic DEF AllLegal

\* The names make83Name makes.
ShortName ==
  {n \in [base : Seq(Letter), ext : Seq(Letter)] :
     /\ n.base # << >> /\ Fits(n.base, n.ext)
     /\ InUpper(n.base) = n.base /\ InUpper(n.ext) = n.ext}

\* A refused text is not a name.
LEMMA NoNameIsShort == NoName \notin ShortName
BY DEF NoName, ShortName

\* The parts make83Name cuts a text into at its first dot.
BaseOf(text) == SubSeq(text, 1, NextPlace(Dot, text, 1) - 1)
ExtOf(text) == SubSeq(text, NextPlace(Dot, text, 1) + 1, Len(text))

Legal83(text) ==
  AllLegal(BaseOf(text)) /\ AllLegal(ExtOf(text)) /\ Fits(BaseOf(text), ExtOf(text))
  /\ BaseOf(text) # << >>

\* make83Name cuts a text at its first dot; what it accepts it puts in upper case.
LEMMA Made ==
  ASSUME NEW text
  PROVE  make83Name(text) =
           IF Legal83(text) THEN [base |-> InUpper(BaseOf(text)), ext |-> InUpper(ExtOf(text))]
             ELSE NoName
BY DEF make83Name, Legal83, BaseOf, ExtOf

CutAt(S, text, dot) ==
  /\ dot \in 1 .. Len(text) + 1
  /\ \A i \in 1 .. dot - 1 : text[i] # Dot
  /\ dot <= Len(text) => text[dot] = Dot
  /\ BaseOf(text) \in Seq(S) /\ Len(BaseOf(text)) = dot - 1
  /\ \A i \in 1 .. dot - 1 : BaseOf(text)[i] = text[i]
  /\ ExtOf(text) \in Seq(S)
  /\ Len(ExtOf(text)) = IF dot <= Len(text) THEN Len(text) - dot ELSE 0
  /\ \A i \in 1 .. Len(text) - dot : ExtOf(text)[i] = text[dot + i]

\* The two parts, character by character.
LEMMA Cut ==
  ASSUME NEW S, NEW text \in Seq(S)
  PROVE  CutAt(S, text, NextPlace(Dot, text, 1))
<1> DEFINE dot == NextPlace(Dot, text, 1)
<1>1. /\ dot \in 1 .. Len(text) + 1 /\ Len(text) \in Nat
      /\ \A i \in 1 .. dot - 1 : text[i] # Dot
      /\ dot <= Len(text) => text[dot] = Dot
  BY NextPlaceIs
<1>2. /\ BaseOf(text) \in Seq(S) /\ Len(BaseOf(text)) = dot - 1
      /\ \A i \in 1 .. dot - 1 : BaseOf(text)[i] = text[i]
  BY <1>1, UpTo DEF BaseOf
<1>3. ExtOf(text) = SubSeq(text, dot + 1, Len(text))
  BY DEF ExtOf
<1> HIDE DEF dot
<1>4. \A i \in dot + 1 .. Len(text) : text[i] \in S
  BY <1>1
<1>5. /\ ExtOf(text) \in Seq(S)
      /\ Len(ExtOf(text)) = IF dot + 1 <= Len(text) THEN Len(text) - (dot + 1) + 1 ELSE 0
      /\ \A i \in 1 .. Len(text) - (dot + 1) + 1 : ExtOf(text)[i] = text[dot + 1 + i - 1]
  <2>1. dot + 1 \in Int /\ Len(text) \in Int
    BY <1>1
  <2>2. QED
    BY <1>3, <1>4, <2>1, SubSeqProperties
<1>6. Len(ExtOf(text)) = IF dot <= Len(text) THEN Len(text) - dot ELSE 0
  BY <1>1, <1>5
<1>7. ASSUME NEW i \in 1 .. Len(text) - dot PROVE ExtOf(text)[i] = text[dot + i]
  <2>1. i \in 1 .. Len(text) - (dot + 1) + 1 /\ dot + 1 + i - 1 = dot + i
    BY <1>1
  <2>2. QED
    BY <1>5, <2>1
<1>8. CutAt(S, text, dot)
  BY <1>1, <1>2, <1>5, <1>6, <1>7 DEF CutAt
<1>9. QED
  BY <1>8 DEF dot

\* What make83Name makes is a name, or none.
LEMMA MadeIsShort ==
  ASSUME NEW S, NEW text \in Seq(S)
  PROVE  make83Name(text) \in ShortName \cup {NoName}
<1>1. SUFFICES ASSUME Legal83(text) PROVE make83Name(text) \in ShortName
  BY Made
<1>2. make83Name(text) = [base |-> InUpper(BaseOf(text)), ext |-> InUpper(ExtOf(text))]
  BY <1>1, Made
<1>3. BaseOf(text) \in Seq(S) /\ ExtOf(text) \in Seq(S)
  BY Cut DEF CutAt
<1>4. BaseOf(text) \in Seq(Letter) /\ ExtOf(text) \in Seq(Letter)
  BY <1>1, <1>3, LegalSeq DEF Legal83
<1>5. InUpper(BaseOf(text)) # << >>
  BY <1>1, <1>4, UpperText, EmptySeq DEF Legal83
<1>6. QED
  BY <1>1, <1>2, <1>4, <1>5, UpperText DEF ShortName, Fits, Legal83

\* The text of two parts and a dot between them.
DottedAs(t, a, m, b, n) ==
  /\ t \in Seq(Letter \cup {Dot}) /\ Len(t) = m + 1 + n
  /\ \A i \in 1 .. m : t[i] = a[i]
  /\ t[m + 1] = Dot
  /\ \A i \in 1 .. n : t[m + 1 + i] = b[i]

\* The text of a name with an extension, character by character.
LEMMA Dotted ==
  ASSUME NEW a \in Seq(Letter), NEW b \in Seq(Letter)
  PROVE  DottedAs(a \o (<<Dot>> \o b), a, Len(a), b, Len(b))
<1> DEFINE C == Letter \cup {Dot}
           rest == <<Dot>> \o b
           m == Len(a)
           n == Len(b)
           t == a \o (<<Dot>> \o b)
<1>1. m \in Nat /\ n \in Nat
  OBVIOUS
<1>2. Letter \subseteq C /\ Dot \in C
  OBVIOUS
<1> HIDE DEF C
<1>len. m = Len(a) /\ n = Len(b)
  OBVIOUS
<1>3. a \in Seq(C) /\ b \in Seq(C) /\ <<Dot>> \in Seq(C) /\ Len(<<Dot>>) = 1 /\ <<Dot>>[1] = Dot
  <2>1. a \in Seq(C) /\ b \in Seq(C)
    BY <1>2, SeqMonotonic
  <2>2. <<Dot>> \in Seq(C) /\ Len(<<Dot>>) = 1 /\ <<Dot>>[1] = Dot
    BY <1>2
  <2>3. QED
    BY <2>1, <2>2
<1>4. rest \in Seq(C) /\ Len(rest) = 1 + n
  BY <1>1, <1>3, ConcatProperties
<1>5. \A i \in 1 .. 1 + n : rest[i] = IF i <= 1 THEN <<Dot>>[i] ELSE b[i - 1]
  BY <1>3, ConcatProperties
<1>6. t = a \o rest
  OBVIOUS
<1> HIDE DEF rest, t, m, n
<1>7. t \in Seq(C) /\ Len(t) = m + (1 + n)
  <2>1. (a \o rest) \in Seq(C) /\ Len(a \o rest) = Len(a) + Len(rest)
    BY <1>3, <1>4, ConcatProperties
  <2>2. QED
    BY <1>4, <1>6, <1>len, <2>1
<1>8. \A i \in 1 .. m + (1 + n) : t[i] = IF i <= m THEN a[i] ELSE rest[i - m]
  <2>1. \A i \in 1 .. Len(a) + Len(rest) :
          (a \o rest)[i] = IF i <= Len(a) THEN a[i] ELSE rest[i - Len(a)]
    BY <1>3, <1>4, ConcatProperties
  <2>2. QED
    BY <1>4, <1>6, <1>len, <2>1
<1>9. \A i \in 1 .. m : t[i] = a[i]
  BY <1>1, <1>8
<1>10. t[m + 1] = Dot
  <2> DEFINE k == m + 1
  <2>1. k \in 1 .. m + (1 + n) /\ ~(k <= m) /\ k - m = 1 /\ 1 \in 1 .. 1 + n
    BY <1>1
  <2> HIDE DEF k
  <2>2. t[k] = rest[k - m]
    BY <1>8, <2>1
  <2>3. rest[1] = <<Dot>>[1]
    BY <1>5, <2>1
  <2>4. t[k] = Dot
    BY <1>3, <2>1, <2>2, <2>3
  <2>5. QED
    BY <2>4 DEF k
<1>11. ASSUME NEW i \in 1 .. n PROVE t[m + 1 + i] = b[i]
  <2> DEFINE k == m + 1 + i
             j == i + 1
  <2>1. k \in 1 .. m + (1 + n) /\ ~(k <= m) /\ k - m = j
    BY <1>1
  <2>2. j \in 1 .. 1 + n /\ ~(j <= 1) /\ j - 1 = i
    BY <1>1
  <2> HIDE DEF k, j
  <2>3. t[k] = rest[k - m]
    BY <1>8, <2>1
  <2>4. rest[j] = b[j - 1]
    BY <1>5, <2>2
  <2>5. t[k] = b[i]
    BY <2>1, <2>2, <2>3, <2>4
  <2>6. QED
    BY <2>5 DEF k
<1>12. m + (1 + n) = m + 1 + n
  BY <1>1
<1>13. DottedAs(t, a, m, b, n)
  BY <1>7, <1>9, <1>10, <1>11, <1>12 DEF C, DottedAs
<1>14. QED
  BY <1>13 DEF t, m, n

\* dirName prints a name as a text that make83Name turns into the same name.
LEMMA PrintedIsFound ==
  ASSUME NEW n \in ShortName
  PROVE  make83Name(dirName(n)) = n
<1> DEFINE text == dirName(n)
           S == Letter \cup {Dot}
           dot == NextPlace(Dot, text, 1)
<1>1. /\ n.base \in Seq(Letter) /\ n.ext \in Seq(Letter) /\ n.base # << >>
      /\ InUpper(n.base) = n.base /\ InUpper(n.ext) = n.ext /\ Fits(n.base, n.ext)
      /\ n = [base |-> n.base, ext |-> n.ext]
  BY DEF ShortName
<1>2. n.base \in Seq(S) /\ n.ext \in Seq(S) /\ <<Dot>> \in Seq(S)
  BY <1>1, SeqMonotonic
<1> HIDE DEF text, dot, S
<1>3. Len(n.base) \in Nat /\ Len(n.ext) \in Nat
  BY <1>1
<1>4. /\ \A i \in 1 .. Len(n.base) : n.base[i] \in Letter
      /\ \A i \in 1 .. Len(n.ext) : n.ext[i] \in Letter
      /\ Dot \notin Letter
  BY <1>1, NamesAssumption
<1>5. CASE n.ext = << >>
  <2>1. text = n.base
    BY <1>1, <1>5, ConcatEmptySeq DEF dirName, text
  <2>2. dot = Len(text) + 1
    <3>1. dot \in 1 .. Len(text) + 1 /\ (dot <= Len(text) => text[dot] = Dot)
      BY <1>2, <2>1, Cut DEF dot, CutAt
    <3>2. QED
      BY <1>3, <1>4, <2>1, <3>1
  <2>3. BaseOf(text) = n.base
    <3>1. Len(text) + 1 - 1 = Len(text)
      BY <1>3, <2>1
    <3>2. BaseOf(text) = SubSeq(text, 1, Len(text))
      BY <2>2, <3>1 DEF BaseOf, dot
    <3>3. QED
      BY <1>2, <2>1, <3>2, SubSeqFull
  <2>4. ExtOf(text) = << >>
    BY <1>3, <2>1, <2>2, SubSeqEmpty DEF ExtOf, dot
  <2>5. QED
    <3>1. AllLegal(n.base) /\ AllLegal(n.ext)
      BY <1>1, <1>4, LegalText
    <3>2. Legal83(text)
      BY <1>1, <1>5, <2>3, <2>4, <3>1 DEF Legal83
    <3>3. make83Name(text) = [base |-> n.base, ext |-> n.ext]
      BY <1>1, <1>5, <2>3, <2>4, <3>2, Made
    <3>4. QED
      BY <1>1, <3>3 DEF text
<1>6. CASE n.ext # << >>
  <2>1. text = n.base \o (<<Dot>> \o n.ext)
    BY <1>6 DEF dirName, text
  <2> DEFINE b == Len(n.base)
             e == Len(n.ext)
  <2>0. b \in Nat /\ e \in Nat /\ Len(n.base) = b /\ Len(n.ext) = e
    BY <1>3
  <2> HIDE DEF b, e
  <2>3. /\ text \in Seq(S) /\ Len(text) = b + 1 + e
        /\ \A i \in 1 .. b : text[i] = n.base[i]
        /\ text[b + 1] = Dot
        /\ \A i \in 1 .. e : text[b + 1 + i] = n.ext[i]
    <3>1. DottedAs(text, n.base, b, n.ext, e)
      BY <1>1, <2>1, Dotted DEF b, e
    <3>2. QED
      BY <3>1 DEF DottedAs, S
  <2>len. text \in Seq(S) /\ Len(text) = b + 1 + e
    BY <2>3
  <2>4. \A i \in 1 .. b : text[i] = n.base[i]
    BY <2>3
  <2>5. text[b + 1] = Dot
    BY <2>3
  <2>6. \A i \in 1 .. e : text[b + 1 + i] = n.ext[i]
    BY <2>3
  <2>cut. CutAt(S, text, dot)
    BY <2>len, Cut DEF dot
  <2>7a. dot \in 1 .. b + 1 + e + 1 /\ (dot <= b + 1 + e => text[dot] = Dot)
    BY <2>cut, <2>len DEF CutAt
  <2>7b. \A i \in 1 .. dot - 1 : text[i] # Dot
    BY <2>cut DEF CutAt
  <2>7c. BaseOf(text) \in Seq(S) /\ Len(BaseOf(text)) = dot - 1
    BY <2>cut DEF CutAt
  <2> DEFINE t == b + 1 + e
  <2>7d. \A i \in 1 .. dot - 1 : BaseOf(text)[i] = text[i]
    BY <2>cut DEF CutAt
  <2>7t. Len(text) = t /\ t = b + 1 + e
    BY <2>len
  <2> HIDE DEF t
  <2>7e. ExtOf(text) \in Seq(S) /\ Len(ExtOf(text)) = IF dot <= t THEN t - dot ELSE 0
    BY <2>cut, <2>7t DEF CutAt
  <2>7f. \A i \in 1 .. t - dot : ExtOf(text)[i] = text[dot + i]
    BY <2>cut, <2>7t DEF CutAt
  <2>8. dot = b + 1
    <3>1. ASSUME dot < b + 1 PROVE FALSE
      <4>1. dot \in 1 .. b /\ dot <= b + 1 + e
        BY <2>0, <2>7a, <3>1
      <4>2. text[dot] = Dot /\ text[dot] = n.base[dot] /\ n.base[dot] \in Letter
        BY <1>4, <2>0, <2>4, <2>7a, <4>1
      <4>3. QED
        BY <1>4, <4>2
    <3>2. ASSUME dot > b + 1 PROVE FALSE
      <4>1. b + 1 \in 1 .. dot - 1
        BY <2>0, <2>7a, <3>2
      <4>2. QED
        BY <2>5, <2>7b, <4>1
    <3>3. QED
      BY <2>0, <2>7a, <3>1, <3>2
  <2>9. BaseOf(text) = n.base
    <3>1. Len(BaseOf(text)) = b
      BY <2>0, <2>7c, <2>8
    <3>2. \A i \in 1 .. b : BaseOf(text)[i] = n.base[i]
      BY <2>0, <2>4, <2>7d, <2>8
    <3>3. QED
      BY <1>2, <2>0, <2>7c, <3>1, <3>2, SeqEqual
  <2>10. Len(ExtOf(text)) = e
    BY <2>0, <2>7e, <2>7t, <2>8
  <2>11. \A i \in 1 .. e : ExtOf(text)[i] = n.ext[i]
    <3>1. t - dot = e
      BY <2>0, <2>7t, <2>8
    <3>2. QED
      BY <2>6, <2>7f, <2>8, <3>1
  <2>12. ExtOf(text) = n.ext
    BY <1>2, <2>0, <2>7e, <2>10, <2>11, SeqEqual
  <2>13. AllLegal(n.base) /\ AllLegal(n.ext)
    BY <1>1, <1>4, LegalText
  <2>14. Legal83(text)
    BY <1>1, <2>9, <2>12, <2>13 DEF Legal83
  <2>15. make83Name(text) = [base |-> n.base, ext |-> n.ext]
    BY <1>1, <2>9, <2>12, <2>14, Made
  <2>16. QED
    BY <1>1, <2>15 DEF text
<1>7. QED
  BY <1>5, <1>6

\* The number of characters from one place of a text to another.
LEMMA Places ==
  ASSUME NEW a \in Nat, NEW b \in Nat
  PROVE  IsFiniteSet(a .. b) /\ Cardinality(a .. b) = IF a > b THEN 0 ELSE b - a + 1
BY FS_Interval

\* A set with two members has two different ones.
LEMMA TwoOf ==
  ASSUME NEW a, NEW b, a # b
  PROVE  Cardinality({a, b}) = 2
<1>1. Cardinality({a} \cup {b}) = Cardinality({a}) + 1 /\ Cardinality({a}) = 1
  BY FS_AddElement, FS_Singleton
<1>2. {a, b} = {a} \cup {b}
  OBVIOUS
<1>3. QED
  BY <1>1, <1>2

\* make83Name accepts just the texts in 8.3 form.
LEMMA MadeIfInForm ==
  ASSUME NEW S, NEW text \in Seq(S)
  PROVE  (make83Name(text) # NoName) = Is83(text)
<1> DEFINE len == Len(text)
           dot == NextPlace(Dot, text, 1)
           dots == {i \in DOMAIN text : text[i] = Dot}
           behind(i) == {j \in DOMAIN text : j > i}
           front == {j \in DOMAIN text \ dots : \A i \in dots : j < i}
<1>1. len \in Nat /\ DOMAIN text = 1 .. len
  OBVIOUS
<1>2. CutAt(S, text, dot)
  BY Cut
<1>c1. dot \in 1 .. len + 1 /\ (dot <= len => text[dot] = Dot)
  BY <1>2 DEF CutAt
<1>c2. \A i \in 1 .. dot - 1 : text[i] # Dot
  BY <1>2 DEF CutAt
<1>c3. BaseOf(text) \in Seq(S) /\ Len(BaseOf(text)) = dot - 1
  BY <1>2 DEF CutAt
<1>c4. \A i \in 1 .. dot - 1 : BaseOf(text)[i] = text[i]
  BY <1>2 DEF CutAt
<1>c5. ExtOf(text) \in Seq(S) /\ Len(ExtOf(text)) = IF dot <= len THEN len - dot ELSE 0
  BY <1>2 DEF CutAt
<1>c6. \A i \in 1 .. len - dot : ExtOf(text)[i] = text[dot + i]
  BY <1>2 DEF CutAt
<1> HIDE DEF dot
<1>dots. \A i : i \in dots <=> i \in 1 .. len /\ text[i] = Dot
  BY <1>1
<1>behind. \A i, j : j \in behind(i) <=> j \in 1 .. len /\ j > i
  BY <1>1
<1>front. \A j : j \in front <=> j \in 1 .. len /\ j \notin dots /\ \A i \in dots : j < i
  BY <1>1
<1>is83. Is83(text) <=>
            /\ Range(text) \subseteq Letter \cup {Dot}
            /\ Cardinality(dots) <= 1
            /\ \A i \in dots : Cardinality(behind(i)) <= ExtMax
            /\ Cardinality(front) \in 1 .. BaseMax
  BY DEF Is83
<1>legal. Legal83(text) <=>
            /\ AllLegal(BaseOf(text)) /\ AllLegal(ExtOf(text))
            /\ Fits(BaseOf(text), ExtOf(text)) /\ BaseOf(text) # << >>
  BY DEF Legal83
<1>bool. Is83(text) \in BOOLEAN /\ Legal83(text) \in BOOLEAN
  BY DEF Is83, Legal83
<1>range. Range(text) \subseteq Letter \cup {Dot}
            <=> \A i \in 1 .. len : text[i] \in Letter \cup {Dot}
  BY RangeEquality
<1> HIDE DEF len, dots, behind, front
<1>3. AllLegal(BaseOf(text)) <=> \A i \in 1 .. dot - 1 : text[i] \in Letter
  <2>1. AllLegal(BaseOf(text)) <=> \A i \in 1 .. Len(BaseOf(text)) : BaseOf(text)[i] \in Letter
    BY <1>c3, LegalText
  <2>2. QED
    BY <1>c3, <1>c4, <2>1
<1>4. AllLegal(ExtOf(text)) <=> \A i \in dot + 1 .. len : text[i] \in Letter
  <2>1. AllLegal(ExtOf(text)) <=> \A i \in 1 .. len - dot : text[dot + i] \in Letter
    <3>1. AllLegal(ExtOf(text)) <=> \A i \in 1 .. Len(ExtOf(text)) : ExtOf(text)[i] \in Letter
      BY <1>c5, LegalText
    <3>2. 1 .. Len(ExtOf(text)) = 1 .. len - dot
      BY <1>1, <1>c1, <1>c5
    <3>3. QED
      BY <1>c6, <3>1, <3>2
  <2>2. ASSUME \A i \in 1 .. len - dot : text[dot + i] \in Letter, NEW i \in dot + 1 .. len
        PROVE  text[i] \in Letter
    <3>1. i - dot \in 1 .. len - dot /\ dot + (i - dot) = i
      BY <1>1, <1>c1
    <3>2. QED
      BY <2>2, <3>1
  <2>3. ASSUME \A i \in dot + 1 .. len : text[i] \in Letter, NEW i \in 1 .. len - dot
        PROVE  text[dot + i] \in Letter
    BY <1>1, <1>c1, <2>3
  <2>4. QED
    BY <2>1, <2>2, <2>3
<1>5. BaseOf(text) # << >> <=> dot > 1
  BY <1>c1, <1>c3, EmptySeq
<1>6. Dot \notin Letter /\ ExtMax \in Nat /\ BaseMax \in Nat
  BY NamesAssumption
<1>8. (make83Name(text) # NoName) = Legal83(text)
  <2>1. Legal83(text) => make83Name(text) \in ShortName
    <3>1. ASSUME Legal83(text) PROVE make83Name(text) # NoName
      <4>1. make83Name(text).base = InUpper(BaseOf(text)) /\ BaseOf(text) \in Seq(Letter)
        BY <1>c3, <3>1, Made, LegalSeq DEF Legal83
      <4>2. InUpper(BaseOf(text)) # << >>
        BY <3>1, <4>1, UpperText, EmptySeq DEF Legal83
      <4>3. QED
        BY <4>1, <4>2 DEF NoName
    <3>2. QED
      BY <3>1, MadeIsShort
  <2>2. ~Legal83(text) => make83Name(text) = NoName
    BY Made
  <2>3. QED
    BY <2>1, <2>2, NoNameIsShort DEF Legal83
<1>9. CASE dots \subseteq {dot}
  <2>1. front = 1 .. dot - 1
    <3>1. \A j \in 1 .. dot - 1 : j \in front
      BY <1>1, <1>9, <1>c1, <1>c2, <1>dots, <1>front
    <3>2. ASSUME NEW j \in front PROVE j \in 1 .. dot - 1
      <4>1. j \in 1 .. len /\ j \notin dots /\ \A i \in dots : j < i
        BY <1>front
      <4>2. CASE dot <= len
        <5>1. dot \in dots
          BY <1>1, <1>c1, <1>dots, <4>2
        <5>2. QED
          BY <1>1, <1>c1, <4>1, <5>1
      <4>3. CASE dot = len + 1
        BY <1>1, <4>1, <4>3
      <4>4. QED
        BY <1>1, <1>c1, <4>2, <4>3
    <3>3. QED
      BY <3>1, <3>2
  <2>2. Cardinality(front) = dot - 1
    <3>1. dot - 1 \in Nat
      BY <1>1, <1>c1
    <3>2. Cardinality(1 .. dot - 1) = dot - 1
      BY <3>1, Places
    <3>3. QED
      BY <2>1, <3>2
  <2>3. Cardinality(dots) <= 1
    <3>1. dots = {} \/ dots = {dot}
      BY <1>9
    <3>2. Cardinality({}) = 0 /\ Cardinality({dot}) = 1
      BY FS_EmptySet, FS_Singleton
    <3>3. CASE dots = {}
      BY <3>2, <3>3
    <3>4. CASE dots = {dot}
      BY <3>2, <3>4
    <3>5. QED
      BY <3>1, <3>3, <3>4
  <2>4. ASSUME dot <= len PROVE Cardinality(behind(dot)) = len - dot
    <3>1. behind(dot) = dot + 1 .. len
      <4>1. \A j : j \in behind(dot) <=> j \in 1 .. len /\ j > dot
        BY <1>behind
      <4>2. \A j : j \in dot + 1 .. len <=> j \in 1 .. len /\ j > dot
        BY <1>1, <1>c1
      <4>3. QED
        BY <4>1, <4>2
    <3>2. dot + 1 \in Nat
      BY <1>1, <1>c1
    <3>3. Cardinality(dot + 1 .. len) = IF dot + 1 > len THEN 0 ELSE len - (dot + 1) + 1
      BY <1>1, <3>2, Places
    <3>4. QED
      BY <1>1, <1>c1, <2>4, <3>1, <3>3
  <2>5. dot <= len => dots = {dot}
    <3>1. dot <= len => dot \in dots
      BY <1>1, <1>c1, <1>dots
    <3>2. QED
      BY <1>9, <3>1
  <2>6. dot = len + 1 => dots = {}
    <3>1. ASSUME dot = len + 1, NEW i \in dots PROVE FALSE
      BY <1>1, <1>c1, <1>c2, <1>dots, <3>1
    <3>2. QED
      BY <3>1
  <2>7. Is83(text) <=>
          /\ \A i \in 1 .. len : text[i] \in Letter \cup {Dot}
          /\ dot <= len => len - dot <= ExtMax
          /\ dot - 1 \in 1 .. BaseMax
    <3>2. (\A i \in dots : Cardinality(behind(i)) <= ExtMax) <=> (dot <= len => len - dot <= ExtMax)
      <4>1. CASE dot <= len
        BY <2>4, <2>5, <4>1
      <4>2. CASE dot = len + 1
        BY <1>1, <2>6, <4>2
      <4>3. QED
        BY <1>1, <1>c1, <4>1, <4>2
    <3>3. QED
      BY <1>is83, <1>range, <2>2, <2>3, <3>2
  <2>8. (\A i \in 1 .. len : text[i] \in Letter \cup {Dot})
          <=> (AllLegal(BaseOf(text)) /\ AllLegal(ExtOf(text)))
    <3>1. \A i \in 1 .. len : i # dot => text[i] # Dot
      BY <1>1, <1>9, <1>dots
    <3>2. QED
      BY <1>1, <1>3, <1>4, <1>6, <1>c1, <3>1
  <2>9. Fits(BaseOf(text), ExtOf(text)) <=> dot - 1 <= BaseMax /\ (dot <= len => len - dot <= ExtMax)
    <3>1. Len(BaseOf(text)) = dot - 1
      BY <1>c3
    <3>2. Len(ExtOf(text)) <= ExtMax <=> (dot <= len => len - dot <= ExtMax)
      BY <1>1, <1>6, <1>c1, <1>c5
    <3>3. QED
      BY <3>1, <3>2 DEF Fits
  <2>10. Legal83(text) <=> Is83(text)
    BY <1>1, <1>5, <1>6, <1>c1, <1>legal, <2>7, <2>8, <2>9
  <2>11. QED
    BY <1>8, <1>bool, <2>10
<1>10. CASE ~(dots \subseteq {dot})
  <2>1. PICK d \in 1 .. len : text[d] = Dot /\ d # dot
    BY <1>1, <1>10, <1>dots
  <2>2. d \in dot + 1 .. len /\ dot <= len
    <3>1. ~(d \in 1 .. dot - 1)
      BY <1>c2, <2>1
    <3>2. QED
      BY <1>1, <1>c1, <2>1, <3>1
  <2>3. ~Legal83(text)
    BY <1>4, <1>6, <1>legal, <2>1, <2>2
  <2>4. {dot, d} \subseteq dots
    BY <1>1, <1>c1, <1>dots, <2>1, <2>2
  <2>5. ~(Cardinality(dots) <= 1)
    <3>1. dots \subseteq 1 .. len /\ IsFiniteSet(1 .. len)
      BY <1>1, <1>dots, FS_Interval
    <3>2. IsFiniteSet(dots)
      BY <3>1, FS_Subset
    <3>3. Cardinality({dot, d}) = 2
      BY <2>1, TwoOf
    <3>4. Cardinality({dot, d}) <= Cardinality(dots) /\ Cardinality(dots) \in Nat
      BY <2>4, <3>2, FS_Subset, FS_CardinalityType
    <3>5. QED
      BY <3>3, <3>4
  <2>6. ~Is83(text)
    BY <1>is83, <2>5
  <2>7. QED
    BY <1>8, <1>bool, <2>3, <2>6
<1>11. QED
  BY <1>9, <1>10

\* dirName prints what make83Name made as the text in upper case, without a
\* dot that nothing follows.
LEMMA PrintedIsNormal ==
  ASSUME NEW S, NEW text \in Seq(S), make83Name(text) # NoName
  PROVE  dirName(make83Name(text)) = Normal(text)
<1> DEFINE len == Len(text)
           dot == NextPlace(Dot, text, 1)
           base == BaseOf(text)
           ext == ExtOf(text)
           C == Letter \cup {Dot}
<1>1. len \in Nat /\ DOMAIN text = 1 .. len
  OBVIOUS
<1>2. Legal83(text) /\ make83Name(text) = [base |-> InUpper(base), ext |-> InUpper(ext)]
  BY Made
<1>3. CutAt(S, text, dot)
  BY Cut
<1> HIDE DEF dot
<1>c1. dot \in 1 .. len + 1 /\ (dot <= len => text[dot] = Dot)
  BY <1>3 DEF CutAt
<1>c2. \A i \in 1 .. dot - 1 : text[i] # Dot
  BY <1>3 DEF CutAt
<1>c3. base \in Seq(S) /\ Len(base) = dot - 1
  BY <1>3 DEF CutAt
<1>c4. \A i \in 1 .. dot - 1 : base[i] = text[i]
  BY <1>3 DEF CutAt
<1>c5. ext \in Seq(S) /\ Len(ext) = IF dot <= len THEN len - dot ELSE 0
  BY <1>3 DEF CutAt
<1>c6. \A i \in 1 .. len - dot : ext[i] = text[dot + i]
  BY <1>3 DEF CutAt
<1>4. base \in Seq(Letter) /\ ext \in Seq(Letter) /\ base # << >>
  BY <1>2, <1>c3, <1>c5, LegalSeq DEF Legal83
<1>5. Dot \notin Letter /\ Upper \in [Letter -> Letter]
  BY NamesAssumption
<1>6. dot > 1
  BY <1>4, <1>c1, <1>c3, EmptySeq
<1>7. /\ InUpper(base) \in Seq(Letter) /\ Len(InUpper(base)) = dot - 1
      /\ \A i \in 1 .. dot - 1 : InUpper(base)[i] = Upper[base[i]]
      /\ InUpper(ext) \in Seq(Letter) /\ Len(InUpper(ext)) = Len(ext)
      /\ \A i \in 1 .. Len(ext) : InUpper(ext)[i] = Upper[ext[i]]
  BY <1>4, <1>c3, UpperText
<1> DEFINE shown == IF Last(text) = Dot THEN Front(text) ELSE text
<1>8. Normal(text) = [i \in DOMAIN shown |-> IF shown[i] = Dot THEN Dot ELSE Upper[shown[i]]]
  BY DEF Normal
<1> HIDE DEF base, ext, len, C
<1>9. CASE ext = << >>
  <2>1. dot = len \/ dot = len + 1
    BY <1>1, <1>9, <1>c1, <1>c5
  <2>2. InUpper(ext) = << >>
    BY <1>7, <1>9, EmptySeq
  <2>3. dirName(make83Name(text)) = InUpper(base)
    BY <1>2, <1>7, <2>2, ConcatEmptySeq DEF dirName
  <2>4. shown \in Seq(S) /\ Len(shown) = dot - 1 /\ \A i \in 1 .. dot - 1 : shown[i] = text[i]
    <3>1. CASE dot = len
      <4>1. shown = SubSeq(text, 1, dot - 1)
        BY <1>c1, <3>1 DEF Last, Front, len
      <4>2. QED
        <5> HIDE DEF shown
        <5> QED
          BY <1>1, <1>c1, <4>1, UpTo DEF len
    <3>2. CASE dot = len + 1
      <4>1. text[len] # Dot
        BY <1>1, <1>6, <1>c2, <3>2
      <4>2. QED
        BY <1>1, <3>2, <4>1 DEF Last, len
    <3>3. QED
      BY <2>1, <3>1, <3>2
  <2> HIDE DEF shown
  <2>5. DOMAIN shown = 1 .. dot - 1
    BY <2>4
  <2>6. \A i \in 1 .. dot - 1 : shown[i] = base[i] /\ base[i] \in Letter
    BY <1>4, <1>c3, <1>c4, <2>4
  <2>7. Normal(text) = [i \in 1 .. dot - 1 |-> Upper[base[i]]]
    BY <1>5, <1>8, <2>5, <2>6
  <2>8. InUpper(base) = [i \in 1 .. dot - 1 |-> Upper[base[i]]]
    BY <1>4, <1>c3 DEF InUpper
  <2>9. QED
    BY <2>3, <2>7, <2>8
<1>10. CASE ext # << >>
  <2>1. dot < len /\ Len(ext) = len - dot
    BY <1>1, <1>4, <1>10, <1>c1, <1>c5, EmptySeq
  <2>2. InUpper(ext) # << >>
    BY <1>1, <1>7, <1>c1, <2>1, EmptySeq
  <2>3. dirName(make83Name(text)) = InUpper(base) \o (<<Dot>> \o InUpper(ext))
    BY <1>2, <2>2 DEF dirName
  <2>4. \A i \in 1 .. len - dot : text[dot + i] \in Letter
    BY <1>4, <1>c6, <2>1
  <2>5. text[len] # Dot
    <3>1. len - dot \in 1 .. len - dot /\ dot + (len - dot) = len
      BY <1>1, <1>c1, <2>1
    <3>2. QED
      BY <1>5, <2>4, <3>1
  <2>6. shown = text
    BY <2>5 DEF Last, len
  <2> DEFINE all == InUpper(base) \o (<<Dot>> \o InUpper(ext))
             normal == Normal(text)
  <2>7. InUpper(base) \in Seq(Letter) /\ InUpper(ext) \in Seq(Letter)
    BY <1>7
  <2>8. Len(InUpper(base)) = dot - 1 /\ Len(InUpper(ext)) = len - dot
    BY <1>7, <2>1
  <2>9. /\ all \in Seq(C) /\ Len(all) = (dot - 1) + 1 + (len - dot)
        /\ \A i \in 1 .. dot - 1 : all[i] = InUpper(base)[i]
        /\ all[dot - 1 + 1] = Dot
        /\ \A i \in 1 .. len - dot : all[dot - 1 + 1 + i] = InUpper(ext)[i]
    <3>1. DottedAs(all, InUpper(base), dot - 1, InUpper(ext), len - dot)
      BY <2>7, <2>8, Dotted
    <3>2. QED
      BY <3>1 DEF DottedAs, C
  <2> HIDE DEF all
  <2>10. dot - 1 + 1 = dot /\ (dot - 1) + 1 + (len - dot) = len
    BY <1>1, <1>c1
  <2>11. normal = [i \in 1 .. len |-> IF text[i] = Dot THEN Dot ELSE Upper[text[i]]]
    BY <1>1, <1>8, <2>6
  <2>12. \A i \in 1 .. len : text[i] = Dot \/ text[i] \in Letter
    <3>1. SUFFICES ASSUME NEW i \in 1 .. len PROVE text[i] = Dot \/ text[i] \in Letter
      OBVIOUS
    <3>2. CASE i < dot
      BY <1>1, <1>4, <1>c1, <1>c3, <1>c4, <3>2
    <3>3. CASE i = dot
      BY <1>c1, <2>1, <3>3
    <3>4. CASE i > dot
      <4>1. i - dot \in 1 .. len - dot /\ dot + (i - dot) = i
        BY <1>1, <1>c1, <3>4
      <4>2. QED
        BY <2>4, <4>1
    <3>5. QED
      BY <1>1, <1>c1, <3>2, <3>3, <3>4
  <2>13. normal \in [1 .. len -> C]
    <3>1. SUFFICES ASSUME NEW i \in 1 .. len
                   PROVE (IF text[i] = Dot THEN Dot ELSE Upper[text[i]]) \in C
      BY <2>11
    <3>2. text[i] \in Letter => Upper[text[i]] \in Letter
      BY <1>5
    <3>3. QED
      BY <2>12, <3>2 DEF C
  <2>14. normal \in Seq(C) /\ Len(normal) = len
    <3> HIDE DEF normal
    <3> QED
      BY <1>1, <2>13
  <2>15. ASSUME NEW i \in 1 .. len PROVE all[i] = normal[i]
    <3>1. normal[i] = IF text[i] = Dot THEN Dot ELSE Upper[text[i]]
      BY <2>11
    <3>2. CASE i < dot
      <4>1. i \in 1 .. dot - 1
        BY <1>1, <1>c1, <3>2
      <4>2. all[i] = Upper[base[i]] /\ base[i] = text[i] /\ text[i] # Dot
        BY <1>7, <1>c2, <1>c4, <2>9, <4>1
      <4>3. QED
        BY <3>1, <4>2
    <3>3. CASE i = dot
      BY <1>c1, <2>1, <2>9, <2>10, <3>1, <3>3
    <3>4. CASE i > dot
      <4> DEFINE j == i - dot
      <4>1. j \in 1 .. len - dot /\ dot + j = i /\ dot - 1 + 1 + j = i
        BY <1>1, <1>c1, <3>4
      <4> HIDE DEF j
      <4>2. all[i] = InUpper(ext)[j]
        BY <2>9, <4>1
      <4>3. InUpper(ext)[j] = Upper[ext[j]] /\ ext[j] = text[i]
        BY <1>7, <1>c6, <2>1, <4>1
      <4>4. text[i] # Dot
        BY <1>5, <2>4, <4>1
      <4>5. QED
        BY <3>1, <4>2, <4>3, <4>4
    <3>5. QED
      BY <1>1, <1>c1, <3>2, <3>3, <3>4
  <2>16. all = normal
    <3> HIDE DEF normal
    <3> QED
      BY <2>9, <2>10, <2>14, <2>15, SeqEqual
  <2>17. QED
    BY <2>3, <2>16 DEF all
<1>11. QED
  BY <1>9, <1>10

-----------------------------------------------------------------------------
(* The pieces of a path. *)

Text == Seq(Char \cup TextChar)

\* getNextPathComponent stays inside the path, wherever it is called.
LEMMA ComponentIsText ==
  ASSUME NEW path \in Text, NEW i \in 1 .. Len(path) + 1
  PROVE  /\ NextComponent(path, i).text \in Text
         /\ NextComponent(path, i).next \in 1 .. Len(path) + 1
         /\ NextComponent(path, i).more \in BOOLEAN
<1> DEFINE first == IF SlashAt(path, i) THEN i + 1 ELSE i
           slash == NextSlash(path, first)
           past == Min({slash, first + MaxComponent})
           next == IF SlashAt(path, past) THEN past + 1 ELSE past
<1>1. Len(path) \in Nat
  BY DEF Text
<1>2. first \in 1 .. Len(path) + 1
  BY <1>1 DEF SlashAt
<1>3. MaxComponent \in Nat
  BY NamesAssumption DEF MaxComponent
<1> HIDE DEF first
<1>4. slash \in first .. Len(path) + 1
  BY <1>2, NextPlaceIs DEF NextSlash, Text
<1> HIDE DEF slash
<1>5. past \in first .. Len(path) + 1
  <2>1. {slash, first + MaxComponent} \in SUBSET Nat /\ {slash, first + MaxComponent} # {}
    BY <1>1, <1>2, <1>3, <1>4
  <2>2. past \in {slash, first + MaxComponent} /\ past <= slash
    BY <2>1, MinIs
  <2>3. QED
    BY <1>1, <1>2, <1>3, <1>4, <2>2
<1> HIDE DEF past
<1>6. SubSeq(path, first, past - 1) \in Text
  BY <1>2, <1>5, Between DEF Text
<1>7. next \in 1 .. Len(path) + 1
  BY <1>1, <1>2, <1>5 DEF SlashAt
<1>8. NextComponent(path, i) =
        [text |-> SubSeq(path, first, past - 1), next |-> next, more |-> next <= Len(path)]
  BY DEF NextComponent, first, past, slash
<1> HIDE DEF next
<1>9. QED
  BY <1>6, <1>7, <1>8

\* So does the loop of getParentDir.
LEMMA DirectoryIsText ==
  ASSUME NEW path \in Text, NEW i \in 1 .. Len(path) + 1
  PROVE  /\ NextDirectory(path, i).text \in Text
         /\ NextDirectory(path, i).next \in 1 .. Len(path) + 1
         /\ NextDirectory(path, i).rest \in Text
<1> DEFINE first == SkipSlashes(path, i)
           slash == NextSlash(path, first)
           past == Min({slash, first + MaxComponent})
<1>1. Len(path) \in Nat
  BY DEF Text
<1>2. first \in 1 .. Len(path) + 1
  <2> DEFINE T == {j \in i .. Len(path) : path[j] # Slash} \cup {Len(path) + 1}
  <2>1. T \in SUBSET Nat /\ T # {}
    BY <1>1
  <2>2. Min(T) \in T
    BY <2>1, MinIs
  <2>3. first = Min(T)
    BY DEF SkipSlashes
  <2>4. QED
    BY <1>1, <2>2, <2>3
<1>3. MaxComponent \in Nat
  BY NamesAssumption DEF MaxComponent
<1> HIDE DEF first
<1>4. slash \in first .. Len(path) + 1
  BY <1>2, NextPlaceIs DEF NextSlash, Text
<1> HIDE DEF slash
<1>5. past \in first .. Len(path) + 1
  <2>1. {slash, first + MaxComponent} \in SUBSET Nat /\ {slash, first + MaxComponent} # {}
    BY <1>1, <1>2, <1>3, <1>4
  <2>2. past \in {slash, first + MaxComponent} /\ past <= slash
    BY <2>1, MinIs
  <2>3. QED
    BY <1>1, <1>2, <1>3, <1>4, <2>2
<1> HIDE DEF past
<1>6. SubSeq(path, first, past - 1) \in Text
  BY <1>2, <1>5, Between DEF Text
<1>7. SubSeq(path, first, Len(path)) \in Text
  BY <1>2, FromPlace DEF Text
<1>8. NextDirectory(path, i) =
        [text |-> SubSeq(path, first, past - 1), next |-> past,
         more |-> slash <= Len(path), rest |-> SubSeq(path, first, Len(path))]
  BY DEF NextDirectory, first, past, slash
<1>9. past \in 1 .. Len(path) + 1
  BY <1>1, <1>2, <1>5
<1>10. QED
  BY <1>6, <1>7, <1>8, <1>9

-----------------------------------------------------------------------------
(* The invariant. *)

SlotValue == Node \cup {Free, Deleted, Dot1, Other}

\* What has a name: a file, a directory, the volume label.
Entry == Node \cup {Other}

TreeTypes ==
  /\ kind \in [Node -> {"none", "file", "dir"}]
  /\ name \in [Entry -> ShortName \cup {NoName}]
  /\ slots \in [Dir -> Seq(SlotValue)]
  /\ written \subseteq Node

\* The slots s of a directory, with the kinds and names of their nodes: each
\* file and directory is there and has a name, behind a slot never used there
\* are only such slots, and no two entries have the same name, the volume label
\* counted among them.
Orderly(s, kd, nm) ==
  /\ \A i \in 1 .. Len(s) : s[i] \in Node => kd[s[i]] # "none" /\ nm[s[i]] # NoName
  /\ \A i, j \in 1 .. Len(s) : s[i] = Free /\ i <= j => s[j] = Free
  /\ \A i, j \in 1 .. Len(s) : s[i] \in Entry /\ s[j] \in Entry /\ i # j => nm[s[i]] # nm[s[j]]

\* The volume label is an entry of the root, and of no other directory.
LabelInv ==
  /\ name[Other] # NoName => \E i \in 1 .. Len(slots[RootDir]) : slots[RootDir][i] = Other
  /\ \A d \in Node : \A i \in 1 .. Len(slots[d]) : slots[d][i] # Other

\* Only files are written to.
WrittenInv == \A n \in written : kind[n] = "file"

TreeInv ==
  /\ TreeTypes
  /\ \A d \in Dir : Orderly(slots[d], kind, name)
  /\ LabelInv /\ WrittenInv

Steps ==
  {"idle", "return", "exists", "mkdir", "remove", "rmdir", "descend",
   "parents", "lost", "same", "open"}

Walking == pc \in Walks \cup {"descend"}

Opening == pc \in {"parents", "lost", "same", "open"}

\* The locals of the call in progress.
CallInv ==
  /\ call = [op |-> call.op, path |-> call.path, at |-> call.at, text |-> call.text,
             more |-> call.more, parent |-> call.parent, child |-> call.child, meant |-> call.meant]
  /\ call.path \in Text /\ call.text \in Text
  /\ call.at \in 1 .. Len(call.path) + 1 /\ call.more \in BOOLEAN
  /\ pc \in Steps /\ done \in BOOLEAN /\ reply \in BOOLEAN
  /\ pc # "idle" => mounted /\ stage = "idle"
  /\ Walking => call.op \in Walks

\* The handles of the call: which of them stands where, and that the one it
\* works on knows the size of its directory.
HandleInv ==
  /\ sub \in [{"sub1", "sub2"} -> [node : Dir \cup {NoNode}, size : Nat]]
  /\ call.parent \in {"root", "sub1", "sub2"} /\ call.child \in {"sub1", "sub2"}
  /\ pc = "idle" => sub["sub1"] = Closed /\ sub["sub2"] = Closed
  /\ Walking =>
       \/ call.parent = "root" /\ call.child = "sub1"
       \/ call.parent = Twin(call.child) /\ sub[call.parent].node \in Node
  /\ Walking /\ ~trouble =>
       /\ sub[call.child] = Closed
       /\ call.parent = "root" => sub["sub2"] = Closed
  /\ Opening => call.parent = Twin(call.child)
  /\ Walking \/ Opening =>
       (IsDir(parent.node) => parent.size = Len(slots[parent.node]))

RootInv == mounted => root.size = Len(slots[RootDir])

Listers(D, N) ==
  [node : D, size : Nat, pos : Nat, seen : N, stays : N, ended : BOOLEAN, twice : BOOLEAN]

\* What the listing of a directory has shown, and may still show.
ListInv ==
  /\ lister \in Listers(Dir \cup {NoNode}, SUBSET Node)
  /\ lister.node = NoNode => lister = NoLister
  /\ lister.node # NoNode =>
       /\ mounted /\ IsDir(lister.node) /\ lister.size <= Len(slots[lister.node]) /\ lister.pos >= 1
       /\ \A x \in lister.seen :
            \E i \in 1 .. lister.size : i < lister.pos /\ slots[lister.node][i] = x
       /\ \A x \in lister.stays :
            \E i \in 1 .. lister.size :
              slots[lister.node][i] = x /\ (i < lister.pos => x \in lister.seen)
  /\ lister.ended => lister.stays \subseteq lister.seen
  /\ ~lister.twice

\* What the steps of begin() leave of the types.
VolTypes ==
  /\ "fatType" \in DOMAIN vol /\ vol.fatType \in {0, 12, 16, 32}
  /\ began \in BOOLEAN /\ refused \in 0 .. MaxRefused /\ trouble \in BOOLEAN

SInv == IInv /\ VolTypes /\ TreeInv /\ CallInv /\ HandleInv /\ RootInv /\ ListInv

-----------------------------------------------------------------------------
(* The slots of a directory. *)

\* Three values that are named are not four different ones.
LEMMA ThreeAreFewer ==
  ASSUME NEW a, NEW b, NEW c
  PROVE  Cardinality({a, b, c}) # 4
<1>1. IsFiniteSet({a}) /\ Cardinality({a}) = 1
  BY FS_Singleton
<1>2. IsFiniteSet({a} \cup {b}) /\ Cardinality({a} \cup {b}) \in {1, 2}
  BY <1>1, FS_AddElement
<1>3. Cardinality(({a} \cup {b}) \cup {c}) \in {1, 2, 3}
  BY <1>2, FS_AddElement
<1>4. {a, b, c} = ({a} \cup {b}) \cup {c}
  OBVIOUS
<1>5. QED
  BY <1>3, <1>4

\* The marks of a slot differ from each other and from the nodes.
LEMMA MarksDiffer ==
  /\ Free # Deleted /\ Free # Dot1 /\ Free # Other /\ Deleted # Other /\ Dot1 # Other
  /\ Free \notin Node /\ Deleted \notin Node /\ Dot1 \notin Node /\ Other \notin Node
  /\ NoNode \notin Node /\ RootDir \notin Node /\ RootDir # NoNode
<1>1. Cardinality({Free, Deleted, Dot1, Other}) = 4
  BY SpiSDAssumption
<1>2. Free # Deleted
  <2>1. Free = Deleted => {Free, Deleted, Dot1, Other} = {Free, Dot1, Other}
    OBVIOUS
  <2>2. QED
    BY <1>1, <2>1, ThreeAreFewer
<1>3. Free # Dot1
  <2>1. Free = Dot1 => {Free, Deleted, Dot1, Other} = {Free, Deleted, Other}
    OBVIOUS
  <2>2. QED
    BY <1>1, <2>1, ThreeAreFewer
<1>4. Free # Other
  <2>1. Free = Other => {Free, Deleted, Dot1, Other} = {Free, Deleted, Dot1}
    OBVIOUS
  <2>2. QED
    BY <1>1, <2>1, ThreeAreFewer
<1>5. {Free, Deleted, Dot1, Other} \cap Node = {} /\ RootDir \notin Node
      /\ NoNode \notin Node \cup {RootDir}
  BY SpiSDAssumption
<1>6. Deleted # Other
  <2>1. Deleted = Other => {Free, Deleted, Dot1, Other} = {Free, Deleted, Dot1}
    OBVIOUS
  <2>2. QED
    BY <1>1, <2>1, ThreeAreFewer
<1>7. Dot1 # Other
  <2>1. Dot1 = Other => {Free, Deleted, Dot1, Other} = {Free, Deleted, Dot1}
    OBVIOUS
  <2>2. QED
    BY <1>1, <2>1, ThreeAreFewer
<1>8. QED
  BY <1>2, <1>3, <1>4, <1>5, <1>6, <1>7

\* What becomes of the slots s when x with name n and kind k is put in slot e.
PutAt(s, kd, nm, e, x, n, k) ==
  /\ [s EXCEPT ![e] = x] \in Seq(SlotValue) /\ Len([s EXCEPT ![e] = x]) = Len(s)
  /\ Orderly([s EXCEPT ![e] = x], [kd EXCEPT ![x] = k], [nm EXCEPT ![x] = n])

\* Or in a cluster behind them.
PutBehind(s, kd, nm, x, n, k) ==
  /\ s \o Cluster(x) \in Seq(SlotValue) /\ Len(s \o Cluster(x)) = Len(s) + PerCluster
  /\ \A i \in 1 .. Len(s) : (s \o Cluster(x))[i] = s[i]
  /\ Orderly(s \o Cluster(x), [kd EXCEPT ![x] = k], [nm EXCEPT ![x] = n])

\* An entry put in the first empty slot leaves the slots in order.
LEMMA Puts ==
  ASSUME NEW s \in Seq(SlotValue), NEW kd \in [Node -> {"none", "file", "dir"}], NEW nm,
         DOMAIN nm = Entry,
         Orderly(s, kd, nm),
         NEW e \in 1 .. Len(s), s[e] \in {Free, Deleted},
         \A j \in 1 .. e - 1 : s[j] \notin {Free, Deleted},
         NEW x \in Node, kd[x] = "none", NEW n, n # NoName, NEW k \in {"file", "dir"},
         \A i \in 1 .. Len(s) : s[i] \in Entry => nm[s[i]] # n
  PROVE  PutAt(s, kd, nm, e, x, n, k)
<1> DEFINE t == [s EXCEPT ![e] = x]
           kt == [kd EXCEPT ![x] = k]
           nt == [nm EXCEPT ![x] = n]
<1>1. t \in Seq(SlotValue) /\ Len(t) = Len(s) /\ Len(s) \in Nat
  BY DEF SlotValue
<1>2. t[e] = x /\ \A i \in 1 .. Len(s) : i # e => t[i] = s[i]
  OBVIOUS
<1>3. \A y \in Node : kt[y] = IF y = x THEN k ELSE kd[y]
  OBVIOUS
<1>4. \A y \in Entry : nt[y] = IF y = x THEN n ELSE nm[y]
  OBVIOUS
<1>5. \A i \in 1 .. Len(s) : s[i] # x
  BY DEF Orderly
<1> HIDE DEF t, kt, nt
<1>6. \A i \in 1 .. Len(t) : t[i] \in Node => kt[t[i]] # "none" /\ nt[t[i]] # NoName
  BY <1>1, <1>2, <1>3, <1>4, <1>5 DEF Orderly, Entry
<1>7. \A i, j \in 1 .. Len(t) : t[i] = Free /\ i <= j => t[j] = Free
  <2> SUFFICES ASSUME NEW i \in 1 .. Len(s), NEW j \in 1 .. Len(s), t[i] = Free, i <= j
               PROVE t[j] = Free
    BY <1>1
  <2>1. i # e /\ s[i] = Free
    BY <1>2, MarksDiffer
  <2>2. ~(i \in 1 .. e - 1)
    BY <2>1
  <2>3. j # e
    BY <1>1, <2>1, <2>2
  <2>4. s[j] = Free
    BY <2>1 DEF Orderly
  <2>5. QED
    BY <1>2, <2>3, <2>4
<1>8. \A i, j \in 1 .. Len(t) : t[i] \in Entry /\ t[j] \in Entry /\ i # j => nt[t[i]] # nt[t[j]]
  BY <1>1, <1>2, <1>4, <1>5 DEF Orderly
<1>9. Orderly(t, kt, nt)
  BY <1>6, <1>7, <1>8 DEF Orderly
<1>10. QED
  BY <1>1, <1>9 DEF t, kt, nt, PutAt

\* A cluster of a new directory: its first slots, then slots never used.
LEMMA ClusterIs ==
  ASSUME NEW x \in Node
  PROVE  /\ Cluster(x) \in Seq(SlotValue) /\ Len(Cluster(x)) = PerCluster
         /\ Cluster(x)[1] = x /\ \A i \in 2 .. PerCluster : Cluster(x)[i] = Free
<1>1. PerCluster \in Nat /\ PerCluster >= 2
  BY SpiSDAssumption
<1>2. QED
  BY <1>1 DEF Cluster, SlotValue

\* So does one put at the start of a new cluster when no slot is empty.
LEMMA Appends ==
  ASSUME NEW s \in Seq(SlotValue), NEW kd \in [Node -> {"none", "file", "dir"}], NEW nm,
         DOMAIN nm = Entry,
         Orderly(s, kd, nm), \A j \in 1 .. Len(s) : s[j] \notin {Free, Deleted},
         NEW x \in Node, kd[x] = "none", NEW n, n # NoName, NEW k \in {"file", "dir"},
         \A i \in 1 .. Len(s) : s[i] \in Entry => nm[s[i]] # n
  PROVE  PutBehind(s, kd, nm, x, n, k)
<1> DEFINE len == Len(s)
           c == Cluster(x)
           t == s \o c
           kt == [kd EXCEPT ![x] = k]
           nt == [nm EXCEPT ![x] = n]
<1>0. PerCluster \in Nat /\ PerCluster >= 2 /\ len \in Nat
  BY SpiSDAssumption
<1>c. c \in Seq(SlotValue) /\ Len(c) = PerCluster /\ c[1] = x
      /\ \A i \in 2 .. PerCluster : c[i] = Free
  BY ClusterIs
<1> HIDE DEF c
<1>1. t \in Seq(SlotValue) /\ Len(t) = len + PerCluster
  BY <1>c
<1>2. /\ \A i \in 1 .. len : t[i] = s[i]
      /\ \A i \in len + 1 .. len + PerCluster : t[i] = c[i - len]
  BY <1>c
<1> HIDE DEF t
<1>3. \A y \in Node : kt[y] = IF y = x THEN k ELSE kd[y]
  OBVIOUS
<1>4. \A y \in Entry : nt[y] = IF y = x THEN n ELSE nm[y]
  OBVIOUS
<1>5. \A i \in 1 .. len : s[i] # x
  BY DEF Orderly
<1>o. /\ \A i \in 1 .. len : s[i] \in Node => kd[s[i]] # "none" /\ nm[s[i]] # NoName
      /\ \A i, j \in 1 .. len : s[i] \in Entry /\ s[j] \in Entry /\ i # j => nm[s[i]] # nm[s[j]]
      /\ \A i \in 1 .. len : s[i] # Free /\ (s[i] \in Entry => nm[s[i]] # n)
  BY DEF Orderly
<1> HIDE DEF kt, nt, len
<1>t. \A i \in 1 .. len + PerCluster :
        \/ i \in 1 .. len /\ t[i] = s[i]
        \/ i = len + 1 /\ t[i] = x
        \/ i > len + 1 /\ t[i] = Free
  <2> SUFFICES ASSUME NEW i \in 1 .. len + PerCluster, ~(i \in 1 .. len)
               PROVE (i = len + 1 /\ t[i] = x) \/ (i > len + 1 /\ t[i] = Free)
    BY <1>2
  <2> DEFINE d == i - len
  <2>1. d \in 1 .. PerCluster /\ t[i] = c[d] /\ i = len + d
    BY <1>0, <1>2
  <2> HIDE DEF d
  <2>2. d = 1 \/ d \in 2 .. PerCluster
    BY <1>0, <2>1
  <2>3. QED
    BY <1>0, <1>c, <2>1, <2>2
<1>6. \A i \in 1 .. len + PerCluster : t[i] \in Node => kt[t[i]] # "none" /\ nt[t[i]] # NoName
  BY <1>t, <1>3, <1>4, <1>5, <1>o, MarksDiffer DEF Entry
<1>7. \A i, j \in 1 .. len + PerCluster : t[i] = Free /\ i <= j => t[j] = Free
  <2> SUFFICES ASSUME NEW i \in 1 .. len + PerCluster, NEW j \in 1 .. len + PerCluster,
                      t[i] = Free, i <= j
               PROVE  t[j] = Free
    OBVIOUS
  <2>1. i > len + 1
    BY <1>t, <1>o, MarksDiffer
  <2>2. j > len + 1
    BY <1>0, <2>1
  <2>3. ~(j \in 1 .. len) /\ j # len + 1
    BY <1>0, <2>2
  <2>4. QED
    BY <1>t, <2>3
<1>8. \A i, j \in 1 .. len + PerCluster :
        t[i] \in Entry /\ t[j] \in Entry /\ i # j => nt[t[i]] # nt[t[j]]
  <2> SUFFICES ASSUME NEW i \in 1 .. len + PerCluster, NEW j \in 1 .. len + PerCluster,
                      t[i] \in Entry, t[j] \in Entry, i # j
               PROVE  nt[t[i]] # nt[t[j]]
    OBVIOUS
  <2>1. (i \in 1 .. len /\ t[i] = s[i]) \/ (i = len + 1 /\ t[i] = x)
    BY <1>t, MarksDiffer DEF Entry
  <2>2. (j \in 1 .. len /\ t[j] = s[j]) \/ (j = len + 1 /\ t[j] = x)
    BY <1>t, MarksDiffer DEF Entry
  <2>3. QED
    BY <2>1, <2>2, <1>4, <1>5, <1>o
<1>9. Orderly(t, kt, nt)
  BY <1>1, <1>6, <1>7, <1>8 DEF Orderly
<1>10. QED
  BY <1>1, <1>2, <1>9 DEF t, kt, nt, c, len, PutBehind

\* The slots of the other directories stay in order.
LEMMA OthersKeep ==
  ASSUME NEW s \in Seq(SlotValue), NEW kd \in [Node -> {"none", "file", "dir"}], NEW nm,
         DOMAIN nm = Entry,
         Orderly(s, kd, nm), NEW x \in Node, kd[x] = "none", NEW n, NEW k
  PROVE  Orderly(s, [kd EXCEPT ![x] = k], [nm EXCEPT ![x] = n])
<1>1. \A i \in 1 .. Len(s) : s[i] # x
  BY DEF Orderly
<1>2. QED
  BY <1>1 DEF Orderly, Entry

\* Those of a new directory, or none, hold no entry.
LEMMA NewKeeps ==
  ASSUME NEW s \in Seq(SlotValue), NEW kd, NEW nm, \A i \in 1 .. Len(s) : s[i] \notin Node,
         \A i, j \in 1 .. Len(s) : s[i] = Free /\ i <= j => s[j] = Free,
         \A i, j \in 1 .. Len(s) : s[i] = Other /\ s[j] = Other => i = j
  PROVE  Orderly(s, kd, nm)
BY DEF Orderly, Entry

Without(s, x) == [i \in DOMAIN s |-> IF s[i] = x THEN Deleted ELSE s[i]]

\* An entry that is marked deleted leaves the slots in order.
LEMMA Removes ==
  ASSUME NEW s \in Seq(SlotValue), NEW kd \in [Node -> {"none", "file", "dir"}], NEW nm,
         DOMAIN nm = Entry,
         Orderly(s, kd, nm), NEW x \in Node
  PROVE  /\ Without(s, x) \in Seq(SlotValue) /\ Len(Without(s, x)) = Len(s)
         /\ Orderly(Without(s, x), [kd EXCEPT ![x] = "none"], [nm EXCEPT ![x] = NoName])
<1> DEFINE t == Without(s, x)
<1>1. t \in Seq(SlotValue) /\ Len(t) = Len(s)
  BY DEF Without, SlotValue
<1>2. \A i \in 1 .. Len(s) : t[i] = IF s[i] = x THEN Deleted ELSE s[i]
  BY DEF Without
<1> HIDE DEF t
<1>3. \A i \in 1 .. Len(t) :
        t[i] \in Node =>
          [kd EXCEPT ![x] = "none"][t[i]] # "none" /\ [nm EXCEPT ![x] = NoName][t[i]] # NoName
  BY <1>1, <1>2, MarksDiffer DEF Orderly, Entry
<1>4. \A i, j \in 1 .. Len(t) : t[i] = Free /\ i <= j => t[j] = Free
  BY <1>1, <1>2, MarksDiffer DEF Orderly
<1>5. \A i, j \in 1 .. Len(t) :
        t[i] \in Entry /\ t[j] \in Entry /\ i # j =>
          [nm EXCEPT ![x] = NoName][t[i]] # [nm EXCEPT ![x] = NoName][t[j]]
  BY <1>1, <1>2, MarksDiffer DEF Orderly, Entry
<1>6. Orderly(t, [kd EXCEPT ![x] = "none"], [nm EXCEPT ![x] = NoName])
  BY <1>3, <1>4, <1>5 DEF Orderly
<1>7. QED
  BY <1>1, <1>6 DEF t

-----------------------------------------------------------------------------
(* The search for a name. *)

HandleType == [node : Dir \cup {NoNode}, size : Nat]

\* The handle knows no slots its directory does not have.
Inside(h) == h \in HandleType /\ (IsDir(h.node) => h.size <= Len(slots[h.node]))

\* The slots at which the search for a name can end.
LEMMA EndsIs ==
  ASSUME NEW h \in HandleType, NEW n
  PROVE  Ends(h, n) \in SUBSET Nat /\ Ends(h, n) \subseteq 1 .. h.size
BY DEF Ends, HandleType

\* The search for a name through h ends at the only entry of that name, or at a
\* slot behind which there is none.
Found(h, n, m) ==
  /\ m \in 1 .. h.size
  /\ \/ slots[h.node][m] \in Entry /\ name[slots[h.node][m]] = n
        /\ \A i \in 1 .. h.size :
             slots[h.node][i] \in Entry /\ name[slots[h.node][i]] = n => i = m
     \/ slots[h.node][m] = Free
        /\ \A i \in 1 .. h.size : slots[h.node][i] \in Entry => name[slots[h.node][i]] # n

\* Where a search that ends ends.
LEMMA SearchIs ==
  ASSUME TreeInv, NEW h, Inside(h), NEW n, IsDir(h.node), Ends(h, n) # {}
  PROVE  Found(h, n, Min(Ends(h, n)))
<1> DEFINE s == slots[h.node]
<1> PICK m : m = Min(Ends(h, n))
  OBVIOUS
<1>1. h \in HandleType /\ h.node \in Dir /\ h.size \in Nat /\ h.size <= Len(s)
  BY DEF Inside, IsDir, Dir, HandleType
<1>2. m \in Ends(h, n) /\ \A i \in Ends(h, n) : m <= i
  BY <1>1, EndsIs, MinIs
<1>3. m \in 1 .. h.size /\ (s[m] = Free \/ (s[m] \in Entry /\ name[s[m]] = n))
  <2>1. m \in Ends(h, n)
    BY <1>2
  <2>2. m \in 1 .. h.size /\ (slots[h.node][m] = Free \/ HasName(h.node, m, n))
    BY <2>1 DEF Ends
  <2>3. QED
    BY <2>2 DEF HasName, Entry
<1>4. s \in Seq(SlotValue) /\ Orderly(s, kind, name) /\ Len(s) \in Nat
  BY <1>1 DEF TreeInv, TreeTypes
<1>5. CASE s[m] # Free
  <2>1. \A i \in 1 .. h.size : s[i] \in Entry /\ name[s[i]] = n => i = m
    BY <1>1, <1>3, <1>4, <1>5 DEF Orderly
  <2>2. QED
    BY <1>3, <1>5, <2>1 DEF Found
<1>6. CASE s[m] = Free
  <2>1. ASSUME NEW i \in 1 .. h.size, s[i] \in Entry, name[s[i]] = n PROVE FALSE
    <3>1. i \in Ends(h, n)
      BY <2>1 DEF Ends, HasName, Entry
    <3>2. m <= i
      BY <1>2, <3>1
    <3>3. s[i] = Free
      BY <1>1, <1>3, <1>4, <1>6, <3>2 DEF Orderly
    <3>4. QED
      BY <2>1, <3>3, MarksDiffer DEF Entry
  <2>2. QED
    BY <1>3, <1>6, <2>1 DEF Found
<1>7. QED
  BY <1>5, <1>6

\* open finds the file or directory of that name, or there is none.
LEMMA LookupIs ==
  ASSUME TreeInv, NEW h, Inside(h), NEW n
  PROVE  /\ Lookup(h, n) \in Node \cup {NoNode}
         /\ Lookup(h, n) # NoNode =>
              /\ IsDir(h.node) /\ n # NoName
              /\ Min(Ends(h, n)) \in 1 .. h.size
              /\ slots[h.node][Min(Ends(h, n))] = Lookup(h, n)
              /\ name[Lookup(h, n)] = n
              /\ kind[Lookup(h, n)] # "none"
         /\ Lookup(h, n) = NoNode /\ IsDir(h.node) /\ n # NoName =>
              \A i \in 1 .. h.size : slots[h.node][i] \in Node => name[slots[h.node][i]] # n
<1>1. CASE ~IsDir(h.node) \/ n = NoName
  BY <1>1 DEF Lookup, Searched
<1>2. CASE IsDir(h.node) /\ n # NoName /\ Ends(h, n) = {}
  <2>1. Lookup(h, n) = NoNode
    BY <1>2 DEF Lookup
  <2>2. \A i \in 1 .. h.size : slots[h.node][i] \in Node => name[slots[h.node][i]] # n
    BY <1>2 DEF Ends, HasName
  <2>3. QED
    BY <2>1, <2>2
<1>3. CASE IsDir(h.node) /\ n # NoName /\ Ends(h, n) # {}
  <2> DEFINE s == slots[h.node]
             m == Min(Ends(h, n))
  <2>1. h.node \in Dir /\ h.size \in Nat /\ h.size <= Len(s)
    BY <1>3 DEF Inside, IsDir, Dir, HandleType
  <2>2. Found(h, n, m)
    BY <1>3, SearchIs
  <2>3. s \in Seq(SlotValue) /\ Orderly(s, kind, name)
    BY <2>1 DEF TreeInv, TreeTypes
  <2>4. Lookup(h, n) = IF s[m] \in Node THEN s[m] ELSE NoNode
    BY <1>3 DEF Lookup, Searched
  <2> HIDE DEF m
  <2>5. m \in 1 .. h.size
    BY <2>2 DEF Found
  <2>6. CASE s[m] \in Node
    <3>1. Lookup(h, n) = s[m] /\ name[s[m]] = n
      BY <2>2, <2>4, <2>6, MarksDiffer DEF Found
    <3>2. kind[s[m]] # "none"
      BY <2>1, <2>3, <2>5, <2>6 DEF Orderly
    <3>3. QED
      BY <1>3, <2>5, <2>6, <3>1, <3>2, MarksDiffer DEF m
  <2>7. CASE s[m] \notin Node
    <3>1. Lookup(h, n) = NoNode
      BY <2>4, <2>7
    <3>2. \A i \in 1 .. h.size : s[i] \in Node => name[s[i]] # n
      BY <2>2, <2>7 DEF Found, Entry
    <3>3. QED
      BY <3>1, <3>2
  <2>8. QED
    BY <2>6, <2>7
<1>4. QED
  BY <1>1, <1>2, <1>3

\* A name that is missing is that of no entry.
LEMMA MissingIs ==
  ASSUME TreeInv, NEW h, Inside(h), NEW n, Missing(h, n)
  PROVE  /\ Lookup(h, n) = NoNode /\ IsDir(h.node) /\ n # NoName
         /\ \A i \in 1 .. h.size : slots[h.node][i] \in Entry => name[slots[h.node][i]] # n
<1>1. IsDir(h.node) /\ n # NoName
  BY DEF Missing, Searched
<1>2. CASE Ends(h, n) = {}
  BY <1>1, <1>2 DEF Lookup, Ends, HasName, Entry
<1>3. CASE Ends(h, n) # {}
  <2> DEFINE m == Min(Ends(h, n))
  <2>1. slots[h.node][m] = Free
    BY <1>3 DEF Missing
  <2>2. Found(h, n, m)
    BY <1>1, <1>3, SearchIs
  <2>3. Lookup(h, n) = IF slots[h.node][m] \in Node THEN slots[h.node][m] ELSE NoNode
    BY <1>1, <1>3 DEF Lookup, Searched
  <2> HIDE DEF m
  <2>4. slots[h.node][m] \notin Entry
    BY <2>1, MarksDiffer DEF Entry
  <2>5. QED
    BY <1>1, <2>2, <2>3, <2>4 DEF Found, Entry
<1>4. QED
  BY <1>2, <1>3

\* One that is not, and is that of no file or directory, is the volume label's,
\* and the directory is the root.
LEMMA TakenByLabel ==
  ASSUME TreeInv, NEW h, Inside(h), NEW n, ~Missing(h, n), Lookup(h, n) = NoNode,
         IsDir(h.node), n # NoName
  PROVE  h.node = RootDir /\ name[Other] = n
<1> DEFINE s == slots[h.node]
           m == Min(Ends(h, n))
<1>1. Ends(h, n) # {} /\ s[m] # Free
  BY DEF Missing, Searched
<1>2. Found(h, n, m)
  BY <1>1, SearchIs
<1>3. Lookup(h, n) = IF s[m] \in Node THEN s[m] ELSE NoNode
  BY <1>1 DEF Lookup, Searched
<1> HIDE DEF m
<1>4. s[m] = Other /\ name[Other] = n /\ m \in 1 .. h.size
  BY <1>1, <1>2, <1>3, MarksDiffer DEF Found, Entry
<1>5. h.node \in Dir /\ h.size \in Nat /\ h.size <= Len(s) /\ Len(s) \in Nat
  BY DEF Inside, IsDir, Dir, HandleType, TreeInv, TreeTypes
<1>6. m \in 1 .. Len(s)
  BY <1>4, <1>5
<1>7. h.node \notin Node
  BY <1>4, <1>6 DEF TreeInv, LabelInv
<1>8. QED
  BY <1>4, <1>5, <1>7 DEF Dir

-----------------------------------------------------------------------------
(* Entries come and go. *)

\* The handle knows the size of its directory.
Whole(h) == h \in HandleType /\ (IsDir(h.node) => h.size = Len(slots[h.node]))

\* Directories stay, and keep their entries where they are.
EntriesStay ==
  \A d \in Dir :
    IsDir(d) =>
      /\ IsDir(d)' /\ Len(slots[d]) <= Len(slots'[d])
      /\ \A i \in 1 .. Len(slots[d]) : Named(d, i) => slots'[d][i] = slots[d][i]

GrowsBy(h) == IF Grown(h) THEN PerCluster ELSE 0

\* What a new entry does to the directory it is made in.
LEMMA NewSlots ==
  ASSUME TreeInv, NEW h, Whole(h), NEW n, CanCreate(h, n),
         NEW x \in Unused, NEW k \in {"file", "dir"}, Creates(h, x, n, k)
  PROVE  /\ slots'[h.node] \in Seq(SlotValue)
         /\ Len(slots'[h.node]) = h.size + GrowsBy(h)
         /\ \A i \in 1 .. h.size :
              slots[h.node][i] \in Entry => slots'[h.node][i] = slots[h.node][i]
         /\ \A i \in 1 .. Len(slots'[h.node]) :
              slots'[h.node][i] = Other => i <= h.size /\ slots[h.node][i] = Other
         /\ Orderly(slots'[h.node], kind', name')
<1> DEFINE s == slots[h.node]
           e == Min(EmptySlots(h))
<1>1. h.node \in Dir /\ h.size = Len(s) /\ IsDir(h.node) /\ n # NoName /\ Lookup(h, n) = NoNode
      /\ Inside(h)
  <2>1. IsDir(h.node) /\ Missing(h, n)
    BY DEF CanCreate, Missing, Searched
  <2>2. h.node \in Dir /\ h.size = Len(s) /\ Inside(h)
    BY <2>1 DEF IsDir, Dir, Whole, Inside, HandleType
  <2>3. QED
    BY <2>1, <2>2, MissingIs
<1>2. x \in Node /\ kind[x] = "none" /\ x # h.node
  BY <1>1, MarksDiffer DEF Unused, IsDir
<1>3. s \in Seq(SlotValue) /\ Orderly(s, kind, name) /\ DOMAIN name = Entry
      /\ kind \in [Node -> {"none", "file", "dir"}] /\ DOMAIN slots = Dir
  BY <1>1 DEF TreeInv, TreeTypes
<1>4. \A i \in 1 .. Len(s) : s[i] \in Entry => name[s[i]] # n
  BY <1>1, MissingIs DEF CanCreate
<1>5. kind' = [kind EXCEPT ![x] = k] /\ name' = [name EXCEPT ![x] = n]
  BY DEF Creates
<1>6. slots'[h.node] = IF Grown(h) THEN SubSeq(s, 1, h.size) \o Cluster(x) ELSE [s EXCEPT ![e] = x]
  BY <1>1, <1>2, <1>3 DEF Creates, Dir
<1>7. CASE Grown(h)
  <2>1. \A j \in 1 .. Len(s) : s[j] \notin {Free, Deleted}
    BY <1>1, <1>7 DEF Grown, EmptySlots
  <2>2. SubSeq(s, 1, h.size) = s
    BY <1>1, <1>3, SubSeqFull
  <2>3. slots'[h.node] = s \o Cluster(x)
    BY <1>6, <1>7, <2>2
  <2>4. PutBehind(s, kind, name, x, n, k)
    <3> HIDE DEF s
    <3>1. s \in Seq(SlotValue) /\ kind \in [Node -> {"none", "file", "dir"}] /\ DOMAIN name = Entry
      BY <1>3
    <3>2. Orderly(s, kind, name)
      BY <1>3
    <3>3. x \in Node /\ kind[x] = "none" /\ n # NoName
      BY <1>1, <1>2
    <3>4. QED
      BY <1>4, <2>1, <3>1, <3>2, <3>3, Appends
  <2>5. GrowsBy(h) = PerCluster
    BY <1>7 DEF GrowsBy
  <2>6. \A i \in 1 .. Len(slots'[h.node]) : slots'[h.node][i] = Other => i <= h.size /\ s[i] = Other
    <3> HIDE DEF s
    <3>1. /\ Cluster(x) \in Seq(SlotValue) /\ Len(Cluster(x)) = PerCluster
          /\ Cluster(x)[1] = x /\ \A i \in 2 .. PerCluster : Cluster(x)[i] = Free
      BY <1>2, ClusterIs
    <3>2. PerCluster \in Nat /\ PerCluster >= 2
      BY SpiSDAssumption
    <3>3. \A i \in 1 .. PerCluster : Cluster(x)[i] # Other
      BY <1>2, <3>1, <3>2, MarksDiffer
    <3>4. /\ Len(s \o Cluster(x)) = Len(s) + PerCluster /\ Len(s) \in Nat
          /\ \A i \in 1 .. Len(s) : (s \o Cluster(x))[i] = s[i]
          /\ \A i \in Len(s) + 1 .. Len(s) + PerCluster : (s \o Cluster(x))[i] = Cluster(x)[i - Len(s)]
      BY <1>3, <3>1, <3>2
    <3> SUFFICES ASSUME NEW i \in 1 .. Len(s) + PerCluster, (s \o Cluster(x))[i] = Other
                 PROVE  i <= h.size /\ s[i] = Other
      BY <2>3, <3>4
    <3>5. CASE i \in 1 .. Len(s)
      BY <1>1, <3>4, <3>5
    <3>6. CASE i \in Len(s) + 1 .. Len(s) + PerCluster
      <4>1. (s \o Cluster(x))[i] = Cluster(x)[i - Len(s)] /\ i - Len(s) \in 1 .. PerCluster
        BY <3>2, <3>4, <3>6
      <4>2. QED
        BY <3>3, <4>1
    <3>7. QED
      BY <3>2, <3>4, <3>5, <3>6
  <2>7. QED
    BY <1>1, <1>5, <2>3, <2>4, <2>5, <2>6 DEF PutBehind
<1>8. CASE ~Grown(h)
  <2>1. e \in EmptySlots(h) /\ \A i \in EmptySlots(h) : e <= i
    <3>1. EmptySlots(h) # {} /\ EmptySlots(h) \in SUBSET Nat
      BY <1>8 DEF Grown, EmptySlots
    <3>2. QED
      BY <3>1, MinIs
  <2> HIDE DEF e
  <2>2. e \in 1 .. Len(s) /\ s[e] \in {Free, Deleted} /\ h.size \in Nat
    BY <1>1, <1>3, <2>1 DEF EmptySlots
  <2>3. \A j \in 1 .. e - 1 : s[j] \notin {Free, Deleted}
    <3> SUFFICES ASSUME NEW j \in 1 .. e - 1, s[j] \in {Free, Deleted} PROVE FALSE
      OBVIOUS
    <3>1. j \in 1 .. h.size
      BY <1>1, <2>2
    <3>2. j \in EmptySlots(h)
      BY <3>1 DEF EmptySlots
    <3>3. QED
      BY <2>1, <2>2, <3>2
  <2>4. slots'[h.node] = [s EXCEPT ![e] = x]
    BY <1>6, <1>8
  <2>5. PutAt(s, kind, name, e, x, n, k)
    <3> HIDE DEF s
    <3>1. s \in Seq(SlotValue) /\ kind \in [Node -> {"none", "file", "dir"}] /\ DOMAIN name = Entry
      BY <1>3
    <3>2. Orderly(s, kind, name)
      BY <1>3
    <3>3. x \in Node /\ kind[x] = "none" /\ n # NoName
      BY <1>1, <1>2
    <3>4. e \in 1 .. Len(s)
      BY <2>2
    <3>5. s[e] \in {Free, Deleted}
      BY <2>2
    <3>6. QED
      BY <1>4, <2>3, <3>1, <3>2, <3>3, <3>4, <3>5, Puts
  <2>6. /\ \A i \in 1 .. Len(s) : s[i] \in Entry => [s EXCEPT ![e] = x][i] = s[i]
        /\ \A i \in 1 .. Len(s) : [s EXCEPT ![e] = x][i] = Other => s[i] = Other
    BY <1>2, <1>3, <2>2, MarksDiffer DEF Entry
  <2>7. GrowsBy(h) = 0
    BY <1>8 DEF GrowsBy
  <2>8. QED
    BY <1>1, <1>5, <2>2, <2>4, <2>5, <2>6, <2>7 DEF PutAt
<1>9. QED
  BY <1>7, <1>8

\* A new entry leaves the tree in order, and every other entry where it is.
LEMMA CreatesKeeps ==
  ASSUME TreeInv, NEW h, Whole(h), NEW n \in ShortName \cup {NoName}, CanCreate(h, n),
         NEW x \in Unused, NEW k \in {"file", "dir"}, Creates(h, x, n, k)
  PROVE  TreeInv' /\ EntriesStay
<1> DEFINE own == [i \in 1 .. PerCluster |-> IF i <= 2 THEN Dot1 ELSE Free]
           mine == IF k = "dir" THEN own ELSE << >>
<1>1. h.node \in Dir /\ h.size = Len(slots[h.node]) /\ IsDir(h.node) /\ n # NoName
  BY DEF CanCreate, Missing, Searched, IsDir, Dir, Whole
<1>2. x \in Node /\ kind[x] = "none" /\ x # h.node /\ x \in Dir
  BY <1>1, MarksDiffer DEF Unused, IsDir, Dir
<1>3. TreeTypes /\ \A d \in Dir : slots[d] \in Seq(SlotValue) /\ Orderly(slots[d], kind, name)
  BY DEF TreeInv, TreeTypes
<1>4. kind' = [kind EXCEPT ![x] = k] /\ name' = [name EXCEPT ![x] = n]
  BY DEF Creates
<1>5. /\ slots'[h.node] \in Seq(SlotValue)
      /\ Len(slots'[h.node]) = h.size + GrowsBy(h)
      /\ \A i \in 1 .. h.size :
           slots[h.node][i] \in Entry => slots'[h.node][i] = slots[h.node][i]
      /\ \A i \in 1 .. Len(slots'[h.node]) :
           slots'[h.node][i] = Other => i <= h.size /\ slots[h.node][i] = Other
      /\ Orderly(slots'[h.node], kind', name')
  BY NewSlots
<1>6. slots' = [slots EXCEPT ![h.node] = slots'[h.node], ![x] = mine]
  BY <1>1, <1>2, <1>3 DEF Creates, TreeTypes
<1>7. slots'[x] = mine /\ \A d \in Dir : d # h.node /\ d # x => slots'[d] = slots[d]
  BY <1>2, <1>3, <1>6 DEF TreeTypes
<1>8. mine \in Seq(SlotValue) /\ Orderly(mine, kind', name') /\ \A i \in 1 .. Len(mine) : mine[i] # Other
  <2>1. CASE k = "dir"
    <3>1. PerCluster \in Nat
      BY SpiSDAssumption
    <3>2. own \in Seq(SlotValue) /\ Len(own) = PerCluster
          /\ \A i \in 1 .. PerCluster : own[i] = IF i <= 2 THEN Dot1 ELSE Free
      BY <3>1 DEF SlotValue
    <3> HIDE DEF own
    <3>3. \A i \in 1 .. Len(own) : own[i] \notin Node
      BY <3>2, MarksDiffer
    <3>4. \A i, j \in 1 .. Len(own) : own[i] = Free /\ i <= j => own[j] = Free
      BY <3>1, <3>2, MarksDiffer
    <3>5. mine = own
      BY <2>1
    <3>6. QED
      BY <3>2, <3>3, <3>4, <3>5, NewKeeps, MarksDiffer
  <2>2. CASE k # "dir"
    BY <2>2 DEF Orderly
  <2>3. QED
    BY <2>1, <2>2
<1> HIDE DEF mine
<1>9. \A d \in Dir : slots'[d] \in Seq(SlotValue) /\ Orderly(slots'[d], kind', name')
  <2> SUFFICES ASSUME NEW d \in Dir
               PROVE slots'[d] \in Seq(SlotValue) /\ Orderly(slots'[d], kind', name')
    OBVIOUS
  <2>1. CASE d = h.node
    BY <1>5, <2>1
  <2>2. CASE d = x
    BY <1>7, <1>8, <2>2
  <2>3. CASE d # h.node /\ d # x
    <3>1. slots[d] \in Seq(SlotValue) /\ Orderly(slots[d], kind, name) /\ slots'[d] = slots[d]
      BY <1>3, <1>7, <2>3
    <3>2. kind \in [Node -> {"none", "file", "dir"}] /\ DOMAIN name = Entry
      BY <1>3 DEF TreeTypes
    <3>3. Orderly(slots[d], kind', name')
      BY <1>2, <1>4, <3>1, <3>2, OthersKeep
    <3>4. QED
      BY <3>1, <3>3
  <2>4. QED
    BY <2>1, <2>2, <2>3
<1>10. TreeTypes'
  <2>1. kind' \in [Node -> {"none", "file", "dir"}]
    BY <1>3, <1>4 DEF TreeTypes
  <2>2. name' \in [Entry -> ShortName \cup {NoName}] /\ written' \subseteq Node
    BY <1>3, <1>4 DEF TreeTypes, Creates
  <2>3. DOMAIN slots' = Dir /\ slots' = [d \in Dir |-> slots'[d]]
    BY <1>3, <1>6 DEF TreeTypes
  <2>4. slots' \in [Dir -> Seq(SlotValue)]
    BY <1>9, <2>3
  <2>5. QED
    BY <2>1, <2>2, <2>4 DEF TreeTypes
<1>11. EntriesStay
  <2> SUFFICES ASSUME NEW d \in Dir, IsDir(d)
               PROVE  /\ IsDir(d)' /\ Len(slots[d]) <= Len(slots'[d])
                      /\ \A i \in 1 .. Len(slots[d]) : Named(d, i) => slots'[d][i] = slots[d][i]
    BY DEF EntriesStay
  <2>1. d # x
    BY <1>2, MarksDiffer DEF IsDir
  <2>2. IsDir(d)'
    BY <1>2, <1>3, <1>4, <2>1 DEF IsDir, TreeTypes
  <2>3. Len(slots[d]) \in Nat /\ GrowsBy(h) \in Nat
    BY <1>3, SpiSDAssumption DEF GrowsBy
  <2>4. CASE d = h.node
    BY <1>1, <1>5, <2>2, <2>3, <2>4 DEF Named, Entry
  <2>5. CASE d # h.node
    <3>1. slots'[d] = slots[d]
      BY <1>7, <2>1, <2>5
    <3>2. QED
      BY <2>2, <2>3, <3>1
  <2>6. QED
    BY <2>4, <2>5
<1>12. LabelInv'
  <2>1. /\ name[Other] # NoName => \E i \in 1 .. Len(slots[RootDir]) : slots[RootDir][i] = Other
        /\ \A d \in Node : \A i \in 1 .. Len(slots[d]) : slots[d][i] # Other
    BY DEF TreeInv, LabelInv
  <2>2. name'[Other] = name[Other]
    BY <1>2, <1>3, <1>4, MarksDiffer DEF TreeTypes, Entry
  <2>3. RootDir \in Dir /\ RootDir # x /\ \A d \in Node : d \in Dir
    BY <1>2, MarksDiffer DEF Dir
  <2>4. ASSUME NEW i \in 1 .. Len(slots[RootDir]), slots[RootDir][i] = Other
        PROVE  i \in 1 .. Len(slots'[RootDir]) /\ slots'[RootDir][i] = Other
    <3>1. CASE h.node = RootDir
      <4>1. Len(slots[RootDir]) <= Len(slots'[RootDir]) /\ Len(slots[RootDir]) \in Nat
            /\ Len(slots'[RootDir]) \in Nat
        <5>1. GrowsBy(h) \in Nat
          BY SpiSDAssumption DEF GrowsBy
        <5>2. QED
          BY <1>1, <1>3, <1>5, <3>1, <5>1
      <4>2. QED
        BY <1>1, <1>5, <2>4, <3>1, <4>1 DEF Entry
    <3>2. CASE h.node # RootDir
      BY <1>7, <2>3, <2>4, <3>2
    <3>3. QED
      BY <3>1, <3>2
  <2>5. ASSUME NEW d \in Node, NEW i \in 1 .. Len(slots'[d]) PROVE slots'[d][i] # Other
    <3>1. CASE d = x
      BY <1>7, <1>8, <2>5, <3>1
    <3>2. CASE d = h.node
      BY <1>1, <1>3, <1>5, <2>1, <2>5, <3>2
    <3>3. CASE d # x /\ d # h.node
      BY <1>7, <2>1, <2>3, <2>5, <3>3
    <3>4. QED
      BY <3>1, <3>2, <3>3
  <2>6. QED
    BY <2>1, <2>2, <2>4, <2>5 DEF LabelInv
<1>13. WrittenInv'
  BY <1>2, <1>3, <1>4 DEF WrittenInv, TreeInv, TreeTypes, Creates
<1>14. QED
  BY <1>9, <1>10, <1>11, <1>12, <1>13 DEF TreeInv

\* A directory being listed keeps what it has to show.
LEMMA ListingKept ==
  ASSUME ListInv, TreeTypes, TreeTypes', EntriesStay, UNCHANGED <<lister, mounted>>
  PROVE  ListInv'
<1> DEFINE d == lister.node
<1>1. CASE d = NoNode
  BY <1>1 DEF ListInv, Listers
<1>2. CASE d # NoNode
  <2>1. /\ lister.seen \subseteq Node /\ lister.stays \subseteq Node /\ lister.size \in Nat
        /\ mounted /\ IsDir(d) /\ d \in Dir /\ lister.size <= Len(slots[d]) /\ lister.pos >= 1
    BY <1>2 DEF ListInv, Listers
  <2>2. \A x \in lister.seen : \E i \in 1 .. lister.size : i < lister.pos /\ slots[d][i] = x
    BY <1>2 DEF ListInv, Listers
  <2>3. \A x \in lister.stays :
          \E i \in 1 .. lister.size : slots[d][i] = x /\ (i < lister.pos => x \in lister.seen)
    BY <1>2 DEF ListInv, Listers
  <2>4. /\ IsDir(d)' /\ Len(slots[d]) <= Len(slots'[d])
        /\ \A i \in 1 .. Len(slots[d]) : Named(d, i) => slots'[d][i] = slots[d][i]
    BY <2>1 DEF EntriesStay
  <2>5. Len(slots[d]) \in Nat /\ lister.size <= Len(slots'[d])
    BY <2>1, <2>4 DEF TreeTypes
  <2>6. \A i \in 1 .. lister.size : slots[d][i] \in Node => slots'[d][i] = slots[d][i]
    BY <2>1, <2>4, <2>5 DEF Named
  <2>7. \A x \in lister.seen : \E i \in 1 .. lister.size : i < lister.pos /\ slots'[d][i] = x
    BY <2>1, <2>2, <2>6
  <2>8. \A x \in lister.stays :
          \E i \in 1 .. lister.size : slots'[d][i] = x /\ (i < lister.pos => x \in lister.seen)
    BY <2>1, <2>3, <2>6
  <2>9. QED
    BY <1>2, <2>1, <2>4, <2>5, <2>7, <2>8 DEF ListInv, Listers
<1>3. QED
  BY <1>1, <1>2

\* So it does when an entry is removed, which is no longer one of those to show.
LEMMA DeletesKeeps ==
  ASSUME TreeInv, ListInv, NEW x \in Node, Deletes(x), UNCHANGED mounted
  PROVE  TreeInv' /\ ListInv' /\ Len(slots'[RootDir]) = Len(slots[RootDir])
<1>1. TreeTypes /\ \A d \in Dir : slots[d] \in Seq(SlotValue) /\ Orderly(slots[d], kind, name)
  BY DEF TreeInv, TreeTypes
<1>2. /\ kind' = [kind EXCEPT ![x] = "none"] /\ name' = [name EXCEPT ![x] = NoName]
      /\ slots' = [d \in Dir |-> IF d = x THEN << >> ELSE Without(slots[d], x)]
  BY DEF Deletes, Without
<1>3. slots'[x] = << >> /\ \A d \in Dir : d # x => slots'[d] = Without(slots[d], x)
  BY <1>2 DEF Dir
<1>k. kind \in [Node -> {"none", "file", "dir"}] /\ DOMAIN name = Entry
  BY <1>1 DEF TreeTypes
<1>4. \A d \in Dir : d # x =>
        /\ slots'[d] \in Seq(SlotValue) /\ Len(slots'[d]) = Len(slots[d])
        /\ Orderly(slots'[d], kind', name')
  BY <1>1, <1>2, <1>3, <1>k, Removes
<1>5. TreeInv'
  <2>1. \A d \in Dir : slots'[d] \in Seq(SlotValue) /\ Orderly(slots'[d], kind', name')
    <3>1. << >> \in Seq(SlotValue) /\ Orderly(<< >>, kind', name')
      BY DEF Orderly
    <3>2. QED
      BY <1>3, <1>4, <3>1
  <2>2. kind' \in [Node -> {"none", "file", "dir"}]
    BY <1>1, <1>2 DEF TreeTypes
  <2>3. name' \in [Entry -> ShortName \cup {NoName}] /\ written' \subseteq Node
    BY <1>1, <1>2 DEF TreeTypes, Deletes
  <2>4. slots' = [d \in Dir |-> slots'[d]]
    BY <1>2
  <2>5. slots' \in [Dir -> Seq(SlotValue)]
    BY <2>1, <2>4
  <2>6. LabelInv'
    <3>1. /\ name[Other] # NoName => \E i \in 1 .. Len(slots[RootDir]) : slots[RootDir][i] = Other
          /\ \A d \in Node : \A i \in 1 .. Len(slots[d]) : slots[d][i] # Other
      BY DEF TreeInv, LabelInv
    <3>2. name'[Other] = name[Other]
      BY <1>2, <1>k, MarksDiffer DEF Entry
    <3>3. \A d \in Dir : d # x => \A i \in 1 .. Len(slots[d]) :
             slots'[d][i] = IF slots[d][i] = x THEN Deleted ELSE slots[d][i]
      <4> SUFFICES ASSUME NEW d \in Dir, d # x, NEW i \in 1 .. Len(slots[d])
                   PROVE  slots'[d][i] = IF slots[d][i] = x THEN Deleted ELSE slots[d][i]
        OBVIOUS
      <4>1. slots'[d] = Without(slots[d], x) /\ i \in DOMAIN slots[d]
        BY <1>1, <1>3
      <4>2. QED
        BY <4>1 DEF Without
    <3>4. RootDir \in Dir /\ RootDir # x /\ Other # x /\ \A d \in Node : d \in Dir
      BY MarksDiffer DEF Dir
    <3>5. ASSUME NEW i \in 1 .. Len(slots[RootDir]), slots[RootDir][i] = Other
          PROVE  i \in 1 .. Len(slots'[RootDir]) /\ slots'[RootDir][i] = Other
      BY <1>4, <3>3, <3>4, <3>5
    <3>6. ASSUME NEW d \in Node, NEW i \in 1 .. Len(slots'[d]) PROVE slots'[d][i] # Other
      BY <1>3, <1>4, <3>1, <3>3, <3>4, <3>6, MarksDiffer
    <3>7. QED
      BY <3>1, <3>2, <3>5, <3>6 DEF LabelInv
  <2>7. WrittenInv'
    BY <1>2, <1>k DEF WrittenInv, TreeInv, TreeTypes, Deletes
  <2>8. QED
    BY <2>1, <2>2, <2>3, <2>5, <2>6, <2>7 DEF TreeInv, TreeTypes
<1>6. Len(slots'[RootDir]) = Len(slots[RootDir])
  BY <1>4, MarksDiffer DEF Dir
<1>7. ListInv'
  <2>0. lister' = IF lister.node = x THEN NoLister
                  ELSE [lister EXCEPT !.seen = @ \ {x}, !.stays = @ \ {x}]
    BY DEF Deletes
  <2>1. CASE lister.node = x
    <3>1. lister' = NoLister
      BY <2>0, <2>1
    <3>2. QED
      BY <3>1 DEF ListInv, NoLister, Listers
  <2>2. CASE lister.node = NoNode
    <3>1. lister = NoLister
      BY <2>2 DEF ListInv, Listers
    <3>2. lister' = [NoLister EXCEPT !.seen = @ \ {x}, !.stays = @ \ {x}]
      BY <2>0, <2>2, <3>1, MarksDiffer
    <3>3. lister' = NoLister
      BY <3>2 DEF NoLister
    <3>4. QED
      BY <3>3 DEF ListInv, NoLister, Listers
  <2>3. CASE lister.node # NoNode /\ lister.node # x
    <3> DEFINE d == lister.node
    <3>1. /\ lister.seen \subseteq Node /\ lister.stays \subseteq Node /\ lister.size \in Nat
          /\ mounted /\ IsDir(d) /\ d \in Dir /\ lister.size <= Len(slots[d]) /\ lister.pos >= 1
      BY <2>3 DEF ListInv, Listers
    <3>2. \A y \in lister.seen : \E i \in 1 .. lister.size : i < lister.pos /\ slots[d][i] = y
      BY <2>3 DEF ListInv, Listers
    <3>3. \A y \in lister.stays :
            \E i \in 1 .. lister.size : slots[d][i] = y /\ (i < lister.pos => y \in lister.seen)
      BY <2>3 DEF ListInv, Listers
    <3>4. lister' = [lister EXCEPT !.seen = @ \ {x}, !.stays = @ \ {x}]
      BY <2>0, <2>3
    <3>5. /\ lister'.seen = lister.seen \ {x} /\ lister'.stays = lister.stays \ {x}
          /\ lister'.node = d /\ lister'.size = lister.size /\ lister'.pos = lister.pos
          /\ lister'.ended = lister.ended /\ lister'.twice = lister.twice
      BY <3>4 DEF ListInv, Listers
    <3>6. lister' \in Listers(Dir \cup {NoNode}, SUBSET Node)
      <4> DEFINE N == SUBSET Node
                 D == Dir \cup {NoNode}
                 seen == lister.seen \ {x}
                 stays == lister.stays \ {x}
      <4>1. seen \in N /\ stays \in N
        BY <3>1
      <4>2. lister \in Listers(D, N)
        BY DEF ListInv
      <4>3. lister' = [lister EXCEPT !.seen = seen, !.stays = stays]
        BY <3>4
      <4> HIDE DEF N, D, seen, stays
      <4>4. [lister EXCEPT !.seen = seen, !.stays = stays] \in Listers(D, N)
        <5>1. PICK l : l = lister
          OBVIOUS
        <5>2. l \in Listers(D, N)
          BY <4>2, <5>1
        <5>3. [l EXCEPT !.seen = seen, !.stays = stays] \in Listers(D, N)
          BY <4>1, <5>2 DEF Listers
        <5>4. QED
          BY <5>1, <5>3
      <4>5. lister' \in Listers(D, N)
        BY <4>3, <4>4
      <4>6. QED
        BY <4>5 DEF N, D
    <3>7. IsDir(d)' /\ lister.size <= Len(slots'[d])
      <4>1. IsDir(d)'
        BY <1>2, <1>k, <2>3, <3>1, <3>5 DEF IsDir
      <4>2. Len(slots'[d]) = Len(slots[d])
        BY <1>4, <2>3, <3>1
      <4>3. QED
        BY <3>1, <4>1, <4>2
    <3>8. \A i \in 1 .. lister.size : slots[d][i] # x => slots'[d][i] = slots[d][i]
      <4>1. slots'[d] = Without(slots[d], x) /\ slots[d] \in Seq(SlotValue) /\ Len(slots[d]) \in Nat
        BY <1>1, <1>3, <2>3, <3>1
      <4>2. QED
        BY <3>1, <4>1 DEF Without
    <3>9. \A y \in lister'.seen : \E i \in 1 .. lister.size : i < lister.pos /\ slots'[d][i] = y
      BY <3>2, <3>5, <3>8
    <3>10. \A y \in lister'.stays :
            \E i \in 1 .. lister.size : slots'[d][i] = y /\ (i < lister.pos => y \in lister'.seen)
      BY <3>3, <3>5, <3>8
    <3>11. (lister'.ended => lister'.stays \subseteq lister'.seen) /\ ~lister'.twice
      BY <3>5 DEF ListInv, Listers
    <3>12. QED
      BY <2>3, <3>1, <3>5, <3>6, <3>7, <3>9, <3>10, <3>11 DEF ListInv
  <2>4. QED
    BY <2>1, <2>2, <2>3
<1>8. QED
  BY <1>5, <1>6, <1>7

-----------------------------------------------------------------------------
(* A call leaves the mounted volume as it is. *)

\* An access of the call is refused, or none is.
Access == noRefusal \/ Refuses

\* The count of refusals stays in its bound.
LEMMA AccessTypes ==
  ASSUME VolTypes, Access
  PROVE  refused' \in 0 .. MaxRefused /\ trouble' \in BOOLEAN
<1>1. MaxRefused \in Nat
  BY VolumeAssumption
<1>2. refused \in 0 .. MaxRefused /\ trouble \in BOOLEAN
  BY DEF VolTypes
<1>3. CASE noRefusal
  BY <1>2, <1>3 DEF noRefusal
<1>4. CASE Refuses
  BY <1>1, <1>2, <1>4 DEF Refuses
<1>5. QED
  BY <1>3, <1>4 DEF Access

\* A step of a call on the mounted volume: the buffer keeps its block or is
\* emptied, the handle on the root may learn of new clusters.
LEMMA VolumeKeeps ==
  ASSUME IInv, VolTypes, mounted, stage = "idle", UNCHANGED mount,
         cached' = cached \/ cached' = [number |-> NoBlock, card |-> inserted],
         root' \in [type : {"closed", "root16", "root32"}, size : Nat],
         root'.type = root.type, root.size <= root'.size,
         refused' \in 0 .. MaxRefused, trouble' \in BOOLEAN
  PROVE  IInv' /\ VolTypes'
<1>1. UNCHANGED <<inserted, part, start, vol, stage, began, mounted>>
  BY DEF mount
<1>2. MountTypes /\ Mounted
  BY DEF IInv
<1>3. cached' \in [number : Nat \cup {NoBlock}, card : Cards] /\ cached'.card = inserted
  BY <1>2 DEF MountTypes, Mounted
<1>4. MountTypes'
  BY <1>1, <1>2, <1>3 DEF MountTypes
<1>5. Stages' /\ LeftOver'
  BY <1>1 DEF Stages, LeftOver, Unopened
<1>6. Mounted'
  <2>1. /\ Sound(inserted) /\ vol = GeometryOf(inserted)
        /\ root.type = (IF vol.fatType = 16 THEN "root16" ELSE "root32")
        /\ root.size >= (IF vol.fatType = 16 THEN vol.rootEntries ELSE inserted.rootSize)
    BY <1>2 DEF Mounted
  <2>2. inserted.rootSize \in Nat /\ vol.rootEntries \in Nat
    BY <1>2, <2>1, RootEntriesOf, VolumeAssumption DEF MountTypes
  <2>3. root.size \in Nat /\ root'.size \in Nat
    BY <1>2 DEF MountTypes
  <2>4. root'.size >= (IF vol.fatType = 16 THEN vol.rootEntries ELSE inserted.rootSize)
    BY <2>1, <2>2, <2>3
  <2>5. QED
    BY <1>1, <1>3, <2>1, <2>4 DEF Mounted
<1>7. VolTypes'
  BY <1>1 DEF VolTypes
<1>8. QED
  BY <1>4, <1>5, <1>6, <1>7 DEF IInv

\* The same for a step that does not use the root's handle.
LEMMA VolumeStays ==
  ASSUME IInv, VolTypes, mounted, stage = "idle", UNCHANGED <<mount, cached, root>>,
         refused' \in 0 .. MaxRefused, trouble' \in BOOLEAN
  PROVE  IInv' /\ VolTypes'
<1>1. root \in [type : {"closed", "root16", "root32"}, size : Nat]
  BY DEF IInv, MountTypes
<1>2. root' = root /\ cached' = cached /\ UNCHANGED mount
  OBVIOUS
<1>3. root.size <= root.size
  BY <1>1
<1>4. QED
  BY <1>1, <1>2, <1>3, VolumeKeeps

\* A step that leaves the tree, the root's handle and the listing alone.
LEMMA TreeStands ==
  ASSUME TreeInv, RootInv, ListInv, UNCHANGED <<treeVars, root, mounted>>, lister' = lister
  PROVE  TreeInv' /\ RootInv' /\ ListInv'
<1> USE DEF treeVars
<1>1. TreeInv'
  BY DEF TreeInv, TreeTypes, LabelInv, WrittenInv
<1>2. RootInv'
  BY DEF RootInv
<1>3. ListInv'
  <2>1. EntriesStay
    BY DEF EntriesStay, IsDir, TreeInv, TreeTypes
  <2>2. QED
    BY <1>1, <2>1, ListingKept DEF TreeInv
<1>4. QED
  BY <1>1, <1>2, <1>3

HandlesOfType == sub \in [{"sub1", "sub2"} -> HandleType]

\* When a call returns nothing is said of its handles.
LEMMA ReturnKeeps ==
  ASSUME CallInv, HandleInv, pc' = "return", reply' \in BOOLEAN, done' \in BOOLEAN,
         UNCHANGED <<call, mounted, stage>>, HandlesOfType', pc # "idle"
  PROVE  CallInv' /\ HandleInv'
<1>1. CallInv'
  BY DEF CallInv, Walking, Walks, Steps
<1>2. HandleInv'
  BY DEF HandleInv, Walking, Walks, Opening, HandlesOfType, HandleType
<1>3. QED
  BY <1>1, <1>2

\* A step of the walk that stays at its component.
LEMMA WalkGoesOn ==
  ASSUME CallInv, HandleInv, Walking, pc' = "descend", reply' = reply, done' = done,
         trouble' = trouble,
         UNCHANGED <<call, mounted, stage, sub, root, kind>>,
         IsDir(parent.node) => slots'[parent.node] = slots[parent.node]
  PROVE  CallInv' /\ HandleInv'
<1>1. CallInv'
  BY DEF CallInv, Walking, Walks, Steps
<1>2. parent' = parent /\ Walking' /\ ~Opening'
  BY DEF parent, Handle, Walking, Opening
<1>3. HandleInv'
  BY <1>2 DEF HandleInv, IsDir
<1>4. QED
  BY <1>1, <1>3

\* What the handles of a call are.
LEMMA HandlesAre ==
  ASSUME SInv
  PROVE  /\ sub["sub1"] \in HandleType /\ sub["sub2"] \in HandleType
         /\ Handle("root") \in HandleType /\ parent \in HandleType
         /\ HandlesOfType /\ root \in [type : {"closed", "root16", "root32"}, size : Nat]
<1>1. sub \in [{"sub1", "sub2"} -> HandleType] /\ call.parent \in {"root", "sub1", "sub2"}
  BY DEF SInv, HandleInv, HandleType
<1>2. root \in [type : {"closed", "root16", "root32"}, size : Nat]
  BY DEF SInv, IInv, MountTypes
<1>3. Handle("root") \in HandleType
  BY <1>2 DEF Handle, HandleType, Dir
<1>4. parent \in HandleType
  BY <1>1, <1>3 DEF parent, Handle
<1>5. QED
  BY <1>1, <1>2, <1>3, <1>4 DEF HandlesOfType

\* The handle a callback works on, and the name it looks for.
LEMMA ParentIs ==
  ASSUME SInv, Walking \/ Opening
  PROVE  /\ Whole(parent) /\ Inside(parent) /\ This \in ShortName \cup {NoName}
         /\ mounted /\ stage = "idle" /\ pc # "idle"
         /\ Whole(Handle("root"))
<1>1. parent \in HandleType /\ Handle("root") \in HandleType
  BY HandlesAre
<1>2. IsDir(parent.node) => parent.size = Len(slots[parent.node])
  BY DEF SInv, HandleInv
<1>3. Whole(parent)
  BY <1>1, <1>2 DEF Whole
<1>4. Inside(parent)
  BY <1>1, <1>2 DEF Inside, HandleType
<1>5. This \in ShortName \cup {NoName}
  BY MadeIsShort DEF This, SInv, CallInv, Text
<1>6. pc # "idle" /\ mounted /\ stage = "idle"
  BY DEF SInv, CallInv, Walking, Opening, Walks
<1>7. Whole(Handle("root"))
  BY <1>1, <1>6 DEF Whole, SInv, RootInv, Handle
<1>8. QED
  BY <1>3, <1>4, <1>5, <1>6, <1>7

\* A handle that was opened knows the size of its directory.
LEMMA OpenedIs ==
  ASSUME TreeInv, NEW x \in Node
  PROVE  Opened(x) \in HandleType /\ Opened(x).node = x /\ Whole(Opened(x))
<1>1. slots[x] \in Seq(SlotValue) /\ x \in Dir /\ x # RootDir
  BY MarksDiffer DEF TreeInv, TreeTypes, Dir
<1>2. Opened(x) \in HandleType /\ Opened(x).node = x
  BY <1>1 DEF Opened, HandleType
<1>3. IsDir(x) => Opened(x).size = Len(slots[x])
  BY <1>1 DEF IsDir, Opened
<1>4. QED
  BY <1>2, <1>3 DEF Whole

\* The listing that open begins.
LEMMA KeepsInv ==
  ASSUME TreeInv, ListInv, NEW h, Whole(h), mounted, Keeps(h), UNCHANGED <<treeVars, mounted>>
  PROVE  ListInv'
<1> DEFINE stays == {n \in Node : \E i \in DOMAIN slots[h.node] : slots[h.node][i] = n}
<1>1. CASE lister' = lister
  <2>1. EntriesStay /\ TreeTypes /\ TreeTypes'
    BY DEF EntriesStay, IsDir, TreeInv, TreeTypes, treeVars
  <2>2. QED
    BY <1>1, <2>1, ListingKept
<1>2. CASE lister' # lister
  <2>1. IsDir(h.node)
        /\ lister' = [NoLister EXCEPT !.node = h.node, !.size = h.size, !.stays = stays]
    BY <1>2 DEF Keeps
  <2>2. h.node \in Dir /\ h.size = Len(slots[h.node]) /\ h.size \in Nat /\ h.node # NoNode
    BY <2>1, MarksDiffer DEF Whole, IsDir, Dir, HandleType
  <2>3. stays \in SUBSET Node /\ \A x \in stays : \E i \in 1 .. h.size : slots[h.node][i] = x
    BY <2>2 DEF TreeInv, TreeTypes
  <2> HIDE DEF stays
  <2>4. lister' = [node |-> h.node, size |-> h.size, pos |-> 1, seen |-> {}, stays |-> stays,
                   ended |-> FALSE, twice |-> FALSE]
    BY <2>1 DEF NoLister
  <2>5. lister' \in Listers(Dir \cup {NoNode}, SUBSET Node)
    BY <2>2, <2>3, <2>4 DEF Listers
  <2>6. slots' = slots /\ kind' = kind
    BY DEF treeVars
  <2>7. /\ lister'.node = h.node /\ lister'.size = h.size /\ lister'.pos = 1 /\ lister'.seen = {}
        /\ lister'.stays = stays /\ lister'.ended = FALSE /\ lister'.twice = FALSE
    BY <2>4
  <2>8. mounted' /\ (h.node = RootDir \/ (h.node \in Node /\ kind'[h.node] = "dir"))
    BY <2>1, <2>6 DEF IsDir
  <2>9. h.size <= Len(slots'[h.node])
        /\ \A x \in stays : \E i \in 1 .. h.size : slots'[h.node][i] = x
    <3>1. h.size <= h.size
      BY <2>2
    <3>2. QED
      BY <2>2, <2>3, <2>6, <3>1
  <2>10. \A x \in lister'.stays :
           \E i \in 1 .. lister'.size :
             slots'[lister'.node][i] = x /\ (i < lister'.pos => x \in lister'.seen)
    <3>1. \A i \in 1 .. h.size : ~(i < 1)
      BY <2>2
    <3>2. QED
      BY <2>7, <2>9, <3>1
  <2>11. QED
    BY <2>2, <2>5, <2>7, <2>8, <2>9, <2>10 DEF ListInv, IsDir
<1>3. QED
  BY <1>1, <1>2

-----------------------------------------------------------------------------
(* The steps of a call keep the invariant. *)

\* A step that touches neither the tree nor the root's handle.
LEMMA Quiet ==
  ASSUME SInv, Walking \/ Opening, UNCHANGED <<mount, cached, root, treeVars>>, lister' = lister,
         refused' \in 0 .. MaxRefused, trouble' \in BOOLEAN
  PROVE  /\ IInv' /\ VolTypes' /\ TreeInv' /\ RootInv' /\ ListInv'
         /\ UNCHANGED <<mounted, stage>>
<1>1. mounted /\ stage = "idle"
  BY ParentIs
<1>2. IInv' /\ VolTypes'
  BY <1>1, VolumeStays DEF SInv
<1>3. UNCHANGED <<mounted, stage>>
  BY DEF mount
<1>4. TreeInv' /\ RootInv' /\ ListInv'
  BY <1>3, TreeStands DEF SInv
<1>5. QED
  BY <1>2, <1>3, <1>4

\* Such a step that ends the call.
LEMMA QuietReturn ==
  ASSUME SInv, Walking \/ Opening, UNCHANGED <<mount, cached, root, treeVars>>, lister' = lister,
         refused' \in 0 .. MaxRefused, trouble' \in BOOLEAN,
         pc' = "return", reply' \in BOOLEAN, UNCHANGED <<call, done>>, HandlesOfType'
  PROVE  SInv'
<1>1. /\ IInv' /\ VolTypes' /\ TreeInv' /\ RootInv' /\ ListInv'
      /\ UNCHANGED <<mounted, stage>>
  BY Quiet
<1>2. pc # "idle"
  BY ParentIs
<1>3. done' \in BOOLEAN
  BY DEF SInv, CallInv
<1>4. CallInv' /\ HandleInv'
  BY <1>1, <1>2, <1>3, ReturnKeeps DEF SInv
<1>5. QED
  BY <1>1, <1>4 DEF SInv

\* Such a step that leaves the walk at its component.
LEMMA QuietGoesOn ==
  ASSUME SInv, Walking, UNCHANGED <<mount, cached, root, treeVars>>, lister' = lister, noRefusal,
         pc' = "descend", UNCHANGED <<reply, call, done, sub>>
  PROVE  SInv'
<1>1. refused' \in 0 .. MaxRefused /\ trouble' \in BOOLEAN /\ trouble' = trouble
  BY AccessTypes DEF SInv, Access, noRefusal
<1>2. /\ IInv' /\ VolTypes' /\ TreeInv' /\ RootInv' /\ ListInv'
      /\ UNCHANGED <<mounted, stage>>
  BY <1>1, Quiet
<1>3. CallInv' /\ HandleInv'
  BY <1>1, <1>2, WalkGoesOn DEF SInv, treeVars
<1>4. QED
  BY <1>2, <1>3 DEF SInv

\* A callback that leaves everything as it is, whatever it says.
LEMMA CallbackKeeps ==
  ASSUME SInv, Walking, UNCHANGED <<still, root, treeVars, sub, call, done, lister>>,
         NEW ok \in BOOLEAN,
         \/ noRefusal /\ After(ok)
         \/ Refuses /\ After(FALSE)
  PROVE  SInv'
<1>1. UNCHANGED <<mount, cached, root, treeVars>> /\ lister' = lister /\ UNCHANGED <<call, done>>
      /\ sub' = sub
  BY DEF still
<1>2. refused' \in 0 .. MaxRefused /\ trouble' \in BOOLEAN
  BY AccessTypes DEF SInv, Access
<1>3. HandlesOfType'
  BY <1>1, HandlesAre DEF HandlesOfType
<1>4. CASE noRefusal /\ pc' = "descend" /\ reply' = reply
  BY <1>1, <1>4, QuietGoesOn
<1>5. CASE pc' = "return" /\ reply' \in BOOLEAN
  BY <1>1, <1>2, <1>3, <1>5, QuietReturn
<1>6. QED
  BY <1>4, <1>5 DEF After, Returns

\* The callback of exists() looks a component up.
LEMMA CallbackExistsInv == ASSUME SInv, CallbackExists PROVE SInv'
<1>1. Walking
  BY DEF CallbackExists, Walking, Walks
<1>2. (Here # NoNode) \in BOOLEAN
  OBVIOUS
<1>3. QED
  BY <1>1, <1>2, CallbackKeeps DEF CallbackExists

\* The callback of mkdir() finds the component.
LEMMA MkdirFindsInv == ASSUME SInv, MkdirFinds PROVE SInv'
<1>1. Walking
  BY DEF MkdirFinds, Walking, Walks
<1>2. QED
  BY <1>1, CallbackKeeps DEF MkdirFinds

\* A callback finds nothing to remove, or an access of it is refused.
LEMMA CallbackRefusesInv == ASSUME SInv, CallbackRefuses PROVE SInv'
<1>1. Walking
  BY DEF CallbackRefuses, Walking, Walks
<1>2. QED
  BY <1>1, CallbackKeeps DEF CallbackRefuses

\* makeDir can fail without a refused access; the walk then ends.
LEMMA MkdirFailsInv == ASSUME SInv, MkdirFails PROVE SInv'
<1>1. Walking
  BY DEF MkdirFails, Walking, Walks
<1>2. UNCHANGED <<mount, cached, root, treeVars>> /\ lister' = lister /\ UNCHANGED <<call, done>>
      /\ sub' = sub
  BY DEF MkdirFails, still
<1>3. refused' \in 0 .. MaxRefused
  <2>1. MaxRefused \in Nat /\ refused \in 0 .. MaxRefused
    BY VolumeAssumption DEF SInv, VolTypes
  <2>2. QED
    BY <2>1 DEF MkdirFails, Refuses
<1>4. trouble' \in BOOLEAN
  BY DEF MkdirFails
<1>5. HandlesOfType'
  BY <1>2, HandlesAre DEF HandlesOfType
<1>6. pc' = "return" /\ reply' \in BOOLEAN
  BY DEF MkdirFails, After, Returns
<1>7. QED
  BY <1>1, <1>2, <1>3, <1>4, <1>5, <1>6, QuietReturn

\* Two callbacks wait for the last component.
LEMMA CallbackWaitsInv == ASSUME SInv, CallbackWaits PROVE SInv'
<1>1. Walking
  BY DEF CallbackWaits, Walking, Walks
<1>2. UNCHANGED <<mount, cached, root, treeVars>> /\ lister' = lister /\ noRefusal /\ pc' = "descend"
  BY DEF CallbackWaits, volumeVars, mount, noRefusal
<1>3. UNCHANGED <<reply, call, done, sub>>
  BY DEF CallbackWaits
<1>4. QED
  BY <1>1, <1>2, <1>3, QuietGoesOn

-----------------------------------------------------------------------------
(* Steps that change the tree. *)

\* A new entry made through handle p, of whose directory it is the only handle
\* that counts: the root's, or one below it.
LEMMA CreationKeeps ==
  ASSUME SInv, Walking \/ Opening, UNCHANGED <<still, lister>>,
         refused' \in 0 .. MaxRefused, trouble' \in BOOLEAN,
         NEW p \in {"root", "sub1", "sub2"}, p = "root" \/ sub[p].node # RootDir, Whole(Handle(p)),
         NEW n \in ShortName \cup {NoName}, CanCreate(Handle(p), n),
         NEW x \in Unused, NEW k \in {"file", "dir"}, Creates(Handle(p), x, n, k), HandleGrows(p)
  PROVE  /\ IInv' /\ VolTypes' /\ TreeInv' /\ RootInv' /\ ListInv' /\ HandlesOfType'
         /\ UNCHANGED <<mounted, stage>>
         /\ Whole(Handle(p))' /\ Handle(p)'.node = Handle(p).node
<1> DEFINE h == Handle(p)
           grows == GrowsBy(h)
<1>1. mounted /\ stage = "idle" /\ UNCHANGED <<mounted, stage>>
  BY ParentIs DEF still, mount
<1>2. grows \in Nat
  BY SpiSDAssumption DEF GrowsBy
<1>3. /\ root' = IF p = "root" THEN [root EXCEPT !.size = @ + grows] ELSE root
      /\ sub' = IF p = "root" THEN sub ELSE [sub EXCEPT ![p].size = @ + grows]
  BY DEF HandleGrows, GrowsBy
<1>4. h.node \in Dir /\ h.size = Len(slots[h.node]) /\ h.size \in Nat /\ IsDir(h.node)
  BY DEF CanCreate, Missing, Searched, IsDir, Dir, Whole, HandleType
<1>5. /\ TreeInv' /\ EntriesStay
      /\ Len(slots'[h.node]) = h.size + grows
  <2>1. TreeInv
    BY DEF SInv
  <2>2. TreeInv' /\ EntriesStay
    BY <2>1, CreatesKeeps
  <2>3. Len(slots'[h.node]) = h.size + grows
    BY <2>1, NewSlots
  <2>4. QED
    BY <2>2, <2>3
<1>6. root \in [type : {"closed", "root16", "root32"}, size : Nat] /\ HandlesOfType
  BY HandlesAre
<1> HIDE DEF grows
<1>7. /\ root' \in [type : {"closed", "root16", "root32"}, size : Nat]
      /\ root'.type = root.type /\ root.size <= root'.size
      /\ root'.size = IF p = "root" THEN root.size + grows ELSE root.size
  BY <1>2, <1>3, <1>6
<1>8. HandlesOfType'
      /\ (p # "root" => sub'[p].node = sub[p].node /\ sub'[p].size = sub[p].size + grows)
  BY <1>2, <1>3, <1>6 DEF HandlesOfType, HandleType
<1>9. IInv' /\ VolTypes'
  BY <1>1, <1>7, VolumeKeeps DEF SInv, still
<1>10. Handle(p)'.node = h.node /\ Handle(p)'.size = h.size + grows /\ Handle(p)' \in HandleType
  BY <1>7, <1>8 DEF Handle, HandleType, HandlesOfType, Dir
<1>11. Whole(Handle(p))'
  <2>1. Handle(p)'.size = Len(slots'[Handle(p)'.node])
    BY <1>5, <1>10
  <2>2. QED
    BY <1>10, <2>1 DEF Whole
<1>12. RootInv'
  <2>1. CASE p = "root"
    <3>1. h.node = RootDir /\ h.size = root.size
      BY <2>1 DEF Handle
    <3>2. QED
      BY <1>5, <1>7, <2>1, <3>1 DEF RootInv
  <2>2. CASE p # "root"
    <3>1. h = sub[p] /\ h.node # RootDir
      BY <2>2 DEF Handle
    <3>2. x # RootDir
      BY MarksDiffer DEF Unused
    <3>3. slots'[RootDir] = slots[RootDir]
      BY <3>1, <3>2 DEF Creates, SInv, TreeInv, TreeTypes, Dir
    <3>4. QED
      BY <1>1, <1>7, <2>2, <3>3 DEF SInv, RootInv
  <2>3. QED
    BY <2>1, <2>2
<1>13. ListInv'
  BY <1>1, <1>5, ListingKept DEF SInv, TreeInv
<1>14. QED
  BY <1>1, <1>5, <1>8, <1>9, <1>10, <1>11, <1>12, <1>13

\* The callback of mkdir() makes a directory, with an entry in its parent.
LEMMA MkdirMakesInv == ASSUME SInv, MkdirMakes PROVE SInv'
<1>1. Walking /\ UNCHANGED <<still, lister>> /\ CanCreate(parent, This) /\ UNCHANGED <<call, done>>
  BY DEF MkdirMakes, Walking, Walks
<1>2. PICK x \in Unused, k \in {"dir", "file"} :
        /\ Creates(parent, x, This, k)
        /\ \/ k = "dir" /\ noRefusal /\ After(TRUE)
           \/ Refuses /\ After(FALSE)
  BY DEF MkdirMakes
<1> DEFINE p == call.parent
<1>3. p \in {"root", "sub1", "sub2"} /\ (p = "root" \/ sub[p].node # RootDir)
  BY <1>1, MarksDiffer DEF SInv, HandleInv
<1>4. refused' \in 0 .. MaxRefused /\ trouble' \in BOOLEAN
  BY <1>2, AccessTypes DEF SInv, Access
<1>5. parent = Handle(p) /\ Whole(Handle(p)) /\ HandleGrows(p) /\ This \in ShortName \cup {NoName}
      /\ pc # "idle"
  BY <1>1, ParentIs DEF MkdirMakes, parent
<1>6. /\ IInv' /\ VolTypes' /\ TreeInv' /\ RootInv' /\ ListInv' /\ HandlesOfType'
      /\ UNCHANGED <<mounted, stage>>
      /\ Whole(Handle(p))' /\ Handle(p)'.node = Handle(p).node
  <2> DEFINE n == This
  <2>1. CanCreate(Handle(p), n) /\ Creates(Handle(p), x, n, k) /\ n \in ShortName \cup {NoName}
        /\ k \in {"file", "dir"}
    BY <1>1, <1>2, <1>5
  <2>2. p' = p
    BY <1>1
  <2> HIDE DEF n
  <2>3. QED
    BY <1>1, <1>3, <1>4, <1>5, <2>1, <2>2, CreationKeeps
<1>7. CASE Refuses /\ After(FALSE)
  <2>1. pc' = "return" /\ reply' \in BOOLEAN /\ done' \in BOOLEAN
    BY <1>1, <1>7 DEF After, Returns, SInv, CallInv
  <2>2. CallInv' /\ HandleInv'
    BY <1>1, <1>5, <1>6, <2>1, ReturnKeeps DEF SInv
  <2>3. QED
    BY <1>6, <2>2 DEF SInv
<1>8. CASE noRefusal /\ After(TRUE) /\ ~call.more
  <2>1. pc' = "return" /\ reply' \in BOOLEAN /\ done' \in BOOLEAN
    BY <1>1, <1>8 DEF After, Returns, SInv, CallInv
  <2>2. CallInv' /\ HandleInv'
    BY <1>1, <1>5, <1>6, <2>1, ReturnKeeps DEF SInv
  <2>3. QED
    BY <1>6, <2>2 DEF SInv
<1>9. CASE noRefusal /\ After(TRUE) /\ call.more
  <2>1. pc' = "descend" /\ reply' = reply /\ trouble' = trouble
    BY <1>9 DEF After, noRefusal
  <2>2. Walking' /\ ~Opening' /\ pc' \in Steps /\ pc' # "idle" /\ pc # "idle"
    BY <1>5, <2>1 DEF Walking, Opening, Steps
  <2>3. CallInv'
    BY <1>1, <1>6, <2>1, <2>2 DEF SInv, CallInv
  <2>4. parent'.size = Len(slots'[parent'.node]) \/ ~IsDir(parent.node)'
    BY <1>1, <1>6 DEF Whole, parent
  <2>5. sub' = IF p = "root" THEN sub ELSE [sub EXCEPT ![p].size = @ + GrowsBy(Handle(p))]
    BY <1>5 DEF HandleGrows, GrowsBy
  <2>6. /\ \/ call.parent = "root" /\ call.child = "sub1"
           \/ call.parent = Twin(call.child) /\ sub[call.parent].node \in Node
        /\ ~trouble =>
             /\ sub[call.child] = Closed
             /\ call.parent = "root" => sub["sub2"] = Closed
        /\ call.child \in {"sub1", "sub2"}
    BY <1>1 DEF SInv, HandleInv
  <2>7. sub \in [{"sub1", "sub2"} -> HandleType]
    BY HandlesAre DEF HandlesOfType
  <2>8. \/ call.parent = "root" /\ call.child = "sub1"
        \/ call.parent = Twin(call.child) /\ sub'[call.parent].node \in Node
    <3>1. CASE p = "root"
      BY <2>5, <2>6, <3>1
    <3>2. CASE p # "root"
      <4>1. sub'[p].node = sub[p].node
        BY <1>3, <2>5, <2>7, <3>2 DEF HandleType
      <4>2. QED
        BY <2>6, <3>2, <4>1
    <3>3. QED
      BY <3>1, <3>2
  <2>9. ~trouble =>
          /\ sub'[call.child] = Closed
          /\ call.parent = "root" => sub'["sub2"] = Closed
    BY <2>5, <2>6, <2>7 DEF Twin
  <2>10. HandleInv'
    BY <1>1, <1>3, <1>6, <2>1, <2>2, <2>4, <2>6, <2>8, <2>9 DEF HandleInv, HandlesOfType, HandleType
  <2>11. QED
    BY <1>6, <2>3, <2>10 DEF SInv
<1>10. QED
  BY <1>2, <1>7, <1>8, <1>9

\* The callbacks of remove() and rmdir() mark an entry deleted.
LEMMA CallbackRemovesInv == ASSUME SInv, CallbackRemoves PROVE SInv'
<1>1. /\ Walking /\ UNCHANGED <<still, root, sub, call>> /\ Here # NoNode /\ Deletes(Here)
      /\ ~call.more /\ done' = TRUE
  BY DEF CallbackRemoves, Removable, Walking, Walks
<1>2. refused' \in 0 .. MaxRefused /\ trouble' \in BOOLEAN
  BY AccessTypes DEF CallbackRemoves, SInv, Access
<1>3. pc' = "return" /\ reply' \in BOOLEAN
  BY <1>1 DEF CallbackRemoves, After, Returns
<1>4. mounted /\ stage = "idle" /\ UNCHANGED <<mounted, stage>> /\ pc # "idle"
  BY <1>1, ParentIs DEF still, mount
<1>5. Here \in Node
  <2>1. Inside(parent) /\ TreeInv
    BY <1>1, ParentIs DEF SInv
  <2>2. QED
    BY <1>1, <2>1, LookupIs DEF Here
<1>6. TreeInv' /\ ListInv' /\ Len(slots'[RootDir]) = Len(slots[RootDir])
  <2> DEFINE x == Here
  <2>1. x \in Node /\ Deletes(x) /\ UNCHANGED mounted /\ TreeInv /\ ListInv
    BY <1>1, <1>4, <1>5 DEF SInv
  <2> HIDE DEF x
  <2>2. QED
    BY <2>1, DeletesKeeps
<1>7. IInv' /\ VolTypes'
  BY <1>1, <1>2, <1>4, VolumeStays DEF SInv, still
<1>8. RootInv'
  BY <1>1, <1>4, <1>6 DEF SInv, RootInv
<1>9. CallInv' /\ HandleInv'
  <2>1. HandlesOfType'
    BY <1>1, HandlesAre DEF HandlesOfType
  <2>2. done' \in BOOLEAN
    BY <1>1
  <2>3. QED
    BY <1>1, <1>3, <1>4, <2>1, <2>2, ReturnKeeps DEF SInv
<1>10. QED
  BY <1>6, <1>7, <1>8, <1>9 DEF SInv

-----------------------------------------------------------------------------
(* From one component to the next. *)

\* The other of a call's two handles.
LEMMA TwinIs ==
  /\ Twin("sub1") = "sub2" /\ Twin("sub2") = "sub1"
  /\ \A s \in {"sub1", "sub2"} : Twin(s) \in {"sub1", "sub2"} /\ Twin(s) # s /\ Twin(Twin(s)) = s
     /\ Twin(s) # "root"
BY DEF Twin

\* The locals of a call that has come to its next component.
NextLocals(at, more, text, up, down) ==
  call' = [call EXCEPT !.text = text, !.at = at, !.more = more, !.parent = up, !.child = down]

\* What a call knows when it goes on to its next component.
LEMMA LocalsAre ==
  ASSUME CallInv, NEW at, NEW more, NEW text, NEW up, NEW down, NextLocals(at, more, text, up, down)
  PROVE  /\ call' = [op |-> call.op, path |-> call.path, at |-> at, text |-> text, more |-> more,
                     parent |-> up, child |-> down, meant |-> call.meant]
         /\ call'.op = call.op /\ call'.path = call.path /\ call'.at = at /\ call'.text = text
         /\ call'.more = more /\ call'.parent = up /\ call'.child = down /\ call'.meant = call.meant
BY DEF CallInv, NextLocals

\* walkPath opens a component and goes on below it.
LEMMA DescendInv == ASSUME SInv, Descend PROVE SInv'
<1> DEFINE opens == sub[call.child].node = NoNode /\ Here # NoNode
           below == [sub EXCEPT ![call.child] = Opened(Here)]
           c == NextComponent(call.path, call.at)
           up == call.parent
           down == call.child
<1>1. Walking /\ UNCHANGED <<mount, cached, root, treeVars>> /\ lister' = lister /\ UNCHANGED done
  BY DEF Descend, Walking, Walks, still
<1>2. refused' \in 0 .. MaxRefused /\ trouble' \in BOOLEAN
  BY AccessTypes DEF Descend, SInv, Access
<1>3. sub \in [{"sub1", "sub2"} -> HandleType] /\ down \in {"sub1", "sub2"}
      /\ up \in {"root", "sub1", "sub2"}
  BY HandlesAre DEF HandlesOfType, SInv, HandleInv
<1>4. /\ IInv' /\ VolTypes' /\ TreeInv' /\ RootInv' /\ ListInv'
      /\ UNCHANGED <<mounted, stage>>
  BY <1>1, <1>2, Quiet
<1>5. mounted /\ stage = "idle" /\ pc # "idle"
  BY <1>1, ParentIs
<1>6. CASE /\ (~opens /\ noRefusal) \/ Refuses
           /\ sub' = ClosesParent(sub)
           /\ UNCHANGED call
           /\ Returns(FALSE)
  <2>1. Closed \in HandleType
    BY DEF Closed, HandleType
  <2>2. HandlesOfType'
    BY <1>3, <1>6, <2>1 DEF ClosesParent, HandlesOfType
  <2>3. pc' = "return" /\ reply' \in BOOLEAN
    BY <1>6 DEF Returns
  <2>4. UNCHANGED <<call, done>>
    BY <1>1, <1>6
  <2>5. QED
    BY <1>1, <1>2, <2>2, <2>3, <2>4, QuietReturn
<1>7. CASE /\ opens
           /\ \/ sub' = ClosesParent(below) /\ noRefusal
              \/ sub' = below /\ call.parent # "root" /\ Refuses
           /\ call' = [call EXCEPT !.text = c.text, !.at = c.next, !.more = c.more,
                                   !.parent = call.child,
                                   !.child = IF call.parent = "root" THEN "sub2" ELSE call.parent]
           /\ pc' = call.op /\ UNCHANGED reply
  <2> DEFINE x == Here
             next == IF up = "root" THEN "sub2" ELSE up
  <2>1. x \in Node /\ Opened(x) \in HandleType /\ Opened(x).node = x /\ Whole(Opened(x))
    <3>1. Inside(parent) /\ TreeInv
      BY <1>1, ParentIs DEF SInv
    <3>2. Here \in Node
      BY <1>7, <3>1, LookupIs DEF Here
    <3>3. QED
      BY <3>1, <3>2, OpenedIs
  <2> HIDE DEF x
  <2>2. call.path \in Text /\ call.at \in 1 .. Len(call.path) + 1 /\ CallInv
    BY DEF SInv, CallInv
  <2>3. c.text \in Text /\ c.next \in 1 .. Len(call.path) + 1 /\ c.more \in BOOLEAN
    BY <2>2, ComponentIsText
  <2> HIDE DEF c
  <2>4. NextLocals(c.next, c.more, c.text, down, next)
    BY <1>7 DEF NextLocals
  <2>5. /\ call' = [op |-> call.op, path |-> call.path, at |-> c.next, text |-> c.text,
                     more |-> c.more, parent |-> down, child |-> next, meant |-> call.meant]
        /\ call'.op = call.op /\ call'.path = call.path /\ call'.at = c.next /\ call'.text = c.text
        /\ call'.more = c.more /\ call'.parent = down /\ call'.child = next
           /\ call'.meant = call.meant
    BY <2>2, <2>4, LocalsAre
  <2>6. call.op \in Walks /\ pc' = call.op /\ reply' = reply
    BY <1>1, <1>7 DEF SInv, CallInv
  <2>7. Walking' /\ ~Opening' /\ pc' \in Steps /\ pc' # "idle"
    BY <2>6 DEF Walking, Opening, Walks, Steps
  <2>8. CallInv'
    BY <1>1, <1>4, <1>5, <2>2, <2>3, <2>5, <2>6, <2>7 DEF CallInv
  <2>9. /\ \/ up = "root" /\ down = "sub1"
           \/ up = Twin(down)
        /\ ~trouble => sub[down] = Closed /\ (up = "root" => sub["sub2"] = Closed)
    BY <1>1 DEF SInv, HandleInv
  <2>10. down = Twin(next) /\ next \in {"sub1", "sub2"} /\ next # down
    BY <1>3, <2>9, TwinIs
  <2>11. below = [sub EXCEPT ![down] = Opened(x)]
    BY DEF x
  <2> HIDE DEF below
  <2>12. sub' = ClosesParent(below) \/ (sub' = below /\ trouble')
    BY <1>7 DEF Refuses
  <2>13. ClosesParent(below) = IF up = "root" THEN below ELSE [below EXCEPT ![up] = Closed]
    BY DEF ClosesParent
  <2>14. below \in [{"sub1", "sub2"} -> HandleType] /\ below[down] = Opened(x)
         /\ below["sub1"] \in HandleType
    BY <1>3, <2>1, <2>11
  <2>15. Closed \in HandleType
    BY DEF Closed, HandleType
  <2>16. sub' \in [{"sub1", "sub2"} -> HandleType] /\ sub'[down] = Opened(x)
    BY <1>3, <2>9, <2>12, <2>13, <2>14, <2>15, TwinIs
  <2>17. ~trouble' => sub'[next] = Closed
    <3>1. CASE up = "root"
      <4>1. next = "sub2" /\ down = "sub1"
        BY <2>9, <3>1, TwinIs, <1>3
      <4>2. ~trouble' => ~trouble
        BY <1>7 DEF Refuses, noRefusal
      <4>3. ~trouble' => sub' = below
        BY <2>12, <2>13, <3>1
      <4>4. below["sub2"] = sub["sub2"]
        BY <1>3, <2>11, <4>1
      <4>5. QED
        BY <2>9, <3>1, <4>1, <4>2, <4>3, <4>4
    <3>2. CASE up # "root"
      <4>1. ~trouble' => sub' = [below EXCEPT ![up] = Closed]
        BY <2>12, <2>13, <3>2
      <4>2. next = up /\ up \in DOMAIN below
        BY <1>3, <2>14, <3>2
      <4>3. QED
        BY <4>1, <4>2
    <3>3. QED
      BY <3>1, <3>2
  <2>18. down # "root" /\ parent' = Opened(x)
    <3>1. down # "root"
      BY <1>3
    <3>2. QED
      BY <2>5, <2>16, <3>1 DEF parent, Handle
  <2>19. IsDir(parent.node)' => parent'.size = Len(slots'[parent'.node])
    <3>1. UNCHANGED <<kind, slots>>
      BY <1>1 DEF treeVars
    <3>2. IsDir(parent.node)' => IsDir(x)
      BY <2>1, <2>18, <3>1 DEF IsDir
    <3>3. QED
      BY <2>1, <2>18, <3>1, <3>2 DEF Whole
  <2>20. HandleInv'
    BY <1>3, <2>1, <2>5, <2>7, <2>10, <2>16, <2>17, <2>18, <2>19 DEF HandleInv, HandleType
  <2>21. QED
    BY <1>4, <2>8, <2>20 DEF SInv
<1>8. QED
  BY <1>6, <1>7 DEF Descend

-----------------------------------------------------------------------------
(* getParentDir and open. *)

\* A step of open's search that leaves the files alone.
LEMMA OpeningGoesOn ==
  ASSUME SInv, Opening, UNCHANGED <<mount, cached, root, treeVars, done, reply>>, lister' = lister,
         refused' \in 0 .. MaxRefused, trouble' \in BOOLEAN,
         pc' \in {"parents", "lost", "same", "open"},
         NEW at \in 1 .. Len(call.path) + 1, NEW text \in Text, NEW down \in {"sub1", "sub2"},
         NextLocals(at, call.more, text, Twin(down), down),
         HandlesOfType', Whole(sub'[Twin(down)])
  PROVE  SInv'
<1>1. /\ IInv' /\ VolTypes' /\ TreeInv' /\ RootInv' /\ ListInv'
      /\ UNCHANGED <<mounted, stage>>
  BY Quiet
<1>2. mounted /\ stage = "idle" /\ CallInv
  BY ParentIs DEF SInv
<1>3. /\ call' = [op |-> call.op, path |-> call.path, at |-> at, text |-> text, more |-> call.more,
                  parent |-> Twin(down), child |-> down, meant |-> call.meant]
      /\ call'.op = call.op /\ call'.path = call.path /\ call'.at = at /\ call'.text = text
      /\ call'.more = call.more /\ call'.parent = Twin(down) /\ call'.child = down
         /\ call'.meant = call.meant
  BY <1>2, LocalsAre
<1>4. ~Walking' /\ Opening' /\ pc' \in Steps /\ pc' # "idle"
  BY DEF Walking, Walks, Opening, Steps
<1>5. CallInv'
  BY <1>1, <1>2, <1>3, <1>4 DEF CallInv
<1>6. Twin(down) \in {"sub1", "sub2"} /\ Twin(down) # "root"
  BY TwinIs
<1>7. parent' = sub'[Twin(down)]
  BY <1>3, <1>6 DEF parent, Handle
<1>8. IsDir(parent.node)' => parent'.size = Len(slots'[parent'.node])
  <2>1. UNCHANGED <<kind, slots>>
    BY DEF treeVars
  <2>2. QED
    BY <1>7, <2>1 DEF Whole, IsDir
<1>9. HandleInv'
  BY <1>3, <1>4, <1>6, <1>8 DEF HandleInv, HandleType, HandlesOfType
<1>10. QED
  BY <1>1, <1>5, <1>9 DEF SInv

\* getParentDir opens the next directory and swaps its handles.
LEMMA ParentsNextInv == ASSUME SInv, ParentsNext PROVE SInv'
<1> DEFINE d == NextDirectory(call.path, call.at)
           x == Lookup(parent, make83Name(d.text))
           up == call.parent
           down == call.child
<1>1. Opening /\ UNCHANGED <<mount, cached, root, treeVars, done, reply>> /\ lister' = lister
  BY DEF ParentsNext, Opening, still
<1>2. refused' \in 0 .. MaxRefused /\ trouble' \in BOOLEAN
  BY AccessTypes DEF ParentsNext, SInv, Access
<1>3. /\ sub \in [{"sub1", "sub2"} -> HandleType] /\ down \in {"sub1", "sub2"} /\ up = Twin(down)
      /\ up \in {"sub1", "sub2"} /\ up # down /\ down = Twin(up)
  BY <1>1, HandlesAre, TwinIs DEF HandlesOfType, SInv, HandleInv
<1>4. call.path \in Text /\ call.at \in 1 .. Len(call.path) + 1 /\ call.text \in Text /\ CallInv
      /\ TreeInv
  BY DEF SInv, CallInv
<1>5. d.text \in Text /\ d.next \in 1 .. Len(call.path) + 1
  BY <1>4, DirectoryIsText
<1> HIDE DEF d
<1>6. Closed \in HandleType /\ Whole(Closed)
  BY MarksDiffer DEF Closed, HandleType, Whole, IsDir
<1>7. CASE /\ x # NoNode
           /\ \/ sub' = [sub EXCEPT ![call.child] = Opened(x), ![call.parent] = Closed]
              \/ sub' = [sub EXCEPT ![call.child] = Opened(x)]
           /\ call' = [call EXCEPT !.at = d.next, !.parent = call.child, !.child = call.parent]
           /\ UNCHANGED pc
  <2>1. x \in Node /\ Opened(x) \in HandleType /\ Whole(Opened(x))
    <3>1. Inside(parent)
      BY <1>1, ParentIs
    <3>2. x \in Node
      BY <1>4, <1>7, <3>1, LookupIs
    <3> HIDE DEF x
    <3>3. QED
      BY <1>4, <3>2, OpenedIs
  <2> HIDE DEF x
  <2>2. NextLocals(d.next, call.more, call.text, down, up)
    BY <1>4, <1>7 DEF NextLocals, CallInv
  <2>3. HandlesOfType' /\ sub'[down] = Opened(x)
    BY <1>3, <1>6, <1>7, <2>1 DEF HandlesOfType
  <2>4. pc' \in {"parents", "lost", "same", "open"}
    BY <1>1, <1>7 DEF Opening
  <2>5. Whole(sub'[Twin(up)]) /\ NextLocals(d.next, call.more, call.text, Twin(up), up)
    BY <1>3, <2>1, <2>2, <2>3
  <2>6. QED
    BY <1>1, <1>2, <1>3, <1>4, <1>5, <2>3, <2>4, <2>5, OpeningGoesOn
<1>8. CASE /\ sub' = [sub EXCEPT ![call.parent] = Nothing(@)]
           /\ pc' = "lost"
           /\ UNCHANGED call
  <2>1. HandlesOfType' /\ sub'[up] = Closed
    BY <1>3, <1>6, <1>8 DEF HandlesOfType, Nothing
  <2>2. NextLocals(call.at, call.more, call.text, up, down)
    BY <1>4, <1>8 DEF NextLocals, CallInv
  <2>3. Whole(sub'[Twin(down)]) /\ NextLocals(call.at, call.more, call.text, Twin(down), down)
    BY <1>3, <1>6, <2>1, <2>2
  <2>4. QED
    BY <1>1, <1>2, <1>3, <1>4, <1>8, <2>1, <2>3, OpeningGoesOn
<1>9. QED
  BY <1>7, <1>8 DEF ParentsNext, d

\* The search ends: what is left of the path, whatever it is, is opened.
LEMMA SearchEnds ==
  ASSUME SInv, Opening, UNCHANGED <<volumeVars, treeVars, sub, done, reply, lister>>,
         NEW rest \in Text, call' = [call EXCEPT !.text = rest], pc' \in {"same", "open"}
  PROVE  SInv'
<1>1. UNCHANGED <<mount, cached, root, treeVars, done, reply>> /\ lister' = lister
  BY DEF volumeVars, mount
<1>2. refused' \in 0 .. MaxRefused /\ trouble' \in BOOLEAN
  BY DEF SInv, VolTypes, volumeVars
<1>3. /\ HandlesOfType' /\ call.child \in {"sub1", "sub2"} /\ call.parent = Twin(call.child)
      /\ call.parent # "root" /\ sub' = sub
  BY HandlesAre, TwinIs DEF HandlesOfType, SInv, HandleInv
<1>4. Whole(sub'[Twin(call.child)])
  <2>1. parent = sub[call.parent]
    BY <1>3 DEF parent, Handle
  <2>2. QED
    BY <1>3, <2>1, ParentIs
<1>5. call.at \in 1 .. Len(call.path) + 1 /\ CallInv
  BY DEF SInv, CallInv
<1>6. NextLocals(call.at, call.more, rest, Twin(call.child), call.child)
  BY <1>3, <1>5 DEF NextLocals, CallInv
<1>7. QED
  BY <1>1, <1>2, <1>3, <1>4, <1>5, <1>6, OpeningGoesOn

\* getParentDir is at the last component.
LEMMA ParentsEndInv == ASSUME SInv, ParentsEnd PROVE SInv'
<1> DEFINE d == NextDirectory(call.path, call.at)
<1>1. Opening /\ call.path \in Text /\ call.at \in 1 .. Len(call.path) + 1
  BY DEF ParentsEnd, Opening, SInv, CallInv
<1>2. d.rest \in Text
  BY <1>1, DirectoryIsText
<1>3. call' = [call EXCEPT !.text = d.rest] /\ pc' \in {"same", "open"}
  BY DEF ParentsEnd
<1> HIDE DEF d
<1>4. UNCHANGED <<volumeVars, treeVars, sub, done, reply, lister>>
  BY DEF ParentsEnd
<1>5. QED
  BY <1>1, <1>2, <1>3, <1>4, SearchEnds

\* getParentDir did not find a directory; whatever text is at hand is opened.
LEMMA LostInv == ASSUME SInv, Lost PROVE SInv'
<1>1. Opening /\ UNCHANGED <<volumeVars, treeVars, sub, done, reply, lister>>
  BY DEF Lost, Opening
<1>2. PICK rest \in {p \in {c[2] : c \in Calls} : ~\E i \in DOMAIN p : p[i] = Slash} \cup {<< >>} :
        /\ call' = [call EXCEPT !.text = rest]
        /\ pc' = IF rest = << >> THEN "same" ELSE "open"
  BY DEF Lost
<1>3. rest \in Text
  <2>1. CASE rest = << >>
    BY <2>1 DEF Text
  <2>2. CASE \E c \in Calls : rest = c[2]
    <3>1. rest \in Seq(Char)
      BY <2>2, SpiSDAssumption
    <3>2. QED
      BY <3>1, SeqMonotonic DEF Text
  <2>3. QED
    BY <2>1, <2>2
<1>4. pc' \in {"same", "open"}
  BY <1>2
<1>5. QED
  BY <1>1, <1>2, <1>3, <1>4, SearchEnds

\* open returns; a listing may begin.
LEMMA OpenReturns ==
  ASSUME SInv, Opening, UNCHANGED <<mount, cached, root, treeVars, sub, call, done>>,
         refused' \in 0 .. MaxRefused, trouble' \in BOOLEAN,
         pc' = "return", reply' \in BOOLEAN, ListInv'
  PROVE  SInv'
<1>1. mounted /\ stage = "idle" /\ pc # "idle" /\ UNCHANGED <<mounted, stage>>
  BY ParentIs DEF mount
<1>2. IInv' /\ VolTypes'
  BY <1>1, VolumeStays DEF SInv
<1>3. TreeInv' /\ RootInv'
  BY <1>1 DEF SInv, TreeInv, TreeTypes, LabelInv, WrittenInv, RootInv, treeVars
<1>4. HandlesOfType' /\ done' \in BOOLEAN
  BY HandlesAre DEF HandlesOfType, SInv, CallInv
<1>5. CallInv' /\ HandleInv'
  BY <1>1, <1>4, ReturnKeeps DEF SInv
<1>6. QED
  BY <1>2, <1>3, <1>5 DEF SInv

\* A path that ends in a slash: the directory it leads to is returned.
LEMMA OpenSameInv == ASSUME SInv, OpenSame PROVE SInv'
<1>1. Opening /\ UNCHANGED <<mount, cached, root, treeVars, sub, call, done>> /\ UNCHANGED mounted
  BY DEF OpenSame, Opening, volumeVars, mount
<1>2. refused' \in 0 .. MaxRefused /\ trouble' \in BOOLEAN
  BY DEF OpenSame, SInv, VolTypes, volumeVars
<1>3. pc' = "return" /\ reply' \in BOOLEAN
  BY DEF OpenSame, Returns
<1>4. ListInv'
  <2> DEFINE h == parent
  <2>1. TreeInv /\ ListInv /\ Whole(h) /\ mounted /\ Keeps(h) /\ UNCHANGED <<treeVars, mounted>>
    BY <1>1, ParentIs DEF SInv, OpenSame
  <2> HIDE DEF h
  <2>2. QED
    BY <2>1, KeepsInv
<1>5. QED
  BY <1>1, <1>2, <1>3, <1>4, OpenReturns

\* open works on a handle that knows its directory: the root's own for its copy.
LEMMA DirFileIs ==
  ASSUME SInv, Opening
  PROVE  /\ Through \in {"root", "sub1", "sub2"} /\ (Through = "root" \/ sub[Through].node # RootDir)
         /\ dirFile = Handle(Through) /\ Whole(dirFile) /\ Inside(dirFile)
<1>1. call.parent \in {"sub1", "sub2"}
  BY TwinIs DEF SInv, HandleInv
<1>2. parent = sub[call.parent] /\ Whole(parent) /\ Whole(Handle("root"))
  BY <1>1, ParentIs DEF parent, Handle
<1>3. Whole(dirFile)
  BY <1>2 DEF dirFile, Through, parent
<1>4. Through \in {"root", "sub1", "sub2"} /\ (Through = "root" \/ sub[Through].node # RootDir)
  BY <1>1, <1>2 DEF Through
<1>5. Inside(dirFile)
  BY <1>3 DEF Whole, Inside, HandleType
<1>6. QED
  BY <1>3, <1>4, <1>5 DEF dirFile

\* open() finds the entry.
LEMMA OpenFindsInv == ASSUME SInv, OpenFinds PROVE SInv'
<1> DEFINE x == Lookup(dirFile, This)
<1>1. Opening /\ UNCHANGED <<mount, cached, root, treeVars, sub, call, done>> /\ UNCHANGED mounted
  BY DEF OpenFinds, Opening, still, mount
<1>2. refused' \in 0 .. MaxRefused /\ trouble' \in BOOLEAN
  BY AccessTypes DEF OpenFinds, SInv, Access
<1>3. pc' = "return" /\ reply' \in BOOLEAN
  BY DEF OpenFinds, Returns
<1>4. TreeInv /\ ListInv /\ Inside(dirFile) /\ mounted
  BY <1>1, DirFileIs, ParentIs DEF SInv
<1>5. lister' = lister \/ (x \in Node /\ Keeps(Opened(x)))
  <2>1. x \in Node \cup {NoNode}
    BY <1>4, LookupIs
  <2> HIDE DEF x
  <2>2. QED
    BY <2>1 DEF OpenFinds, x
<1>6. ListInv'
  <2>1. CASE lister' = lister
    BY <1>1, <2>1, TreeStands DEF SInv
  <2>2. CASE x \in Node /\ Keeps(Opened(x))
    <3> DEFINE h == Opened(x)
    <3> HIDE DEF x
    <3>1. Whole(h)
      BY <1>4, <2>2, OpenedIs
    <3>2. Keeps(h) /\ UNCHANGED <<treeVars, mounted>>
      BY <1>1, <2>2
    <3> HIDE DEF h
    <3>3. QED
      BY <1>4, <3>1, <3>2, KeepsInv
  <2>3. QED
    BY <1>5, <2>1, <2>2
<1>7. QED
  BY <1>1, <1>2, <1>3, <1>6, OpenReturns

\* open() fails, with an access refused or without.
LEMMA OpenFailsInv == ASSUME SInv, OpenFails PROVE SInv'
<1>1. Opening /\ UNCHANGED <<mount, cached, root, treeVars>> /\ lister' = lister
      /\ UNCHANGED <<call, done>> /\ sub' = sub
  BY DEF OpenFails, Opening, still
<1>2. refused' \in 0 .. MaxRefused
  <2>1. MaxRefused \in Nat /\ refused \in 0 .. MaxRefused
    BY VolumeAssumption DEF SInv, VolTypes
  <2>2. QED
    BY <2>1 DEF OpenFails, Refuses, noRefusal
<1>3. trouble' \in BOOLEAN
  BY DEF OpenFails, noRefusal, SInv, VolTypes
<1>4. HandlesOfType' /\ pc' = "return" /\ reply' \in BOOLEAN
  BY <1>1, HandlesAre DEF HandlesOfType, OpenFails, Returns
<1>5. QED
  BY <1>1, <1>2, <1>3, <1>4, QuietReturn

\* open() makes the file it does not find.
LEMMA OpenCreatesInv == ASSUME SInv, OpenCreates PROVE SInv'
<1> DEFINE p == Through
<1>1. Opening /\ UNCHANGED <<still, lister>> /\ UNCHANGED <<call, done>>
      /\ CanCreate(dirFile, This) /\ HandleGrows(p)
  BY DEF OpenCreates, Opening
<1>2. PICK x \in Unused : Creates(dirFile, x, This, "file")
  BY DEF OpenCreates
<1>3. refused' \in 0 .. MaxRefused /\ trouble' \in BOOLEAN
  BY AccessTypes DEF OpenCreates, SInv, Access
<1>4. /\ p \in {"root", "sub1", "sub2"} /\ (p = "root" \/ sub[p].node # RootDir)
      /\ dirFile = Handle(p) /\ Whole(Handle(p)) /\ This \in ShortName \cup {NoName} /\ pc # "idle"
  BY <1>1, DirFileIs, ParentIs
<1>5. /\ IInv' /\ VolTypes' /\ TreeInv' /\ RootInv' /\ ListInv' /\ HandlesOfType'
      /\ UNCHANGED <<mounted, stage>>
  <2> DEFINE n == This
             k == "file"
  <2>1. CanCreate(Handle(p), n) /\ Creates(Handle(p), x, n, k) /\ n \in ShortName \cup {NoName}
        /\ k \in {"file", "dir"}
    BY <1>1, <1>2, <1>4
  <2> HIDE DEF n, k, p
  <2>2. PICK q \in {"root", "sub1", "sub2"} : q = p
    BY <1>4
  <2>3. /\ q = "root" \/ sub[q].node # RootDir
        /\ Whole(Handle(q)) /\ CanCreate(Handle(q), n) /\ Creates(Handle(q), x, n, k)
           /\ HandleGrows(q)
    BY <1>1, <1>4, <2>1, <2>2
  <2>4. QED
    BY <1>1, <1>3, <2>1, <2>3, CreationKeeps
<1>6. pc' = "return" /\ reply' \in BOOLEAN /\ done' \in BOOLEAN
  BY <1>1 DEF OpenCreates, Returns, SInv, CallInv
<1>7. CallInv' /\ HandleInv'
  BY <1>1, <1>4, <1>5, <1>6, ReturnKeeps DEF SInv
<1>8. QED
  BY <1>5, <1>7 DEF SInv

-----------------------------------------------------------------------------
(* A call begins and ends. *)

\* The sketch makes a call.
LEMMA AskInv ==
  ASSUME SInv, NEW op \in Walks \cup {"openRead", "openWrite"}, NEW path \in Text, Ask(op, path)
  PROVE  SInv'
<1> DEFINE m == [op |-> MeantOp(op, path), path |-> Meant(op, path)]
           c == NextComponent(path, 1)
<1>1. /\ pc = "idle" /\ stage = "idle" /\ mounted /\ UNCHANGED <<mount, root, treeVars>>
         /\ lister' = lister
      /\ UNCHANGED <<mounted, stage, done>> /\ reply' = FALSE
  BY DEF Ask, mount
<1>2. refused' \in 0 .. MaxRefused /\ trouble' \in BOOLEAN
  BY DEF Ask, SInv, VolTypes
<1>3. cached' = [number |-> NoBlock, card |-> inserted]
  BY DEF Ask
<1>4. /\ sub \in [{"sub1", "sub2"} -> HandleType] /\ Handle("root") \in HandleType
      /\ sub["sub1"] = Closed /\ sub["sub2"] = Closed
      /\ root \in [type : {"closed", "root16", "root32"}, size : Nat]
  BY <1>1, HandlesAre DEF HandlesOfType, SInv, HandleInv
<1>5. IInv' /\ VolTypes'
  <2>1. root' \in [type : {"closed", "root16", "root32"}, size : Nat] /\ root'.type = root.type
        /\ root.size <= root'.size
    BY <1>1, <1>4
  <2>2. QED
    BY <1>1, <1>2, <1>3, <2>1, VolumeKeeps DEF SInv
<1>6. TreeInv' /\ RootInv' /\ ListInv'
  BY <1>1, TreeStands DEF SInv
<1>7. Whole(Handle("root")) /\ Handle("root").node = RootDir
  BY <1>1, <1>4 DEF Whole, Handle, SInv, RootInv
<1>8. << >> \in Text /\ 1 \in 1 .. Len(path) + 1 /\ Len(path) \in Nat /\ done \in BOOLEAN
  BY DEF Text, SInv, CallInv
<1>9. CASE op \in Walks
  <2>1. c.text \in Text /\ c.next \in 1 .. Len(path) + 1 /\ c.more \in BOOLEAN
    BY <1>8, ComponentIsText
  <2>2. pc' = op /\ sub' = sub
    BY <1>9 DEF Ask
  <2>3. call' = [[NoCall EXCEPT !.op = op, !.path = path, !.meant = m]
                  EXCEPT !.text = c.text, !.at = c.next, !.more = c.more]
    BY <1>9 DEF Ask
  <2> HIDE DEF c, m
  <2>4. /\ call' = [op |-> op, path |-> path, at |-> c.next, text |-> c.text, more |-> c.more,
                    parent |-> "root", child |-> "sub1", meant |-> m]
        /\ call'.op = op /\ call'.path = path /\ call'.at = c.next /\ call'.text = c.text
        /\ call'.more = c.more /\ call'.parent = "root" /\ call'.child = "sub1" /\ call'.meant = m
    BY <2>3 DEF NoCall
  <2>5. Walking' /\ ~Opening' /\ pc' \in Steps /\ pc' # "idle"
    BY <1>9, <2>2 DEF Walking, Opening, Walks, Steps
  <2>6. CallInv'
    BY <1>1, <1>8, <1>9, <2>1, <2>4, <2>5 DEF CallInv
  <2>7. parent' = Handle("root")
    BY <1>1, <2>4 DEF parent, Handle
  <2>8. IsDir(parent.node)' => parent'.size = Len(slots'[parent'.node])
    BY <1>1, <1>7, <2>7 DEF Whole, treeVars, IsDir
  <2>9. HandleInv'
    BY <1>4, <2>2, <2>4, <2>5, <2>8 DEF HandleInv, HandleType
  <2>10. QED
    BY <1>5, <1>6, <2>6, <2>9 DEF SInv
<1>10. CASE op \notin Walks
  <2>1. /\ call' = [[NoCall EXCEPT !.op = op, !.path = path, !.meant = m]
                     EXCEPT !.parent = "sub1", !.child = "sub2"]
        /\ pc' = "parents" /\ sub' = [sub EXCEPT !["sub1"] = Handle("root")]
    BY <1>10 DEF Ask
  <2> HIDE DEF c, m
  <2>2. /\ call' = [op |-> op, path |-> path, at |-> 1, text |-> << >>, more |-> FALSE,
                    parent |-> "sub1", child |-> "sub2", meant |-> m]
        /\ call'.op = op /\ call'.path = path /\ call'.at = 1 /\ call'.text = << >>
        /\ call'.more = FALSE /\ call'.parent = "sub1" /\ call'.child = "sub2" /\ call'.meant = m
    BY <2>1 DEF NoCall
  <2>3. ~Walking' /\ Opening' /\ pc' \in Steps /\ pc' # "idle"
    BY <2>1 DEF Walking, Opening, Walks, Steps
  <2>4. CallInv'
    BY <1>1, <1>8, <2>2, <2>3 DEF CallInv
  <2>5. sub' \in [{"sub1", "sub2"} -> HandleType] /\ sub'["sub1"] = Handle("root")
    BY <1>4, <2>1
  <2>6. parent' = Handle("root")
    BY <2>2, <2>5 DEF parent, Handle
  <2>7. IsDir(parent.node)' => parent'.size = Len(slots'[parent'.node])
    BY <1>1, <1>7, <2>6 DEF Whole, treeVars, IsDir
  <2>8. HandleInv'
    BY <2>2, <2>3, <2>5, <2>7, TwinIs DEF HandleInv, HandleType
  <2>9. QED
    BY <1>5, <1>6, <2>4, <2>8 DEF SInv
<1>11. QED
  BY <1>9, <1>10

\* A call returns; its handles are closed.
LEMMA ReturnInv == ASSUME SInv, Return PROVE SInv'
<1>1. /\ pc = "return" /\ pc' = "idle" /\ call' = NoCall /\ done' = FALSE /\ reply' = reply
      /\ UNCHANGED <<volumeVars, treeVars>> /\ lister' = lister
  BY DEF Return
<1>2. mounted /\ stage = "idle" /\ UNCHANGED <<mount, cached, root>> /\ UNCHANGED <<mounted, stage>>
  BY <1>1 DEF SInv, CallInv, volumeVars, mount
<1>3. refused' \in 0 .. MaxRefused /\ trouble' \in BOOLEAN
  BY <1>1 DEF SInv, VolTypes, volumeVars
<1>4. IInv' /\ VolTypes'
  BY <1>2, <1>3, VolumeStays DEF SInv
<1>5. TreeInv' /\ RootInv' /\ ListInv'
  BY <1>1, <1>2, TreeStands DEF SInv
<1>6. CallInv'
  <2>1. << >> \in Text /\ Len(<< >>) = 0 /\ reply \in BOOLEAN
    BY DEF Text, SInv, CallInv
  <2>2. ~Walking' /\ pc' \in Steps
    BY <1>1 DEF Walking, Walks, Steps
  <2>3. /\ call'.op = "none" /\ call'.path = << >> /\ call'.at = 1 /\ call'.text = << >>
        /\ call'.more = FALSE /\ call'.parent = "root" /\ call'.child = "sub1"
    BY <1>1 DEF NoCall
  <2>4. call' = [op |-> call'.op, path |-> call'.path, at |-> call'.at, text |-> call'.text,
                  more |-> call'.more, parent |-> call'.parent, child |-> call'.child, meant |-> call'.meant]
    BY <1>1 DEF NoCall
  <2>5. 1 \in 1 .. 0 + 1
    OBVIOUS
  <2>6. QED
    BY <1>1, <2>1, <2>2, <2>3, <2>4, <2>5 DEF CallInv
<1>7. HandleInv'
  <2>1. sub' = [s \in {"sub1", "sub2"} |-> Closed] /\ Closed \in HandleType
    BY HandlesAre DEF HandlesOfType, Return, Closed, HandleType
  <2>2. sub' \in [{"sub1", "sub2"} -> HandleType] /\ sub'["sub1"] = Closed /\ sub'["sub2"] = Closed
    BY <2>1
  <2>3. ~Walking' /\ ~Opening'
    BY <1>1 DEF Walking, Walks, Opening
  <2>4. call'.parent = "root" /\ call'.child = "sub1"
    BY <1>1 DEF NoCall
  <2>5. QED
    BY <2>2, <2>3, <2>4 DEF HandleInv, HandleType
<1>8. QED
  BY <1>4, <1>5, <1>6, <1>7 DEF SInv

-----------------------------------------------------------------------------
(* Listing a directory. *)

\* A step that changes only the listing, or which files are written to.
LEMMA ListStep ==
  ASSUME SInv, UNCHANGED <<volumeVars, kind, name, slots, callVars>>, TreeInv', ListInv'
  PROVE  SInv'
<1> USE DEF volumeVars, callVars
<1>1. IInv'
  BY StepInv DEF SInv
<1>2. VolTypes' /\ RootInv'
  BY DEF SInv, VolTypes, RootInv
<1>3. CallInv'
  BY DEF SInv, CallInv, Walking
<1>4. HandleInv'
  BY DEF SInv, HandleInv, Walking, Opening, parent, Handle, IsDir
<1>5. QED
  BY <1>1, <1>2, <1>3, <1>4 DEF SInv

\* A step that leaves the tree.
LEMMA TreeInvStays ==
  ASSUME SInv, UNCHANGED treeVars
  PROVE  TreeInv'
BY DEF SInv, TreeInv, TreeTypes, LabelInv, WrittenInv, treeVars

\* The application writes to a file.
LEMMA WriteInv == ASSUME SInv, Write PROVE SInv'
<1>1. UNCHANGED <<volumeVars, kind, name, slots, callVars, lister>>
  BY DEF Write
<1>2. PICK n \in Node : kind[n] = "file" /\ written' = written \cup {n}
  BY DEF Write
<1>3. TreeTypes /\ TreeTypes'
  BY <1>1, <1>2 DEF SInv, TreeInv, TreeTypes
<1>4. TreeInv'
  BY <1>1, <1>2, <1>3 DEF SInv, TreeInv, LabelInv, WrittenInv
<1>5. ListInv'
  <2>1. EntriesStay
    BY <1>1, <1>3 DEF EntriesStay, IsDir, TreeTypes
  <2>2. UNCHANGED <<lister, mounted>>
    BY <1>1 DEF volumeVars
  <2>3. QED
    BY <1>3, <2>1, <2>2, ListingKept DEF SInv
<1>6. QED
  BY <1>1, <1>4, <1>5, ListStep

\* What a listing knows.
LEMMA ListerIs ==
  ASSUME SInv, lister.node # NoNode
  PROVE  /\ lister \in Listers(Dir \cup {NoNode}, SUBSET Node)
         /\ lister.node \in Dir /\ IsDir(lister.node) /\ mounted
         /\ lister.size \in Nat /\ lister.pos \in Nat /\ lister.pos >= 1
         /\ lister.seen \subseteq Node /\ lister.stays \subseteq Node
         /\ lister.size <= Len(slots[lister.node])
         /\ slots[lister.node] \in Seq(SlotValue)
         /\ Orderly(slots[lister.node], kind, name)
         /\ Len(slots[lister.node]) \in Nat
<1>1. lister \in Listers(Dir \cup {NoNode}, SUBSET Node) /\ lister.node \in Dir
  BY DEF SInv, ListInv, Listers
<1>2. lister.size \in Nat /\ lister.pos \in Nat /\ lister.seen \subseteq Node
      /\ lister.stays \subseteq Node
  BY <1>1 DEF Listers
<1>3. IsDir(lister.node) /\ mounted /\ lister.pos >= 1 /\ lister.size <= Len(slots[lister.node])
  BY DEF SInv, ListInv
<1>4. slots[lister.node] \in Seq(SlotValue) /\ Orderly(slots[lister.node], kind, name)
  BY <1>1 DEF SInv, TreeInv, TreeTypes
<1>5. QED
  BY <1>1, <1>2, <1>3, <1>4

\* The place of the entry that is shown next.
LEMMA FirstShown ==
  ASSUME SInv, lister.node # NoNode, Shown # {}
  PROVE  /\ Min(Shown) \in Nat /\ lister.pos <= Min(Shown) /\ Min(Shown) \in 1 .. lister.size
         /\ slots[lister.node][Min(Shown)] \in Node
         /\ \A i \in Nat : lister.pos <= i /\ i < Min(Shown) => slots[lister.node][i] \notin Node
<1> DEFINE s == slots[lister.node]
           m == Min(Shown)
<1>1. lister.size \in Nat /\ lister.pos \in Nat /\ lister.pos >= 1
  BY ListerIs
<1>2. Shown \in SUBSET Nat
  BY <1>1 DEF Shown
<1>3. m \in Shown /\ \A i \in Shown : m <= i
  BY <1>2, MinIs
<1> HIDE DEF m
<1>4. m \in lister.pos .. lister.size /\ s[m] \in Node /\ \A j \in lister.pos .. m : s[j] # Free
  BY <1>3 DEF Shown, Named
<1>5. \A i \in Nat : lister.pos <= i /\ i < m => s[i] \notin Node
  <2> SUFFICES ASSUME NEW i \in Nat, lister.pos <= i, i < m, s[i] \in Node PROVE FALSE
    OBVIOUS
  <2>1. i \in lister.pos .. lister.size /\ \A j \in lister.pos .. i : j \in lister.pos .. m
    BY <1>1, <1>4
  <2>2. i \in Shown
    BY <1>4, <2>1 DEF Shown, Named
  <2>3. QED
    BY <1>1, <1>3, <1>4, <2>2
<1>6. QED
  BY <1>1, <1>4, <1>5 DEF m

\* The search for the printed name of an entry ends at that entry.
LEMMA ShownIsFound ==
  ASSUME SInv, lister.node # NoNode, Shown # {}
  PROVE  LET x == slots[lister.node][Min(Shown)]
             h == [node |-> lister.node, size |-> lister.size]
             n == make83Name(dirName(name[x]))
         IN Lookup(h, n) = x /\ Min(Ends(h, n)) = Min(Shown)
<1> DEFINE s == slots[lister.node]
           m == Min(Shown)
           x == s[m]
           h == [node |-> lister.node, size |-> lister.size]
           n == make83Name(dirName(name[x]))
           e == Min(Ends(h, n))
<1>1. m \in 1 .. lister.size /\ x \in Node
  BY FirstShown
<1>2. /\ lister.size \in Nat /\ lister.size <= Len(s) /\ Len(s) \in Nat /\ lister.node \in Dir
      /\ IsDir(lister.node) /\ Orderly(s, kind, name) /\ s \in Seq(SlotValue)
  BY ListerIs
<1> HIDE DEF m
<1>3. name[x] \in ShortName
  <2>1. name[x] # NoName
    BY <1>1, <1>2 DEF Orderly
  <2>2. name[x] \in ShortName \cup {NoName}
    BY <1>1 DEF SInv, TreeInv, TreeTypes, Entry
  <2>3. QED
    BY <2>1, <2>2
<1>4. n = name[x] /\ n # NoName
  BY <1>3, PrintedIsFound, NoNameIsShort
<1> HIDE DEF n
<1>5. h \in HandleType /\ Inside(h) /\ h.node = lister.node /\ h.size = lister.size
  BY <1>2 DEF HandleType, Inside
<1> HIDE DEF h
<1>6. Lookup(h, n) # NoNode
  <2>1. Lookup(h, n) = NoNode => name[x] # n
    BY <1>1, <1>2, <1>4, <1>5, LookupIs DEF SInv
  <2>2. QED
    BY <1>4, <2>1
<1>7. e \in 1 .. lister.size /\ s[e] = Lookup(h, n) /\ s[e] \in Node /\ name[s[e]] = n
  <2>1. TreeInv
    BY DEF SInv
  <2>2. /\ Lookup(h, n) \in Node \cup {NoNode} /\ e \in 1 .. h.size
        /\ slots[h.node][e] = Lookup(h, n) /\ name[Lookup(h, n)] = n
    BY <1>5, <1>6, <2>1, LookupIs
  <2>3. QED
    BY <1>5, <1>6, <2>2
<1> HIDE DEF e
<1>8. e = m
  <2>1. e \in 1 .. Len(s) /\ m \in 1 .. Len(s)
    BY <1>1, <1>2, <1>7
  <2>2. e # m => name[s[e]] # name[s[m]]
    BY <1>1, <1>2, <1>7, <2>1 DEF Orderly, Entry
  <2>3. QED
    BY <1>4, <1>7, <2>2
<1>9. Lookup(h, n) = x
  BY <1>7, <1>8
<1>10. QED
  BY <1>8, <1>9 DEF e, m, h, n

\* What the next call of openNextFile makes of the listing.
LEMMA OpenNextFileInv == ASSUME SInv, OpenNextFile PROVE SInv'
<1> DEFINE s == slots[lister.node]
           m == Min(Shown)
           x == s[m]
           h == [node |-> lister.node, size |-> lister.size]
           n == make83Name(dirName(name[x]))
           e == Min(Ends(h, n))
<1>1. lister.node # NoNode /\ Shown # {} /\ UNCHANGED <<volumeVars, treeVars, callVars>>
  BY DEF OpenNextFile, Listing
<1>2. lister' = [lister EXCEPT !.pos = e + 1, !.seen = @ \cup {x},
                               !.twice = @ \/ (x \in lister.seen)]
  BY DEF OpenNextFile, Behind
<1>3. e = m
  BY <1>1, ShownIsFound
<1>4. /\ m \in Nat /\ lister.pos <= m /\ m \in 1 .. lister.size /\ x \in Node
      /\ \A i \in Nat : lister.pos <= i /\ i < m => s[i] \notin Node
  BY <1>1, FirstShown
<1> HIDE DEF e, m
<1>5. /\ lister \in Listers(Dir \cup {NoNode}, SUBSET Node)
      /\ lister.node \in Dir /\ IsDir(lister.node) /\ mounted
      /\ lister.size \in Nat /\ lister.pos \in Nat /\ lister.pos >= 1
      /\ lister.seen \subseteq Node /\ lister.stays \subseteq Node
      /\ lister.size <= Len(s)
  BY <1>1, ListerIs
<1>6. Orderly(s, kind, name) /\ Len(s) \in Nat
  BY <1>1, ListerIs
<1>7. \A y \in lister.seen : \E i \in 1 .. lister.size : i < lister.pos /\ s[i] = y
  BY <1>1 DEF SInv, ListInv
<1>8. \A y \in lister.stays :
        \E i \in 1 .. lister.size : s[i] = y /\ (i < lister.pos => y \in lister.seen)
  BY <1>1 DEF SInv, ListInv
<1>9. x \notin lister.seen
  <2> SUFFICES ASSUME x \in lister.seen PROVE FALSE
    OBVIOUS
  <2>1. PICK i \in 1 .. lister.size : i < lister.pos /\ s[i] = x
    BY <1>7
  <2>2. i # m /\ i \in 1 .. Len(s) /\ m \in 1 .. Len(s)
    BY <1>4, <1>5, <1>6, <2>1
  <2>3. QED
    BY <1>4, <1>6, <2>1, <2>2 DEF Orderly, Entry
<1> DEFINE seen == lister.seen \cup {x}
<1>10. lister' = [node |-> lister.node, size |-> lister.size, pos |-> m + 1, seen |-> seen,
                  stays |-> lister.stays, ended |-> lister.ended, twice |-> lister.twice]
  <2>1. (lister.twice \/ (x \in lister.seen)) = lister.twice
    BY <1>5, <1>9 DEF Listers
  <2>2. QED
    BY <1>2, <1>3, <1>5, <2>1 DEF Listers
<1>11. seen \in SUBSET Node
  BY <1>4, <1>5
<1>12. \A y \in seen : \E i \in 1 .. lister.size : i < m + 1 /\ s[i] = y
  <2> SUFFICES ASSUME NEW y \in seen PROVE \E i \in 1 .. lister.size : i < m + 1 /\ s[i] = y
    OBVIOUS
  <2>1. CASE y = x
    BY <1>4, <2>1
  <2>2. CASE y \in lister.seen
    <3>1. PICK i \in 1 .. lister.size : i < lister.pos /\ s[i] = y
      BY <1>7, <2>2
    <3>2. i < m + 1
      BY <1>4, <1>5, <3>1
    <3>3. QED
      BY <3>1, <3>2
  <2>3. QED
    BY <2>1, <2>2
<1>13. \A y \in lister.stays : \E i \in 1 .. lister.size : s[i] = y /\ (i < m + 1 => y \in seen)
  <2> SUFFICES ASSUME NEW y \in lister.stays
               PROVE  \E i \in 1 .. lister.size : s[i] = y /\ (i < m + 1 => y \in seen)
    OBVIOUS
  <2>1. PICK i \in 1 .. lister.size : s[i] = y /\ (i < lister.pos => y \in lister.seen)
    BY <1>8
  <2>2. i < m + 1 => y \in seen
    <3>1. CASE i < lister.pos
      BY <2>1, <3>1
    <3>2. CASE i = m
      BY <2>1, <3>2
    <3>3. CASE lister.pos <= i /\ i < m
      <4>1. s[i] \notin Node /\ y \in Node
        BY <1>4, <1>5, <3>3
      <4>2. QED
        BY <2>1, <4>1
    <3>4. QED
      BY <1>4, <1>5, <3>1, <3>2, <3>3
  <2>3. QED
    BY <2>1, <2>2
<1>14. (lister.ended => lister.stays \subseteq lister.seen) /\ ~lister.twice
  BY DEF SInv, ListInv
<1>15. ListInv'
  <2> HIDE DEF seen
  <2>1. lister' \in Listers(Dir \cup {NoNode}, SUBSET Node)
    BY <1>4, <1>5, <1>10, <1>11 DEF Listers
  <2>2. /\ lister'.node = lister.node /\ lister'.size = lister.size /\ lister'.pos = m + 1
        /\ lister'.seen = seen /\ lister'.stays = lister.stays /\ lister'.ended = lister.ended
        /\ lister'.twice = lister.twice
    BY <1>10
  <2>3. slots' = slots /\ kind' = kind /\ mounted' = mounted
    BY <1>1 DEF volumeVars, treeVars
  <2>4. lister.seen \subseteq seen
    BY DEF seen
  <2>5. m + 1 >= 1
    BY <1>4
  <2>6. \A y \in lister'.seen :
          \E i \in 1 .. lister'.size : i < lister'.pos /\ slots'[lister'.node][i] = y
    BY <1>12, <2>2, <2>3
  <2>7. \A y \in lister'.stays :
          \E i \in 1 .. lister'.size :
            slots'[lister'.node][i] = y /\ (i < lister'.pos => y \in lister'.seen)
    BY <1>13, <2>2, <2>3
  <2>8. (lister'.ended => lister'.stays \subseteq lister'.seen) /\ ~lister'.twice
    BY <1>14, <2>2, <2>4
  <2>9. mounted' /\ IsDir(lister.node)' /\ lister'.size <= Len(slots'[lister'.node])
        /\ lister'.pos >= 1
    BY <1>5, <2>2, <2>3, <2>5 DEF IsDir
  <2>10. lister'.node # NoNode
    BY <1>1, <2>2
  <2>11. QED
    BY <2>1, <2>6, <2>7, <2>8, <2>9, <2>10 DEF ListInv
<1>16. QED
  BY <1>1, <1>15, ListStep, TreeInvStays DEF treeVars

\* openNextFile comes to the end of the directory.
LEMMA ListEndsInv == ASSUME SInv, ListEnds PROVE SInv'
<1> DEFINE s == slots[lister.node]
<1>1. lister.node # NoNode /\ UNCHANGED <<volumeVars, treeVars, callVars>>
      /\ lister' = [lister EXCEPT !.ended = TRUE]
  BY DEF ListEnds, Listing
<1>2. Shown = {}
  BY <1>1, ShownIsFound DEF ListEnds
<1>3. /\ lister \in Listers(Dir \cup {NoNode}, SUBSET Node)
      /\ lister.node \in Dir /\ IsDir(lister.node) /\ mounted
      /\ lister.size \in Nat /\ lister.pos \in Nat /\ lister.pos >= 1
      /\ lister.seen \subseteq Node /\ lister.stays \subseteq Node
      /\ lister.size <= Len(s)
  BY <1>1, ListerIs
<1>4. Orderly(s, kind, name) /\ Len(s) \in Nat
  BY <1>1, ListerIs
<1>5. \A y \in lister.stays :
        \E i \in 1 .. lister.size : s[i] = y /\ (i < lister.pos => y \in lister.seen)
  BY <1>1 DEF SInv, ListInv
<1>6. lister.stays \subseteq lister.seen
  <2> SUFFICES ASSUME NEW y \in lister.stays, y \notin lister.seen PROVE FALSE
    OBVIOUS
  <2>1. PICK i \in 1 .. lister.size : s[i] = y /\ (i < lister.pos => y \in lister.seen)
    BY <1>5
  <2>2. i \in lister.pos .. lister.size /\ s[i] \in Node
    BY <1>3, <2>1
  <2>3. PICK j \in lister.pos .. i : s[j] = Free
    BY <1>2, <2>2 DEF Shown, Named
  <2>4. s[i] = Free
    <3>1. j \in 1 .. Len(s) /\ i \in 1 .. Len(s) /\ j <= i
      BY <1>3, <1>4, <2>1, <2>3
    <3>2. QED
      BY <1>4, <2>3, <3>1 DEF Orderly
  <2>5. QED
    BY <2>2, <2>4, MarksDiffer
<1>7. /\ lister'.node = lister.node /\ lister'.size = lister.size /\ lister'.pos = lister.pos
      /\ lister'.seen = lister.seen /\ lister'.stays = lister.stays
      /\ lister'.twice = lister.twice
  BY <1>1, <1>3 DEF Listers
<1>8. ListInv'
  <2>1. lister' \in Listers(Dir \cup {NoNode}, SUBSET Node)
    BY <1>1, <1>3 DEF Listers
  <2>2. slots' = slots /\ kind' = kind /\ mounted' = mounted
    BY <1>1 DEF volumeVars, treeVars
  <2>3. QED
    BY <1>1, <1>6, <1>7, <2>1, <2>2 DEF SInv, ListInv, IsDir
<1>9. QED
  BY <1>1, <1>8, ListStep, TreeInvStays DEF treeVars

\* rewindDirectory starts the listing again.
LEMMA RewindDirectoryInv == ASSUME SInv, RewindDirectory PROVE SInv'
<1>1. lister.node # NoNode /\ UNCHANGED <<volumeVars, treeVars, callVars>>
      /\ lister' = [lister EXCEPT !.pos = 1, !.seen = {}, !.ended = FALSE, !.twice = FALSE]
  BY DEF RewindDirectory, Listing
<1>2. lister \in Listers(Dir \cup {NoNode}, SUBSET Node) /\ lister.size \in Nat
  BY <1>1, ListerIs
<1>3. /\ lister'.node = lister.node /\ lister'.size = lister.size /\ lister'.pos = 1
      /\ lister'.seen = {} /\ lister'.stays = lister.stays /\ lister'.ended = FALSE
         /\ lister'.twice = FALSE
  BY <1>1, <1>2 DEF Listers
<1>4. lister' \in Listers(Dir \cup {NoNode}, SUBSET Node)
  BY <1>1, <1>2 DEF Listers
<1>5. slots' = slots /\ kind' = kind /\ mounted' = mounted
  BY <1>1 DEF volumeVars, treeVars
<1>6. \A y \in lister'.stays :
        \E i \in 1 .. lister'.size :
          slots'[lister'.node][i] = y /\ (i < lister'.pos => y \in lister'.seen)
  <2>1. \A i \in 1 .. lister.size : ~(i < 1)
    BY <1>2
  <2>2. \A y \in lister.stays : \E i \in 1 .. lister.size : slots[lister.node][i] = y
    BY <1>1 DEF SInv, ListInv
  <2>3. QED
    BY <1>3, <1>5, <2>1, <2>2
<1>7. ListInv'
  BY <1>1, <1>3, <1>4, <1>5, <1>6 DEF SInv, ListInv, IsDir
<1>8. QED
  BY <1>1, <1>7, ListStep, TreeInvStays DEF treeVars

\* close() ends the listing.
LEMMA CloseListerInv == ASSUME SInv, CloseLister PROVE SInv'
<1>1. lister' = NoLister /\ UNCHANGED <<volumeVars, treeVars, callVars>>
  BY DEF CloseLister
<1>2. ListInv'
  BY <1>1 DEF ListInv, NoLister, Listers
<1>3. QED
  BY <1>1, <1>2, ListStep, TreeInvStays DEF treeVars

-----------------------------------------------------------------------------
(* begin(). *)

\* The volume's type is one of the three, whatever the boot sector.
LEMMA FatTypeIs ==
  ASSUME NEW b \in BootSector, NEW first \in Nat, IsBoot(b), NEW v, v = Geometry(b, first)
  PROVE  "fatType" \in DOMAIN v /\ v.fatType \in {12, 16, 32}
<1> DEFINE fatStart == first + b.reserved
           behindFats == fatStart + b.fats * PerFat(b)
           dataStart == behindFats + RootBlocks(b)
           blocks == Total(b) - (dataStart - first)
           clusters == blocks \div b.perCluster
<1>1. b.perCluster \in Nat \ {0} /\ b.fats \in Nat /\ b.reserved \in Nat
  BY DEF IsBoot, BootSector
<1>2. RootBlocks(b) \in Int
  <2>1. b.rootEntries + EntriesPerBlock - 1 \in Int /\ EntriesPerBlock \in Nat \ {0}
    BY VolumeAssumption DEF BootSector
  <2>2. QED
    BY <2>1, Division DEF RootBlocks
<1>3. Total(b) \in Nat /\ PerFat(b) \in Nat
  BY DEF Total, PerFat, BootSector
<1>4. b.fats * PerFat(b) \in Nat
  BY <1>1, <1>3
<1>5. blocks \in Int
  <2> DEFINE q == b.fats * PerFat(b)
             r == RootBlocks(b)
  <2>1. q \in Nat /\ r \in Int
    BY <1>2, <1>4
  <2> HIDE DEF q, r
  <2>2. Total(b) - ((first + b.reserved + q + r) - first) \in Int
    BY <1>1, <1>3, <2>1
  <2>3. QED
    BY <2>2 DEF q, r
<1>6. clusters \in Int
  <2> HIDE DEF blocks
  <2>1. QED
    BY <1>1, <1>5, Division
<1>7. FatType(clusters) \in {12, 16, 32}
  <2> HIDE DEF clusters
  <2>1. Fat12End \in Nat /\ Fat16End \in Nat
    BY VolumeAssumption
  <2>2. \/ clusters < Fat12End
        \/ clusters >= Fat12End /\ clusters < Fat16End
        \/ clusters >= Fat16End
    BY <1>6, <2>1
  <2>3. QED
    BY <2>2 DEF FatType
<1>8. "fatType" \in DOMAIN v /\ v.fatType = FatType(clusters)
  BY DEF Geometry
<1>9. QED
  BY <1>7, <1>8

\* The count of refusals stays in its bound while begin() runs.
LEMMA RefusalTypes ==
  ASSUME VolTypes, Refusal
  PROVE  refused' \in 0 .. MaxRefused /\ trouble' \in BOOLEAN
<1>1. MaxRefused \in Nat /\ refused \in 0 .. MaxRefused
  BY VolumeAssumption DEF VolTypes
<1>2. refused < MaxRefused /\ refused' = refused + 1 /\ trouble' = TRUE
  BY DEF Refusal
<1>3. QED
  BY <1>1, <1>2

\* The steps of begin() keep the types that IInv does not have.
LEMMA VolTypesStep ==
  ASSUME IInv, VolTypes, VolumeNext
  PROVE  VolTypes'
<1>2. "fatType" \in DOMAIN vol /\ vol.fatType \in {0, 12, 16, 32} /\ began \in BOOLEAN
  BY DEF VolTypes
<1>3. refused \in 0 .. MaxRefused /\ trouble \in BOOLEAN
  BY DEF VolTypes
<1>4. CASE \E card \in Cards : Insert(card)
  BY <1>2, <1>3, <1>4 DEF Insert, VolTypes
<1>5. ASSUME \/ Begin \/ ReadTable \/ OpenRoot16 \/ OpenRootFails \/ OpenRoot32
      PROVE  VolTypes'
  <2>1. vol' = vol /\ began' \in BOOLEAN
    BY <1>2, <1>5 DEF Begin, ReadTable, OpenRoot16, OpenRootFails, OpenRoot32, Reply,
       TrySuperFloppy, goesOn
  <2>2. refused' \in 0 .. MaxRefused /\ trouble' \in BOOLEAN
    <3>1. Refusal \/ (refused' = refused /\ (trouble' = trouble \/ trouble' = FALSE))
      BY <1>5 DEF Begin, ReadTable, OpenRoot16, OpenRootFails, OpenRoot32, RefusesBlock, Fetches
    <3>2. QED
      BY <1>3, <3>1, RefusalTypes
  <2>3. QED
    BY <1>2, <2>1, <2>2 DEF VolTypes
<1>6. CASE ReadBoot
  <2> DEFINE b == BootAt(Source(start), start)
  <2>1. refused' \in 0 .. MaxRefused /\ trouble' \in BOOLEAN
    <3>1. Refusal \/ (refused' = refused /\ trouble' = trouble)
      BY <1>6 DEF ReadBoot, RefusesBlock, Fetches
    <3>2. QED
      BY <1>3, <3>1, RefusalTypes
  <2>2. began' \in BOOLEAN
    BY <1>2, <1>6 DEF ReadBoot, PartFails, Reply, TrySuperFloppy, goesOn
  <2>3. start \in Nat /\ Source(start) \in Cards
    BY DEF IInv, MountTypes, Source, Hit
  <2>4. b \in BootSector
    BY <2>3, BootFields
  <2>5. \/ vol' = vol
        \/ vol' = [vol EXCEPT !.fatCount = b.fats, !.blocksPerCluster = b.perCluster,
                              !.clusterSizeShift = MaxShift + 2]
        \/ IsBoot(b) /\ vol' = Geometry(b, start)
    BY <1>6 DEF ReadBoot
  <2> HIDE DEF b
  <2>6. "fatType" \in DOMAIN vol' /\ vol'.fatType \in {0, 12, 16, 32}
    <3>1. CASE vol' = vol
      BY <1>2, <3>1
    <3>2. CASE vol' = [vol EXCEPT !.fatCount = b.fats, !.blocksPerCluster = b.perCluster,
                                  !.clusterSizeShift = MaxShift + 2]
      <4>1. DOMAIN vol' = DOMAIN vol /\ vol'.fatType = vol.fatType
        BY <1>2, <3>2
      <4>2. QED
        BY <1>2, <4>1
    <3>3. CASE IsBoot(b) /\ vol' = Geometry(b, start)
      <4> DEFINE v == Geometry(b, start)
      <4>1. v = Geometry(b, start)
        OBVIOUS
      <4> HIDE DEF v
      <4>2. "fatType" \in DOMAIN v /\ v.fatType \in {12, 16, 32}
        BY <2>3, <2>4, <3>3, <4>1, FatTypeIs
      <4>3. vol' = v
        BY <3>3, <4>1
      <4>4. QED
        BY <4>2, <4>3
    <3>4. QED
      BY <2>5, <3>1, <3>2, <3>3
  <2>7. QED
    BY <2>1, <2>2, <2>6 DEF VolTypes
<1>7. QED
  BY <1>4, <1>5, <1>6 DEF VolumeNext

\* The slots of the root that begin() finds.
LEMMA NewRootIs ==
  ASSUME NEW size \in Nat, NEW kd, NEW nm
  PROVE  /\ NewRoot(size) \in Seq(SlotValue) /\ Len(NewRoot(size)) = size
         /\ size # 0 => NewRoot(size)[1] = Other
         /\ Orderly(NewRoot(size), kd, nm)
<1> DEFINE s == NewRoot(size)
<1>1. /\ s \in Seq(SlotValue) /\ Len(s) = size
      /\ \A i \in 1 .. size : s[i] = IF i = 1 THEN Other ELSE Free
  BY DEF NewRoot, SlotValue
<1> HIDE DEF s
<1>2. \A i \in 1 .. Len(s) : s[i] \notin Node
  BY <1>1, MarksDiffer
<1>3. \A i, j \in 1 .. Len(s) : s[i] = Free /\ i <= j => s[j] = Free
  BY <1>1, MarksDiffer
<1>4. \A i, j \in 1 .. Len(s) : s[i] = Other /\ s[j] = Other => i = j
  BY <1>1, MarksDiffer
<1>5. Orderly(s, kd, nm)
  BY <1>1, <1>2, <1>3, <1>4, NewKeeps
<1>6. QED
  BY <1>1, <1>5 DEF s

\* The volume label's name is none, or one a call can ask for.
LEMMA LabelIs ==
  ASSUME NEW card \in Cards
  PROVE  Label[card] \in ShortName \cup {NoName}
<1>1. PICK n : n = Label[card]
  OBVIOUS
<1>2. n \in [base : Seq(Letter), ext : Seq(Letter)] /\ make83Name(dirName(n)) = n
  BY <1>1, SpiSDAssumption
<1>3. n.base \in Seq(Letter) /\ n.ext \in Seq(Letter)
  BY <1>2
<1>4. Letter \subseteq Char /\ Dot \in Char
  BY DEF Char
<1>5. n.base \in Seq(Char) /\ n.ext \in Seq(Char) /\ << >> \in Seq(Char) /\ <<Dot>> \in Seq(Char)
  BY <1>3, <1>4, SeqMonotonic
<1>6. dirName(n) \in Seq(Char)
  BY <1>5 DEF dirName
<1>7. QED
  BY <1>1, <1>2, <1>6, MadeIsShort

\* Once mounted, begin() leaves the root's handle as it is: it is open.
LEMMA MountedRootStays ==
  ASSUME IInv, mounted, VolumeNext
  PROVE  mounted' /\ root' = root
<1>1. root.type # "closed"
  BY DEF IInv, Mounted
<1>2. QED
  BY <1>1 DEF VolumeNext, Insert, Begin, ReadTable, ReadBoot, OpenRootFails, OpenRoot16, OpenRoot32,
              Reply, TrySuperFloppy, PartFails, goesOn

\* A step of begin().
LEMMA MountInv == ASSUME SInv, Mount PROVE SInv'
<1>1. pc = "idle" /\ VolumeNext /\ UNCHANGED <<kind, written, callVars, lister>>
  BY DEF Mount
<1>2. /\ slots' = IF mounted' /\ ~mounted
                    THEN [slots EXCEPT ![RootDir] = NewRoot(root'.size)] ELSE slots
      /\ name' = IF mounted' /\ ~mounted
                   THEN [name EXCEPT ![Other] = IF root'.size = 0 THEN NoName ELSE Label[inserted]]
                   ELSE name
  BY DEF Mount
<1>3. IInv' /\ VolTypes'
  BY <1>1, StepInv, VolTypesStep DEF SInv
<1>4. mounted \in BOOLEAN /\ mounted' \in BOOLEAN /\ root'.size \in Nat
  BY <1>3 DEF SInv, IInv, MountTypes
<1>5. TreeTypes /\ \A d \in Dir : slots[d] \in Seq(SlotValue) /\ Orderly(slots[d], kind, name)
  BY DEF SInv, TreeInv, TreeTypes
<1>6. UNCHANGED <<sub, call, pc, done, reply>>
  BY <1>1 DEF callVars
<1>7. /\ NewRoot(root'.size) \in Seq(SlotValue) /\ Len(NewRoot(root'.size)) = root'.size
      /\ root'.size # 0 => NewRoot(root'.size)[1] = Other
      /\ Orderly(NewRoot(root'.size), kind, name')
  BY <1>4, NewRootIs
<1>8. TreeInv'
  <2>1. slots' \in [Dir -> Seq(SlotValue)]
    BY <1>2, <1>5, <1>7 DEF TreeTypes
  <2>2. LabelInv /\ WrittenInv /\ WrittenInv'
    BY <1>1 DEF SInv, TreeInv, WrittenInv
  <2>3. name' \in [Entry -> ShortName \cup {NoName}] /\ \A n \in Node : name'[n] = name[n]
    <3>1. inserted \in Cards
      BY DEF SInv, IInv, MountTypes
    <3>2. Label[inserted] \in ShortName \cup {NoName}
      BY <3>1, LabelIs
    <3>3. name \in [Entry -> ShortName \cup {NoName}] /\ Other \in Entry /\ Other \notin Node
          /\ \A n \in Node : n \in Entry
      BY <1>5, MarksDiffer DEF TreeTypes, Entry
    <3>4. QED
      BY <1>2, <3>2, <3>3
  <2>4. CASE mounted' /\ ~mounted
    <3>1. slots'[RootDir] = NewRoot(root'.size) /\ \A d \in Node : slots'[d] = slots[d]
      BY <1>2, <1>5, <2>4, MarksDiffer DEF TreeTypes, Dir
    <3>2. ASSUME NEW d \in Node PROVE Orderly(slots'[d], kind, name')
      <4>1. d \in Dir /\ \A i \in 1 .. Len(slots[d]) : slots[d][i] # Other
        BY <2>2 DEF LabelInv, Dir
      <4>2. Orderly(slots[d], kind, name)
        BY <1>5, <4>1
      <4>3. QED
        BY <2>3, <3>1, <4>1, <4>2 DEF Orderly, Entry
    <3>3. \A d \in Dir : Orderly(slots'[d], kind, name')
      BY <1>7, <3>1, <3>2 DEF Dir
    <3>4. LabelInv'
      <4>1. name'[Other] # NoName => root'.size # 0
        BY <1>2, <1>5, <2>4 DEF TreeTypes, Entry
      <4>2. root'.size # 0 => 1 \in 1 .. Len(slots'[RootDir]) /\ slots'[RootDir][1] = Other
        BY <1>4, <1>7, <3>1
      <4>3. QED
        BY <2>2, <3>1, <4>1, <4>2 DEF LabelInv
    <3>5. QED
      BY <1>1, <1>5, <2>1, <2>2, <2>3, <3>3, <3>4 DEF TreeInv, TreeTypes
  <2>5. CASE ~(mounted' /\ ~mounted)
    <3>1. slots' = slots /\ name' = name /\ kind' = kind
      BY <1>1, <1>2, <2>5
    <3>2. LabelInv'
      BY <2>2, <3>1 DEF LabelInv
    <3>3. QED
      BY <1>1, <1>5, <2>1, <2>2, <2>3, <3>1, <3>2 DEF TreeInv, TreeTypes
  <2>6. QED
    BY <2>4, <2>5
<1>9. RootInv'
  <2>1. CASE mounted
    BY <1>1, <1>2, <2>1, MountedRootStays DEF SInv, RootInv
  <2>2. CASE ~mounted
    <3>1. mounted' => slots'[RootDir] = NewRoot(root'.size)
      BY <1>2, <1>5, <2>2 DEF TreeTypes, Dir
    <3>2. QED
      BY <1>7, <3>1 DEF RootInv
  <2>3. QED
    BY <1>4, <2>1, <2>2
<1>10. CallInv' /\ HandleInv'
  <2>1. ~Walking' /\ ~Opening'
    BY <1>1, <1>6 DEF Walking, Walks, Opening
  <2>2. CallInv'
    BY <1>1, <1>6, <2>1 DEF SInv, CallInv
  <2>3. HandleInv'
    BY <1>1, <1>6, <2>1 DEF SInv, HandleInv
  <2>4. QED
    BY <2>2, <2>3
<1>11. ListInv'
  <2>1. CASE mounted
    <3>0. mounted'
      BY <1>1, <2>1, MountedRootStays DEF SInv
    <3>1. slots' = slots /\ mounted' = mounted
      BY <1>2, <1>4, <2>1, <3>0
    <3>2. EntriesStay /\ TreeTypes'
      BY <1>1, <1>5, <1>8, <3>1 DEF EntriesStay, IsDir, TreeTypes, TreeInv
    <3>3. UNCHANGED <<lister, mounted>>
      BY <1>1, <3>1
    <3>4. QED
      BY <1>5, <3>2, <3>3, ListingKept DEF SInv
  <2>2. CASE ~mounted
    <3>1. lister = NoLister
      BY <2>2 DEF SInv, ListInv
    <3>2. lister' = NoLister
      BY <1>1, <3>1
    <3>3. QED
      BY <3>2 DEF ListInv, NoLister, Listers
  <2>3. QED
    BY <2>1, <2>2
<1>12. QED
  BY <1>3, <1>8, <1>9, <1>10, <1>11 DEF SInv

-----------------------------------------------------------------------------
(* SInv is inductive. *)

\* The invariant holds before begin() is called.
LEMMA SInitInv == Init => SInv
<1> SUFFICES ASSUME Init PROVE SInv
  OBVIOUS
<1>1. IInv
  BY InitInv DEF Init
<1>2. VolTypes
  <2>1. MaxRefused \in Nat
    BY VolumeAssumption
  <2>2. vol = NoVolume /\ began = FALSE /\ refused = 0 /\ trouble = FALSE
    BY DEF Init, VolumeInit
  <2>3. "fatType" \in DOMAIN NoVolume /\ NoVolume.fatType = 0
    BY DEF NoVolume
  <2>4. 0 \in 0 .. MaxRefused
    BY <2>1
  <2>5. QED
    BY <2>2, <2>3, <2>4 DEF VolTypes
<1>3. TreeInv
  <2>1. /\ kind = [n \in Node |-> "none"] /\ name = [n \in Entry |-> NoName]
        /\ slots = [d \in Dir |-> << >>] /\ written = {}
    BY DEF Init, Entry
  <2>2. TreeTypes
    BY <2>1 DEF TreeTypes
  <2>3. \A d \in Dir : Orderly(slots[d], kind, name)
    BY <2>1 DEF Orderly
  <2>4. LabelInv
    <3>1. Other \in Entry /\ \A d \in Node : d \in Dir
      BY DEF Entry, Dir
    <3>2. QED
      BY <2>1, <3>1 DEF LabelInv
  <2>5. WrittenInv
    BY <2>1 DEF WrittenInv
  <2>6. QED
    BY <2>2, <2>3, <2>4, <2>5 DEF TreeInv
<1>4. pc = "idle" /\ ~mounted /\ ~Walking /\ ~Opening /\ call = NoCall /\ done = FALSE
      /\ reply = FALSE
  BY DEF Init, VolumeInit, Walking, Walks, Opening
<1>5. CallInv
  <2>1. /\ call.op = "none" /\ call.path = << >> /\ call.at = 1 /\ call.text = << >>
        /\ call.more = FALSE /\ call.parent = "root" /\ call.child = "sub1"
    BY <1>4 DEF NoCall
  <2>2. call = [op |-> call.op, path |-> call.path, at |-> call.at, text |-> call.text,
                 more |-> call.more, parent |-> call.parent, child |-> call.child, meant |-> call.meant]
    BY <1>4 DEF NoCall
  <2>3. << >> \in Text /\ Len(<< >>) = 0 /\ 1 \in 1 .. 0 + 1 /\ pc \in Steps
    BY <1>4 DEF Text, Steps
  <2>4. QED
    BY <1>4, <2>1, <2>2, <2>3 DEF CallInv
<1>6. HandleInv
  <2>1. sub = [s \in {"sub1", "sub2"} |-> Closed] /\ Closed \in HandleType
    BY DEF Init, Closed, HandleType
  <2>2. sub \in [{"sub1", "sub2"} -> HandleType] /\ sub["sub1"] = Closed /\ sub["sub2"] = Closed
    BY <2>1
  <2>3. QED
    BY <1>4, <2>2 DEF HandleInv, HandleType, NoCall
<1>7. RootInv /\ ListInv
  <2>1. lister = NoLister
    BY DEF Init
  <2>2. QED
    BY <1>4, <2>1 DEF RootInv, ListInv, NoLister, Listers
<1>8. QED
  BY <1>1, <1>2, <1>3, <1>5, <1>6, <1>7 DEF SInv

\* Every action keeps it.
LEMMA SNextInv == ASSUME SInv, Next PROVE SInv'
<1>1. CASE pc = "idle" /\ \E c \in Calls : Ask(c[1], c[2])
  <2>1. PICK c \in Calls : Ask(c[1], c[2])
    BY <1>1
  <2>2. c[1] \in Walks \cup {"openRead", "openWrite"} /\ c[2] \in Seq(Char)
    BY SpiSDAssumption
  <2>3. c[2] \in Text
    BY <2>2, SeqMonotonic DEF Text
  <2>4. QED
    BY <2>1, <2>2, <2>3, AskInv
<1>2. CASE \E n \in 0 .. TextMax : \E text \in [1 .. n -> TextChar] : Ask("exists", text)
  <2>0. PICK n \in 0 .. TextMax : \E text \in [1 .. n -> TextChar] : Ask("exists", text)
    BY <1>2
  <2>1. PICK text \in [1 .. n -> TextChar] : Ask("exists", text)
    BY <2>0
  <2>2. n \in Nat
    BY SpiSDAssumption
  <2>3. text \in Seq(TextChar)
    BY <2>2
  <2>4. text \in Text
    BY <2>3, SeqMonotonic DEF Text
  <2>5. "exists" \in Walks \cup {"openRead", "openWrite"}
    BY DEF Walks
  <2>6. QED
    BY <2>1, <2>4, <2>5, AskInv
<1>3. QED
  BY <1>1, <1>2, MountInv, WriteInv, CallbackExistsInv, MkdirFindsInv, MkdirFailsInv, MkdirMakesInv,
     CallbackWaitsInv, CallbackRefusesInv, CallbackRemovesInv, DescendInv, ParentsNextInv,
     ParentsEndInv, LostInv, OpenSameInv, OpenFindsInv, OpenCreatesInv, OpenFailsInv, ReturnInv,
     OpenNextFileInv, ListEndsInv, RewindDirectoryInv, CloseListerInv
     DEF Next

\* So does a step that changes nothing.
LEMMA SStepInv == SInv /\ [Next]_vars => SInv'
<1> SUFFICES ASSUME SInv, [Next]_vars PROVE SInv'
  OBVIOUS
<1>1. CASE Next
  BY <1>1, SNextInv
<1>2. CASE UNCHANGED vars
  <2>1. UNCHANGED <<volumeVars, treeVars, callVars>> /\ lister' = lister
    BY <1>2 DEF vars
  <2>2. ListInv'
    BY <2>1, TreeStands DEF SInv, volumeVars, treeVars
  <2>3. QED
    BY <2>1, <2>2, ListStep, TreeInvStays DEF treeVars
<1>3. QED
  BY <1>1, <1>2

\* SInv holds of every state, whatever the calls, the cards and the characters.
THEOREM CallInvariant == Spec => []SInv
BY SInitInv, SStepInv, PTL DEF Spec

-----------------------------------------------------------------------------
(* What it says of the calls. *)

\* The characters of a sequence are of its set.
LEMMA RangeOf ==
  ASSUME NEW S, NEW s \in Seq(S)
  PROVE  Range(s) \subseteq S
BY RangeOfSeq

\* The types follow from the invariant.
LEMMA TypesHold == SInv => TypeOK
<1> SUFFICES ASSUME SInv PROVE TypeOK
  OBVIOUS
<1>1. VolumeTypeOK
  BY DEF SInv, IInv, MountTypes, VolTypes, VolumeTypeOK
<1>2. kind \in [Node -> {"none", "file", "dir"}]
  BY DEF SInv, TreeInv, TreeTypes
<1>3. \A n \in Entry : Range(name[n].base) \cup Range(name[n].ext) \subseteq Letter
  <2> SUFFICES ASSUME NEW n \in Entry
               PROVE Range(name[n].base) \subseteq Letter /\ Range(name[n].ext) \subseteq Letter
    OBVIOUS
  <2>1. name[n] \in ShortName \cup {NoName}
    BY DEF SInv, TreeInv, TreeTypes
  <2>2. name[n].base \in Seq(Letter) /\ name[n].ext \in Seq(Letter)
    <3>1. ShortName \subseteq [base : Seq(Letter), ext : Seq(Letter)]
      BY DEF ShortName
    <3>2. NoName \in [base : Seq(Letter), ext : Seq(Letter)]
      BY DEF NoName
    <3>3. QED
      BY <2>1, <3>1, <3>2
  <2>3. QED
    BY <2>2, RangeOf
<1>4. \A d \in Dir : Range(slots[d]) \subseteq Node \cup {Free, Deleted, Dot1, Other}
  <2> SUFFICES ASSUME NEW d \in Dir PROVE Range(slots[d]) \subseteq SlotValue
    BY DEF SlotValue
  <2>1. slots[d] \in Seq(SlotValue)
    BY DEF SInv, TreeInv, TreeTypes
  <2>2. QED
    BY <2>1, RangeOf
<1>5. \A s \in DOMAIN sub : sub[s].node \in Node \cup {RootDir, NoNode} /\ sub[s].size \in Nat
  BY HandlesAre DEF HandlesOfType, HandleType, Dir
<1>6. mounted => root.size = Len(slots[RootDir])
  BY DEF SInv, RootInv
<1>7. lister.node \in Dir => lister.size <= Len(slots[lister.node])
  BY MarksDiffer DEF SInv, ListInv, Dir
<1>8. pc \in Steps /\ done \in BOOLEAN /\ reply \in BOOLEAN
  BY DEF SInv, CallInv
<1>9. written \subseteq {n \in Node : kind[n] = "file"}
  BY DEF SInv, TreeInv, TreeTypes, WrittenInv
<1>10. QED
  BY <1>1, <1>2, <1>3, <1>4, <1>5, <1>6, <1>7, <1>8, <1>9 DEF TypeOK, Steps, Entry

\* The types, and that a handle's size never exceeds its directory (openRoot,
\* open, addDirCluster).
THEOREM Types == Spec => []TypeOK
BY CallInvariant, TypesHold, PTL

\* The turns of walkPath's handles follow from it.
LEMMA TurnsTaken == SInv => HandlesTakeTurns
<1> SUFFICES ASSUME SInv, pc \in Walks \cup {"descend"}, ~trouble
             PROVE  /\ sub[call.child] = Closed
                    /\ (call.parent = "root") = (sub[Twin(call.child)] = Closed)
  BY DEF HandlesTakeTurns
<1>1. /\ sub[call.child] = Closed
      /\ call.parent = "root" => sub["sub2"] = Closed
      /\ \/ call.parent = "root" /\ call.child = "sub1"
         \/ call.parent = Twin(call.child) /\ sub[call.parent].node \in Node
      /\ call.child \in {"sub1", "sub2"}
  BY DEF SInv, HandleInv, Walking
<1>2. CASE call.parent = "root" /\ call.child = "sub1"
  BY <1>1, <1>2, TwinIs
<1>3. CASE call.parent = Twin(call.child) /\ sub[call.parent].node \in Node
  <2>1. call.parent # "root"
    BY <1>1, <1>3, TwinIs
  <2>2. sub[Twin(call.child)] # Closed
    BY <1>3, MarksDiffer DEF Closed
  <2>3. QED
    BY <1>1, <2>1, <2>2
<1>4. QED
  BY <1>1, <1>2, <1>3

\* walkPath's two handles take turns (SPISD.cpp:113-131).
THEOREM TakeTurns == Spec => []HandlesTakeTurns
BY CallInvariant, TurnsTaken, PTL

\* That a listing shows everything once follows from it.
LEMMA ListingHolds == SInv => ListingIsComplete
BY DEF SInv, ListInv, ListingIsComplete

\* A listing is complete and shows nothing twice, whatever is made or removed
\* between the calls of openNextFile (SPISD.cpp:344-381).
THEOREM ListsAll == Spec => []ListingIsComplete
BY CallInvariant, ListingHolds, PTL

\* What make83Name makes of a component follows from the lemmas about names.
LEMMA NamesHold == SInv => NamesSurvive
<1> SUFFICES ASSUME SInv, pc \in Walks
             PROVE  /\ (This # NoName) = Is83(call.text)
                    /\ This # NoName => /\ dirName(This) = Normal(call.text)
                                        /\ make83Name(dirName(This)) = This
  BY DEF NamesSurvive
<1> DEFINE S == Char \cup TextChar
           text == call.text
<1>1. text \in Seq(S)
  BY DEF SInv, CallInv, Text
<1> HIDE DEF S, text
<1>2. This = make83Name(text)
  BY DEF This, text
<1>3. (make83Name(text) # NoName) = Is83(text)
  BY <1>1, MadeIfInForm
<1>4. make83Name(text) # NoName => dirName(make83Name(text)) = Normal(text)
  BY <1>1, PrintedIsNormal
<1>5. make83Name(text) \in ShortName \cup {NoName}
  BY <1>1, MadeIsShort
<1>6. This # NoName => make83Name(dirName(This)) = This
  BY <1>2, <1>5, PrintedIsFound
<1>7. QED
  BY <1>2, <1>3, <1>4, <1>6 DEF text

\* make83Name takes just the names in 8.3 form, and what dirName prints of one
\* is found under it again (SpiSdFile.cpp:196-247).
THEOREM NamesComeBack == Spec => []NamesSurvive
BY CallInvariant, NamesHold, PTL

\* What begin() found stays true through every call made on the volume.
THEOREM StaysMounted == Spec => [](BeginMatchesCard /\ GeometryIsSound)
<1>1. SInv => BeginMatchesCard /\ GeometryIsSound
  BY InvIsSound DEF SInv, IInv, Mounted, BeginMatchesCard
<1>2. QED
  BY CallInvariant, <1>1, PTL

-----------------------------------------------------------------------------
(* The pieces of a path, one after the other. *)

\* A set of numbers up to n that is not empty has a greatest one.
LEMMA GreatestOf ==
  ASSUME NEW n \in Nat, NEW S \in SUBSET (1 .. n), S # {}
  PROVE  \E x \in S : \A y \in S : y <= x
<1> DEFINE T == {t \in 0 .. n : n - t \in S}
<1>1. T \in SUBSET Nat
  OBVIOUS
<1>2. ASSUME NEW y \in S PROVE n - y \in T /\ y \in 1 .. n
  <2>1. y \in 1 .. n
    OBVIOUS
  <2>2. n - y \in 0 .. n /\ n - (n - y) = y
    BY <2>1
  <2>3. QED
    BY <2>1, <2>2
<1>3. T # {}
  BY <1>2
<1>4. \A t \in T : t \in 0 .. n /\ n - t \in S
  OBVIOUS
<1> HIDE DEF T
<1>5. PICK t \in T : \A u \in T : t <= u
  BY <1>1, <1>3, LeastOf
<1>6. n - t \in S /\ t \in 0 .. n
  BY <1>4
<1>7. ASSUME NEW y \in S PROVE y <= n - t
  <2>1. n - y \in T /\ y \in 1 .. n
    BY <1>2
  <2>2. t <= n - y
    BY <1>5, <2>1
  <2>3. QED
    BY <1>6, <2>1, <2>2
<1>8. QED
  BY <1>6, <1>7

\* The pieces from place i on, when a piece leads to a later place or is the
\* last one.
Piece(text, next, more, last, g, i) ==
  IF more[i] THEN <<text[i]>> \o g[next[i]] ELSE <<last[i]>>

GatheredFrom(m, L, text, next, more, last, g) ==
  \A i \in m .. L : g[i] = Piece(text, next, more, last, g, i)

\* There are such pieces, for every way of cutting that goes forward.
LEMMA PiecesExist ==
  ASSUME NEW L \in Nat, NEW S, NEW text \in [1 .. L -> S], NEW last \in [1 .. L -> S], NEW more,
         NEW next, \A i \in 1 .. L : more[i] => next[i] \in i + 1 .. L
  PROVE  \E g \in [1 .. L -> Seq(S)] : GatheredFrom(1, L, text, next, more, last, g)
<1> DEFINE Can(m) == \E g \in [1 .. L -> Seq(S)] : GatheredFrom(m, L, text, next, more, last, g)
           Good == {m \in 1 .. L + 1 : Can(m)}
<1>1. Can(L + 1)
  <2>1. [i \in 1 .. L |-> << >>] \in [1 .. L -> Seq(S)]
    OBVIOUS
  <2>2. ~\E i : i \in (L + 1) .. L
    OBVIOUS
  <2>3. QED
    BY <2>1, <2>2 DEF GatheredFrom
<1>2. ASSUME NEW m \in 2 .. L + 1, Can(m) PROVE Can(m - 1)
  <2> DEFINE k == m - 1
  <2>1. k \in 1 .. L /\ \A i \in k .. L : i = k \/ i \in m .. L
    OBVIOUS
  <2>2. PICK g \in [1 .. L -> Seq(S)] : GatheredFrom(m, L, text, next, more, last, g)
    BY <1>2
  <2> DEFINE p == Piece(text, next, more, last, g, k)
             h == [i \in 1 .. L |-> IF i = k THEN p ELSE g[i]]
  <2> HIDE DEF k
  <2>3. p \in Seq(S)
    <3>1. text[k] \in S /\ last[k] \in S
      BY <2>1
    <3>2. more[k] => g[next[k]] \in Seq(S)
      BY <2>1
    <3>3. QED
      BY <3>1, <3>2 DEF Piece
  <2> HIDE DEF p
  <2>4. h \in [1 .. L -> Seq(S)]
    BY <2>3
  <2>8. \A i \in 1 .. L : h[i] = IF i = k THEN p ELSE g[i]
    OBVIOUS
  <2> HIDE DEF h
  <2>5. ASSUME NEW i \in k .. L PROVE h[i] = Piece(text, next, more, last, h, i)
    <3>1. i \in 1 .. L /\ (more[i] => next[i] \in 1 .. L /\ next[i] # k)
      BY <2>1
    <3>2. more[i] => h[next[i]] = g[next[i]]
      BY <2>8, <3>1
    <3>3. Piece(text, next, more, last, h, i) = Piece(text, next, more, last, g, i)
      BY <3>2 DEF Piece
    <3>4. CASE i = k
      BY <2>8, <3>1, <3>3, <3>4 DEF p
    <3>5. CASE i # k
      <4>1. i \in m .. L /\ h[i] = g[i]
        BY <2>1, <2>8, <3>1, <3>5
      <4>2. QED
        BY <2>2, <3>3, <4>1 DEF GatheredFrom
    <3>6. QED
      BY <3>4, <3>5
  <2>6. GatheredFrom(k, L, text, next, more, last, h)
    BY <2>5 DEF GatheredFrom
  <2>7. QED
    BY <2>4, <2>6 DEF k
<1> HIDE DEF Can
<1>3. Good \in SUBSET Nat /\ L + 1 \in Good
  BY <1>1
<1>4. \A m : m \in Good <=> m \in 1 .. L + 1 /\ Can(m)
  OBVIOUS
<1> HIDE DEF Good
<1>5. PICK m \in Good : \A y \in Good : m <= y
  BY <1>3, LeastOf
<1>6. m = 1
  <2>1. SUFFICES ASSUME m # 1 PROVE FALSE
    OBVIOUS
  <2>2. m \in 2 .. L + 1 /\ Can(m)
    BY <1>4, <2>1
  <2>3. m - 1 \in 1 .. L + 1 /\ Can(m - 1)
    BY <1>2, <2>2
  <2>4. m <= m - 1
    BY <1>4, <1>5, <2>3
  <2>5. QED
    BY <2>2, <2>4
<1>7. QED
  BY <1>4, <1>6 DEF Can

\* Whatever such pieces are, they are sequences of at least one.
LEMMA PiecesTyped ==
  ASSUME NEW L \in Nat, NEW S, NEW text \in [1 .. L -> S], NEW last \in [1 .. L -> S], NEW more,
         NEW next, \A i \in 1 .. L : more[i] => next[i] \in i + 1 .. L,
         NEW g, GatheredFrom(1, L, text, next, more, last, g)
  PROVE  \A i \in 1 .. L : g[i] \in Seq(S) /\ g[i] # << >>
<1> DEFINE Fine(i) == g[i] \in Seq(S) /\ g[i] # << >>
           Bad == {i \in 1 .. L : ~Fine(i)}
<1>1. ASSUME NEW i \in 1 .. L, \A j \in i + 1 .. L : Fine(j) PROVE Fine(i)
  <2>1. g[i] = Piece(text, next, more, last, g, i)
    BY DEF GatheredFrom
  <2>2. text[i] \in S /\ last[i] \in S
    OBVIOUS
  <2>3. CASE more[i]
    <3>1. Fine(next[i])
      BY <1>1, <2>3
    <3>2. g[next[i]] \in Seq(S)
      BY <3>1
    <3>3. g[i] = <<text[i]>> \o g[next[i]]
      BY <2>1, <2>3 DEF Piece
    <3> HIDE DEF Fine
    <3>4. g[i] \in Seq(S) /\ Len(g[i]) = 1 + Len(g[next[i]]) /\ Len(g[next[i]]) \in Nat
      BY <2>2, <3>2, <3>3
    <3>5. QED
      BY <3>4, EmptySeq DEF Fine
  <2>4. CASE ~more[i]
    <3>1. g[i] = <<last[i]>>
      BY <2>1, <2>4 DEF Piece
    <3>2. QED
      BY <2>2, <3>1
  <2>5. QED
    BY <2>3, <2>4
<1> HIDE DEF Fine
<1>2. SUFFICES ASSUME Bad # {} PROVE FALSE
  BY DEF Fine
<1>3. PICK i \in Bad : \A j \in Bad : j <= i
  <2>1. Bad \in SUBSET (1 .. L)
    OBVIOUS
  <2> HIDE DEF Bad
  <2>2. QED
    BY <1>2, <2>1, GreatestOf
<1>4. \A j \in i + 1 .. L : Fine(j)
  <2> SUFFICES ASSUME NEW j \in i + 1 .. L, ~Fine(j) PROVE FALSE
    OBVIOUS
  <2>1. i \in 1 .. L /\ j \in Bad
    BY <1>3
  <2>2. j <= i
    BY <1>3, <2>1
  <2>3. QED
    BY <2>1, <2>2
<1>5. QED
  BY <1>1, <1>3, <1>4

\* Where a component that begins at first is cut.
Past(path, first) == Min({NextSlash(path, first), first + MaxComponent})

\* It is cut at the next slash, or before it when it is too long for a name.
LEMMA PastIs ==
  ASSUME NEW path \in Text, NEW first \in 1 .. Len(path) + 1
  PROVE  /\ Len(path) \in Nat
         /\ NextSlash(path, first) \in first .. Len(path) + 1
         /\ \A j \in first .. NextSlash(path, first) - 1 : path[j] # Slash
         /\ NextSlash(path, first) <= Len(path) => path[NextSlash(path, first)] = Slash
         /\ Past(path, first) \in first .. NextSlash(path, first)
         /\ first <= Len(path) /\ path[first] # Slash => Past(path, first) > first
         /\ NextSlash(path, first) - first <= MaxComponent => Past(path, first) = NextSlash(path, first)
<1> DEFINE slash == NextSlash(path, first)
           past == Past(path, first)
<1>1. Len(path) \in Nat
  BY DEF Text
<1>2. MaxComponent \in Nat /\ MaxComponent > 0
  BY NamesAssumption DEF MaxComponent
<1>3. /\ slash \in first .. Len(path) + 1
      /\ \A j \in first .. slash - 1 : path[j] # Slash
      /\ slash <= Len(path) => path[slash] = Slash
  BY NextPlaceIs DEF NextSlash, Text
<1>4. past \in {slash, first + MaxComponent} /\ past <= slash /\ past <= first + MaxComponent
  <2> HIDE DEF slash
  <2>1. {slash, first + MaxComponent} \in SUBSET Nat /\ {slash, first + MaxComponent} # {}
    BY <1>1, <1>2, <1>3
  <2>2. past = Min({slash, first + MaxComponent})
    BY DEF Past, slash
  <2> HIDE DEF past
  <2>3. QED
    BY <2>1, <2>2, MinIs
<1> HIDE DEF slash, past
<1>5. first <= Len(path) /\ path[first] # Slash => slash > first
  BY <1>1, <1>3
<1>6. QED
  BY <1>1, <1>2, <1>3, <1>4, <1>5 DEF slash, past

\* Where the search for the next component begins.
First(path, i) == IF SlashAt(path, i) THEN i + 1 ELSE i

\* getNextPathComponent cuts it there, and takes a slash behind it.
LEMMA ComponentAt ==
  ASSUME NEW path, NEW i
  PROVE  LET past == Past(path, First(path, i))
             next == First(path, past)
         IN /\ NextComponent(path, i).text = SubSeq(path, First(path, i), past - 1)
            /\ NextComponent(path, i).next = next
            /\ NextComponent(path, i).more = (next <= Len(path))
BY DEF NextComponent, Past, First

\* The component after it begins later.
LEMMA ComponentGoesOn ==
  ASSUME NEW path \in Text, NEW i \in 1 .. Len(path) + 1, NextComponent(path, i).more
  PROVE  NextComponent(path, i).next \in i + 1 .. Len(path)
<1> DEFINE first == First(path, i)
           past == Past(path, first)
           next == First(path, past)
<1>1. Len(path) \in Nat
  BY DEF Text
<1>2. first \in 1 .. Len(path) + 1 /\ first \in {i, i + 1} /\ (first = i => ~SlashAt(path, i))
  BY <1>1 DEF First, SlashAt
<1>3. NextComponent(path, i).next = next /\ next <= Len(path)
  <2>1. NextComponent(path, i).next = next /\ NextComponent(path, i).more = (next <= Len(path))
    BY ComponentAt
  <2> HIDE DEF next, past, first
  <2>2. QED
    BY <2>1, Zenon
<1>4. past \in first .. Len(path) + 1 /\ (first <= Len(path) /\ path[first] # Slash => past > first)
  <2> HIDE DEF first
  <2>1. QED
    BY <1>1, <1>2, PastIs
<1>5. next \in {past, past + 1}
  BY DEF First
<1> HIDE DEF next, past, first
<1>6. first = i => path[first] # Slash \/ first > Len(path)
  BY <1>1, <1>2 DEF SlashAt
<1>7. QED
  BY <1>1, <1>2, <1>3, <1>4, <1>5, <1>6

\* The components from each place on.
WalkFrom(path) ==
  LET from[i \in 1 .. Len(path) + 1] ==
        LET c == NextComponent(path, i)
        IN IF c.more THEN <<c.text>> \o from[c.next] ELSE <<c.text>>
  IN from

\* walkPath comes to the component at a place, and then to those behind it.
LEMMA WalkIs ==
  ASSUME NEW path \in Text
  PROVE  /\ WalkParts(path) = WalkFrom(path)[1]
         /\ \A i \in 1 .. Len(path) + 1 :
              /\ WalkFrom(path)[i] \in Seq(Text) /\ WalkFrom(path)[i] # << >>
              /\ WalkFrom(path)[i] =
                   IF NextComponent(path, i).more
                     THEN <<NextComponent(path, i).text>> \o WalkFrom(path)[NextComponent(path, i).next]
                     ELSE <<NextComponent(path, i).text>>
<1> DEFINE L == Len(path) + 1
           text == [i \in 1 .. L |-> NextComponent(path, i).text]
           more == [i \in 1 .. L |-> NextComponent(path, i).more]
           next == [i \in 1 .. L |-> NextComponent(path, i).next]
           W == WalkFrom(path)
<1>1. L \in Nat
  BY DEF Text
<1>2. text \in [1 .. L -> Text]
  BY ComponentIsText
<1>3. \A i \in 1 .. L : more[i] => next[i] \in i + 1 .. L
  <2> SUFFICES ASSUME NEW i \in 1 .. L, NextComponent(path, i).more
               PROVE  NextComponent(path, i).next \in i + 1 .. L
    OBVIOUS
  <2>1. NextComponent(path, i).next \in i + 1 .. Len(path) /\ Len(path) \in Nat
    BY ComponentGoesOn DEF Text
  <2>2. QED
    BY <2>1
<1>4. PICK g \in [1 .. L -> Seq(Text)] : GatheredFrom(1, L, text, next, more, text, g)
  <2> HIDE DEF L, text, more, next
  <2>1. QED
    BY <1>1, <1>2, <1>3, PiecesExist
<1>5. \A i \in 1 .. L : Piece(text, next, more, text, g, i) =
        LET c == NextComponent(path, i) IN IF c.more THEN <<c.text>> \o g[c.next] ELSE <<c.text>>
  BY DEF Piece
<1>6. g = [i \in 1 .. Len(path) + 1 |->
             LET c == NextComponent(path, i) IN IF c.more THEN <<c.text>> \o g[c.next] ELSE <<c.text>>]
  <2>1. \A i \in 1 .. L : g[i] =
          LET c == NextComponent(path, i) IN IF c.more THEN <<c.text>> \o g[c.next] ELSE <<c.text>>
    <3> HIDE DEF text, more, next
    <3>1. QED
      BY <1>4, <1>5 DEF GatheredFrom
  <2>2. g = [i \in 1 .. L |-> g[i]]
    BY <1>4
  <2>3. QED
    BY <2>1, <2>2, Zenon
<1>7. W = [i \in 1 .. Len(path) + 1 |->
             LET c == NextComponent(path, i) IN IF c.more THEN <<c.text>> \o W[c.next] ELSE <<c.text>>]
  BY <1>6 DEF WalkFrom
<1>8. WalkParts(path) = W[1]
  BY DEF WalkParts, WalkFrom
<1> HIDE DEF W
<1>9. \A i \in 1 .. L : W[i] =
        LET c == NextComponent(path, i) IN IF c.more THEN <<c.text>> \o W[c.next] ELSE <<c.text>>
  BY <1>7
<1>10. GatheredFrom(1, L, text, next, more, text, W)
  BY <1>9 DEF GatheredFrom, Piece
<1>11. \A i \in 1 .. L : W[i] \in Seq(Text) /\ W[i] # << >>
  <2> HIDE DEF L, text, more, next
  <2>1. QED
    BY <1>1, <1>2, <1>3, <1>10, PiecesTyped
<1>12. QED
  BY <1>8, <1>9, <1>11 DEF W

\* getParentDir skips the slashes it stands on.
LEMMA SkipIs ==
  ASSUME NEW path \in Text, NEW i \in 1 .. Len(path) + 1
  PROVE  /\ Len(path) \in Nat
         /\ SkipSlashes(path, i) \in i .. Len(path) + 1
         /\ \A j \in i .. SkipSlashes(path, i) - 1 : path[j] = Slash
         /\ SkipSlashes(path, i) <= Len(path) => path[SkipSlashes(path, i)] # Slash
<1> DEFINE T == {j \in i .. Len(path) : path[j] # Slash} \cup {Len(path) + 1}
           p == SkipSlashes(path, i)
<1>1. Len(path) \in Nat
  BY DEF Text
<1>2. T \in SUBSET Nat /\ T # {} /\ Len(path) + 1 \in T
  BY <1>1
<1>3. p \in T /\ \A y \in T : p <= y
  BY <1>2, MinIs DEF SkipSlashes
<1>4. QED
  BY <1>1, <1>3

\* What it finds behind them.
LEMMA DirectoryAt ==
  ASSUME NEW path, NEW i
  PROVE  LET first == SkipSlashes(path, i)
         IN /\ NextDirectory(path, i).text = SubSeq(path, first, Past(path, first) - 1)
            /\ NextDirectory(path, i).next = Past(path, first)
            /\ NextDirectory(path, i).more = (NextSlash(path, first) <= Len(path))
            /\ NextDirectory(path, i).rest = SubSeq(path, first, Len(path))
BY DEF NextDirectory, Past

\* The directory after it begins later, and inside the path.
LEMMA DirectoryGoesOn ==
  ASSUME NEW path \in Text, NEW i \in 1 .. Len(path) + 1, NextDirectory(path, i).more
  PROVE  NextDirectory(path, i).next \in i + 1 .. Len(path)
<1> DEFINE first == SkipSlashes(path, i)
<1>1. Len(path) \in Nat /\ first \in i .. Len(path) + 1 /\ (first <= Len(path) => path[first] # Slash)
  BY SkipIs
<1>2. NextDirectory(path, i).next = Past(path, first) /\ NextSlash(path, first) <= Len(path)
  <2>1. NextDirectory(path, i).next = Past(path, first)
        /\ NextDirectory(path, i).more = (NextSlash(path, first) <= Len(path))
    BY DirectoryAt
  <2> HIDE DEF first
  <2>2. QED
    BY <2>1, Zenon
<1> HIDE DEF first
<1>3. /\ NextSlash(path, first) \in first .. Len(path) + 1
      /\ Past(path, first) \in first .. NextSlash(path, first)
      /\ first <= Len(path) /\ path[first] # Slash => Past(path, first) > first
  <2>1. first \in 1 .. Len(path) + 1
    BY <1>1
  <2>2. QED
    BY <2>1, PastIs
<1>4. QED
  BY <1>1, <1>2, <1>3

\* What is left behind the last slash is empty when the path ends with it.
LEMMA NothingIsLeft ==
  ASSUME NEW path \in Text, NEW i \in 1 .. Len(path), ~NextDirectory(path, i).more
  PROVE  NextDirectory(path, i).rest = << >> <=> Last(path) = Slash
<1> DEFINE first == SkipSlashes(path, i)
<1>1. /\ Len(path) \in Nat /\ first \in i .. Len(path) + 1
      /\ \A j \in i .. first - 1 : path[j] = Slash
      /\ first <= Len(path) => path[first] # Slash
  <2>1. i \in 1 .. Len(path) + 1
    BY DEF Text
  <2>2. QED
    BY <2>1, SkipIs
<1>2. NextDirectory(path, i).rest = SubSeq(path, first, Len(path)) /\ ~(NextSlash(path, first) <= Len(path))
  <2>1. NextDirectory(path, i).rest = SubSeq(path, first, Len(path))
        /\ NextDirectory(path, i).more = (NextSlash(path, first) <= Len(path))
    BY DirectoryAt
  <2> HIDE DEF first
  <2>2. QED
    BY <2>1, Zenon
<1> HIDE DEF first
<1>3. Last(path) = path[Len(path)]
  BY DEF Last
<1>4. first \in 1 .. Len(path) + 1
  BY <1>1
<1>5. SubSeq(path, first, Len(path)) \in Seq(Char \cup TextChar)
      /\ Len(SubSeq(path, first, Len(path))) = Len(path) + 1 - first
  BY <1>4, FromPlace DEF Text
<1>6. CASE first = Len(path) + 1
  <2>1. path[Len(path)] = Slash
    BY <1>1, <1>6
  <2>2. Len(SubSeq(path, first, Len(path))) = 0
    BY <1>1, <1>5, <1>6
  <2>3. QED
    BY <1>2, <1>3, <1>5, <2>1, <2>2, EmptySeq
<1>7. CASE first <= Len(path)
  <2>1. Len(SubSeq(path, first, Len(path))) # 0
    BY <1>1, <1>5, <1>7
  <2>2. /\ NextSlash(path, first) \in first .. Len(path) + 1
        /\ \A j \in first .. NextSlash(path, first) - 1 : path[j] # Slash
    BY <1>4, PastIs
  <2>3. path[Len(path)] # Slash
    BY <1>1, <1>2, <1>7, <2>2
  <2>4. SubSeq(path, first, Len(path)) # << >>
    BY <1>5, <2>1, EmptySeq
  <2>5. QED
    BY <1>2, <1>3, <2>3, <2>4
<1>8. QED
  BY <1>1, <1>6, <1>7

\* The components SpiSDClass::open comes to from each place on.
OpenFrom(path) ==
  LET from[i \in 1 .. Len(path) + 1] ==
        LET d == NextDirectory(path, i)
        IN IF d.more THEN <<d.text>> \o from[d.next] ELSE <<d.rest>>
  IN from

\* getParentDir comes to the directory at a place, and then to those behind it.
LEMMA OpenIs ==
  ASSUME NEW path \in Text
  PROVE  /\ OpenParts(path) = OpenFrom(path)[1]
         /\ \A i \in 1 .. Len(path) + 1 :
              /\ OpenFrom(path)[i] \in Seq(Text) /\ OpenFrom(path)[i] # << >>
              /\ OpenFrom(path)[i] =
                   IF NextDirectory(path, i).more
                     THEN <<NextDirectory(path, i).text>> \o OpenFrom(path)[NextDirectory(path, i).next]
                     ELSE <<NextDirectory(path, i).rest>>
<1> DEFINE L == Len(path) + 1
           text == [i \in 1 .. L |-> NextDirectory(path, i).text]
           more == [i \in 1 .. L |-> NextDirectory(path, i).more]
           next == [i \in 1 .. L |-> NextDirectory(path, i).next]
           rest == [i \in 1 .. L |-> NextDirectory(path, i).rest]
           W == OpenFrom(path)
<1>1. L \in Nat
  BY DEF Text
<1>2. text \in [1 .. L -> Text] /\ rest \in [1 .. L -> Text]
  BY DirectoryIsText
<1>3. \A i \in 1 .. L : more[i] => next[i] \in i + 1 .. L
  <2> SUFFICES ASSUME NEW i \in 1 .. L, NextDirectory(path, i).more
               PROVE  NextDirectory(path, i).next \in i + 1 .. L
    OBVIOUS
  <2>1. NextDirectory(path, i).next \in i + 1 .. Len(path) /\ Len(path) \in Nat
    BY DirectoryGoesOn DEF Text
  <2>2. QED
    BY <2>1
<1>4. PICK g \in [1 .. L -> Seq(Text)] : GatheredFrom(1, L, text, next, more, rest, g)
  <2> HIDE DEF L, text, more, next, rest
  <2>1. QED
    BY <1>1, <1>2, <1>3, PiecesExist
<1>5. \A i \in 1 .. L : Piece(text, next, more, rest, g, i) =
        LET d == NextDirectory(path, i) IN IF d.more THEN <<d.text>> \o g[d.next] ELSE <<d.rest>>
  BY DEF Piece
<1>6. g = [i \in 1 .. Len(path) + 1 |->
             LET d == NextDirectory(path, i) IN IF d.more THEN <<d.text>> \o g[d.next] ELSE <<d.rest>>]
  <2>1. \A i \in 1 .. L : g[i] =
          LET d == NextDirectory(path, i) IN IF d.more THEN <<d.text>> \o g[d.next] ELSE <<d.rest>>
    <3> HIDE DEF text, more, next, rest
    <3>1. QED
      BY <1>4, <1>5 DEF GatheredFrom
  <2>2. g = [i \in 1 .. L |-> g[i]]
    BY <1>4
  <2>3. QED
    BY <2>1, <2>2, Zenon
<1>7. W = [i \in 1 .. Len(path) + 1 |->
             LET d == NextDirectory(path, i) IN IF d.more THEN <<d.text>> \o W[d.next] ELSE <<d.rest>>]
  BY <1>6 DEF OpenFrom
<1>8. OpenParts(path) = W[1]
  BY DEF OpenParts, OpenFrom
<1> HIDE DEF W
<1>9. \A i \in 1 .. L : W[i] =
        LET d == NextDirectory(path, i) IN IF d.more THEN <<d.text>> \o W[d.next] ELSE <<d.rest>>
  BY <1>7
<1>10. GatheredFrom(1, L, text, next, more, rest, W)
  BY <1>9 DEF GatheredFrom, Piece
<1>11. \A i \in 1 .. L : W[i] \in Seq(Text) /\ W[i] # << >>
  <2> HIDE DEF L, text, more, next, rest
  <2>1. QED
    BY <1>1, <1>2, <1>3, <1>10, PiecesTyped
<1>12. QED
  BY <1>8, <1>9, <1>11 DEF W

\* How many numbers of F come no later than i.
Rank(F, i) == Cardinality({g \in F : g <= i})

\* The number of F that comes in place r.
AtRank(F, r) == CHOOSE f \in F : Rank(F, f) = r

\* Ranks count the numbers of a finite set from one on, in their order.
LEMMA RankIs ==
  ASSUME NEW n \in Nat, NEW F \in SUBSET (1 .. n)
  PROVE  /\ Cardinality(F) \in Nat
         /\ \A i \in F : Rank(F, i) \in 1 .. Cardinality(F) /\ AtRank(F, Rank(F, i)) = i
         /\ \A i, j \in F : i < j => Rank(F, i) < Rank(F, j)
         /\ \A i \in F : (\A g \in F : g <= i) => Rank(F, i) = Cardinality(F)
         /\ \A i \in F : (\A g \in F : i <= g) => Rank(F, i) = 1
         /\ \A i, j \in F : i < j /\ (\A g \in F : g <= i \/ j <= g) => Rank(F, j) = Rank(F, i) + 1
<1> DEFINE Low(i) == {g \in F : g <= i}
<1>m. \A i, g : g \in Low(i) <=> g \in F /\ g <= i
  OBVIOUS
<1>n. \A g \in F : g \in Nat
  OBVIOUS
<1>1. IsFiniteSet(F) /\ Cardinality(F) \in Nat
  <2>1. IsFiniteSet(1 .. n)
    BY FS_Interval
  <2>2. QED
    BY <2>1, FS_Subset, FS_CardinalityType
<1>2. \A i : IsFiniteSet(Low(i)) /\ Low(i) \subseteq F /\ Cardinality(Low(i)) \in Nat
             /\ Cardinality(Low(i)) <= Cardinality(F)
  <2> SUFFICES ASSUME NEW i
               PROVE  IsFiniteSet(Low(i)) /\ Low(i) \subseteq F /\ Cardinality(Low(i)) \in Nat
                      /\ Cardinality(Low(i)) <= Cardinality(F)
    OBVIOUS
  <2>1. Low(i) \subseteq F
    OBVIOUS
  <2> HIDE DEF Low
  <2>2. QED
    BY <1>1, <2>1, FS_Subset, FS_CardinalityType
<1>3. \A i : Rank(F, i) = Cardinality(Low(i))
  BY DEF Rank
<1>4. \A i, j \in F : i < j => Rank(F, i) < Rank(F, j)
  <2> SUFFICES ASSUME NEW i \in F, NEW j \in F, i < j PROVE Rank(F, i) < Rank(F, j)
    OBVIOUS
  <2> HIDE DEF Low
  <2>1. i \in Nat /\ j \in Nat /\ i <= j /\ j <= j /\ ~(j <= i)
    BY <1>n
  <2>2. Low(i) \subseteq Low(j) /\ j \in Low(j) /\ j \notin Low(i)
    <3>1. ASSUME NEW g \in Low(i) PROVE g \in Low(j)
      <4>1. g \in F /\ g <= i /\ g \in Nat
        BY <1>m, <1>n
      <4>2. g <= j
        BY <2>1, <4>1
      <4>3. QED
        BY <1>m, <4>1, <4>2
    <3>2. QED
      BY <1>m, <2>1, <3>1
  <2>3. IsFiniteSet(Low(j)) /\ Low(i) # Low(j)
    BY <1>2, <2>2
  <2>4. Cardinality(Low(i)) < Cardinality(Low(j))
    BY <1>2, <2>2, <2>3, FS_Subset
  <2>5. QED
    BY <1>3, <2>4
<1>5. \A i \in F : Rank(F, i) \in 1 .. Cardinality(F)
  <2> SUFFICES ASSUME NEW i \in F PROVE Rank(F, i) \in 1 .. Cardinality(F)
    OBVIOUS
  <2>1. i \in Low(i)
    OBVIOUS
  <2> HIDE DEF Low
  <2>2. Cardinality(Low(i)) # 0
    BY <1>2, <2>1, FS_EmptySet
  <2>3. QED
    BY <1>1, <1>2, <1>3, <2>2
<1>6. \A i \in F : AtRank(F, Rank(F, i)) = i
  <2> SUFFICES ASSUME NEW i \in F PROVE AtRank(F, Rank(F, i)) = i
    OBVIOUS
  <2>1. AtRank(F, Rank(F, i)) \in F /\ Rank(F, AtRank(F, Rank(F, i))) = Rank(F, i)
    BY DEF AtRank
  <2>2. AtRank(F, Rank(F, i)) \in Nat /\ i \in Nat
    BY <1>n, <2>1
  <2>3. Rank(F, i) \in Nat
    BY <1>1, <1>5
  <2> DEFINE a == AtRank(F, Rank(F, i))
  <2> HIDE DEF a
  <2>4. ~(a < i) /\ ~(i < a)
    <3>1. a \in F /\ Rank(F, a) = Rank(F, i)
      BY <2>1 DEF a
    <3>2. ~(Rank(F, i) < Rank(F, i))
      BY <2>3
    <3>3. QED
      BY <1>4, <3>1, <3>2
  <2>5. QED
    BY <2>2, <2>4 DEF a
<1>7. \A i \in F : (\A g \in F : g <= i) => Rank(F, i) = Cardinality(F)
  <2> SUFFICES ASSUME NEW i \in F, \A g \in F : g <= i PROVE Rank(F, i) = Cardinality(F)
    OBVIOUS
  <2>1. Low(i) = F
    OBVIOUS
  <2>2. QED
    BY <1>3, <2>1
<1>8. \A i \in F : (\A g \in F : i <= g) => Rank(F, i) = 1
  <2> SUFFICES ASSUME NEW i \in F, \A g \in F : i <= g PROVE Rank(F, i) = 1
    OBVIOUS
  <2>1. \A g : g \in Low(i) <=> g = i
    <3>1. ASSUME NEW g \in F, g <= i PROVE g = i
      <4>1. g \in Nat /\ i \in Nat /\ i <= g
        BY <1>n
      <4>2. QED
        BY <3>1, <4>1
    <3>2. i <= i
      BY <1>n
    <3> HIDE DEF Low
    <3>3. QED
      BY <1>m, <3>1, <3>2
  <2>2. Low(i) = {i}
    <3> HIDE DEF Low
    <3>1. QED
      BY <2>1
  <2>3. QED
    BY <1>3, <2>2, FS_Singleton
<1>9. \A i, j \in F : i < j /\ (\A g \in F : g <= i \/ j <= g) => Rank(F, j) = Rank(F, i) + 1
  <2> SUFFICES ASSUME NEW i \in F, NEW j \in F, i < j, \A g \in F : g <= i \/ j <= g
               PROVE  Rank(F, j) = Rank(F, i) + 1
    OBVIOUS
  <2> HIDE DEF Low
  <2>1. i \in Nat /\ j \in Nat /\ ~(j <= i) /\ j <= j
    BY <1>n
  <2>2. Low(j) = Low(i) \cup {j} /\ j \notin Low(i)
    <3>1. ASSUME NEW g \in F PROVE g <= j <=> g <= i \/ g = j
      <4>1. g \in Nat /\ (g <= i \/ j <= g)
        BY <1>n
      <4>2. QED
        BY <2>1, <4>1
    <3>2. \A g : g \in Low(j) <=> g \in Low(i) \cup {j}
      BY <1>m, <3>1
    <3>3. QED
      BY <1>m, <2>1, <3>2
  <2>3. Cardinality(Low(i) \cup {j}) = Cardinality(Low(i)) + 1
    BY <1>2, <2>2, FS_AddElement
  <2>4. QED
    BY <1>3, <2>2, <2>3
<1>10. QED
  BY <1>1, <1>4, <1>5, <1>6, <1>7, <1>8, <1>9

\* The piece of a path that begins at i.
PartAt(path, i) == SubSeq(path, i, NextSlash(path, i) - 1)

\* The pieces that begin at the places of F from i on.
RankedFrom(F, path, i) ==
  [k \in 1 .. Cardinality(F) - Rank(F, i) + 1 |-> PartAt(path, AtRank(F, Rank(F, i) + k - 1))]

\* A number of F, and the next one there is.
Follows(F, i, j) == j \in F /\ i < j /\ \A g \in F : g <= i \/ j <= g

\* Sequences that begin with the piece at a place, and go on with that at the next.
Ranking(F, path, next, w) ==
  \A i \in F :
    IF \E g \in F : i < g THEN Follows(F, i, next[i]) /\ w[i] = <<PartAt(path, i)>> \o w[next[i]]
    ELSE w[i] = <<PartAt(path, i)>>

\* They hold all the pieces from there, in their order.
LEMMA RankingIs ==
  ASSUME NEW n \in Nat, NEW F \in SUBSET (1 .. n), NEW path, NEW next, NEW w, Ranking(F, path, next, w)
  PROVE  \A i \in F : w[i] = RankedFrom(F, path, i)
<1> DEFINE Bad == {i \in F : w[i] # RankedFrom(F, path, i)}
           C == Cardinality(F)
<1>1. C \in Nat /\ \A i \in F : i \in 1 .. n /\ Rank(F, i) \in 1 .. C /\ AtRank(F, Rank(F, i)) = i
  BY RankIs
<1>2. ASSUME NEW i \in F, \A j \in F : i < j => w[j] = RankedFrom(F, path, j)
      PROVE  w[i] = RankedFrom(F, path, i)
  <2> DEFINE r == Rank(F, i)
  <2>1. r \in 1 .. C /\ AtRank(F, r) = i
    BY <1>1
  <2>2. CASE \E g \in F : i < g
    <3> DEFINE j == next[i]
               M == C - r
               f == [k \in 1 .. M |-> PartAt(path, AtRank(F, r + k))]
    <3>1. Follows(F, i, j) /\ w[i] = <<PartAt(path, i)>> \o w[j]
      BY <2>2 DEF Ranking
    <3>2. j \in F /\ Rank(F, j) = r + 1 /\ w[j] = RankedFrom(F, path, j)
      BY <1>2, <3>1, RankIs DEF Follows
    <3>3. M \in Nat
      BY <1>1, <2>1
    <3> HIDE DEF j
    <3>4. w[j] = f
      <4>1. C - Rank(F, j) + 1 = M /\ \A k \in 1 .. M : Rank(F, j) + k - 1 = r + k
        BY <1>1, <2>1, <3>2, <3>3
      <4> HIDE DEF M, r, C
      <4>2. QED
        BY <3>2, <4>1 DEF RankedFrom, C
    <3>5. <<PartAt(path, i)>> \o f = [k \in 1 .. M + 1 |-> IF k = 1 THEN PartAt(path, i) ELSE f[k - 1]]
      <4> HIDE DEF M, f
      <4>1. f = [k \in 1 .. M |-> f[k]]
        BY DEF f
      <4>2. QED
        BY <3>3, <4>1
    <3>6. RankedFrom(F, path, i) = [k \in 1 .. M + 1 |-> PartAt(path, AtRank(F, r + k - 1))]
      BY DEF RankedFrom
    <3>7. ASSUME NEW k \in 1 .. M + 1
          PROVE  (IF k = 1 THEN PartAt(path, i) ELSE f[k - 1]) = PartAt(path, AtRank(F, r + k - 1))
      <4>1. CASE k = 1
        <5>1. r + k - 1 = r
          BY <2>1, <4>1
        <5>2. QED
          BY <2>1, <4>1, <5>1
      <4>2. CASE k # 1
        <5>1. k - 1 \in 1 .. M /\ r + (k - 1) = r + k - 1
          BY <2>1, <3>3, <4>2
        <5> HIDE DEF M, r
        <5>2. QED
          BY <4>2, <5>1
      <4>3. QED
        BY <4>1, <4>2
    <3> HIDE DEF M, f, r
    <3>8. QED
      BY <3>1, <3>4, <3>5, <3>6, <3>7
  <2>3. CASE ~\E g \in F : i < g
    <3>1. w[i] = <<PartAt(path, i)>>
      BY <2>3 DEF Ranking
    <3>2. \A g \in F : g <= i
      BY <1>1, <2>3
    <3>3. r = C
      BY <3>2, RankIs
    <3>4. C - r + 1 = 1 /\ \A k \in 1 .. 1 : r + k - 1 = r
      BY <2>1, <3>3
    <3> HIDE DEF r
    <3>5. RankedFrom(F, path, i) = [k \in 1 .. 1 |-> PartAt(path, i)]
      BY <2>1, <3>4 DEF RankedFrom, r
    <3>6. QED
      BY <3>1, <3>5
  <2>4. QED
    BY <2>2, <2>3
<1>3. SUFFICES ASSUME Bad # {} PROVE FALSE
  OBVIOUS
<1>4. PICK i \in Bad : \A j \in Bad : j <= i
  <2>1. Bad \in SUBSET (1 .. n)
    OBVIOUS
  <2> HIDE DEF Bad
  <2>2. QED
    BY <1>3, <2>1, GreatestOf
<1>5. ASSUME NEW j \in F, i < j PROVE w[j] = RankedFrom(F, path, j)
  <2>1. i \in 1 .. n /\ j \in 1 .. n
    OBVIOUS
  <2>2. j \notin Bad
    BY <1>4, <1>5, <2>1
  <2>3. QED
    BY <2>2
<1>6. QED
  BY <1>2, <1>4, <1>5

-----------------------------------------------------------------------------
(* Both ways of cutting a plain path come to its pieces. *)

\* The places where the pieces between the slashes of a path begin.
Firsts(path) == {i \in DOMAIN path : path[i] # Slash /\ (i = 1 \/ path[i - 1] = Slash)}

\* The pieces are those that begin there.
LEMMA PartsAre ==
  ASSUME NEW path
  PROVE  Parts(path) = [k \in 1 .. Cardinality(Firsts(path)) |-> PartAt(path, AtRank(Firsts(path), k))]
BY DEF Parts, PartAt, AtRank, Rank, Firsts

\* Behind a piece of a plain path a slash stands and then the next piece, or
\* nothing more than a slash.
LEMMA FirstsFollow ==
  ASSUME NEW path \in Text, Plain(path)
  PROVE  /\ Firsts(path) \in SUBSET (1 .. Len(path)) /\ Firsts(path) # {}
         /\ \A i \in Firsts(path) :
              /\ path[i] # Slash
              /\ NextSlash(path, i) \in i + 1 .. Len(path) + 1 /\ Past(path, i) = NextSlash(path, i)
              /\ IF NextSlash(path, i) < Len(path) THEN Follows(Firsts(path), i, NextSlash(path, i) + 1)
                 ELSE ~\E g \in Firsts(path) : i < g
<1> DEFINE F == Firsts(path)
<1>1. Len(path) \in Nat /\ DOMAIN path = 1 .. Len(path)
  BY DEF Text
<1>2. F \in SUBSET (1 .. Len(path))
  BY <1>1 DEF Firsts
<1>3. \A i : i \in F <=> i \in 1 .. Len(path) /\ path[i] # Slash /\ (i = 1 \/ path[i - 1] = Slash)
  BY <1>1 DEF Firsts
<1>4. /\ Cardinality(F) \in Nat
      /\ \A i \in F : Rank(F, i) \in 1 .. Cardinality(F) /\ AtRank(F, Rank(F, i)) = i
  BY <1>1, <1>2, RankIs
<1> HIDE DEF F
<1>5. F # {}
  <2>1. SUFFICES ASSUME F = {} PROVE FALSE
    OBVIOUS
  <2>2. Cardinality(F) = 0
    BY <2>1, FS_EmptySet
  <2>3. Parts(path) = << >>
    BY <2>2, PartsAre DEF F
  <2>4. QED
    BY <2>3 DEF Plain
<1>6. \A i \in 1 .. Len(path) - 1 : ~(path[i] = Slash /\ path[i + 1] = Slash)
  BY DEF Plain
<1>7. ASSUME NEW i \in F
      PROVE  /\ path[i] # Slash
             /\ NextSlash(path, i) \in i + 1 .. Len(path) + 1 /\ Past(path, i) = NextSlash(path, i)
             /\ IF NextSlash(path, i) < Len(path) THEN Follows(F, i, NextSlash(path, i) + 1)
                ELSE ~\E g \in F : i < g
  <2> DEFINE s == NextSlash(path, i)
             k == Rank(F, i)
  <2>1. i \in 1 .. Len(path) /\ path[i] # Slash
    BY <1>3
  <2>2. /\ s \in i .. Len(path) + 1
        /\ \A j \in i .. s - 1 : path[j] # Slash
        /\ s <= Len(path) => path[s] = Slash
        /\ s - i <= MaxComponent => Past(path, i) = s
    <3>1. i \in 1 .. Len(path) + 1
      BY <1>1, <2>1
    <3>2. QED
      BY <3>1, PastIs
  <2>3. s # i
    BY <2>1, <2>2
  <2>4. Len(PartAt(path, i)) = s - i
    <3> HIDE DEF s
    <3>1. \A j \in i .. s - 1 : path[j] \in Char \cup TextChar
      BY <1>1, <2>1, <2>2 DEF Text
    <3>2. i \in Int /\ s - 1 \in Int /\ i <= s - 1
      BY <1>1, <2>1, <2>2, <2>3
    <3>3. Len(SubSeq(path, i, s - 1)) = s - 1 - i + 1
      BY <3>1, <3>2, SubSeqProperties
    <3>4. QED
      BY <1>1, <2>1, <2>2, <3>3 DEF PartAt, s
  <2>5. Len(PartAt(path, i)) <= MaxComponent
    <3>1. k \in 1 .. Cardinality(F) /\ AtRank(F, k) = i
      BY <1>4
    <3> HIDE DEF k
    <3>2. k \in DOMAIN Parts(path) /\ Parts(path)[k] = PartAt(path, i)
      BY <3>1, PartsAre DEF F
    <3>3. QED
      BY <3>2 DEF Plain
  <2> HIDE DEF s
  <2>6. s \in i + 1 .. Len(path) + 1
    BY <1>1, <2>1, <2>2, <2>3
  <2>7. ASSUME NEW g \in F, i < g PROVE g \in Nat /\ s < g /\ g <= Len(path)
    <3>1. g \in 1 .. Len(path) /\ path[g] # Slash /\ g # 1 /\ path[g - 1] = Slash
      BY <1>3, <2>1, <2>7
    <3>2. ~(g - 1 \in i .. s - 1) /\ g # s
      BY <2>2, <3>1
    <3>3. QED
      BY <1>1, <2>1, <2>6, <2>7, <3>1, <3>2
  <2>8. CASE s < Len(path)
    <3>1. s \in 1 .. Len(path) - 1 /\ path[s] = Slash /\ s + 1 # 1
      BY <1>1, <2>1, <2>2, <2>6, <2>8
    <3>2. path[s + 1] # Slash /\ s + 1 \in 1 .. Len(path)
      BY <1>1, <1>6, <3>1
    <3>3. s + 1 \in F
      <4> DEFINE q == s + 1
      <4>1. q \in 1 .. Len(path) /\ path[q] # Slash /\ path[q - 1] = Slash
        <5>1. q - 1 = s
          BY <3>1
        <5> HIDE DEF q
        <5>2. path[q - 1] = Slash
          BY <3>1, <5>1
        <5>3. QED
          BY <3>2, <5>2 DEF q
      <4> HIDE DEF q
      <4>2. q \in F
        BY <1>3, <4>1
      <4>3. QED
        BY <4>2 DEF q
    <3>4. \A g \in F : g <= i \/ s + 1 <= g
      <4> SUFFICES ASSUME NEW g \in F PROVE g <= i \/ s + 1 <= g
        OBVIOUS
      <4>1. g \in 1 .. Len(path)
        BY <1>3
      <4>2. QED
        BY <1>1, <2>1, <2>6, <2>7, <4>1
    <3>5. i < s + 1
      BY <1>1, <2>1, <2>6
    <3>6. QED
      BY <2>1, <2>2, <2>4, <2>5, <2>6, <2>8, <3>3, <3>4, <3>5 DEF Follows, s
  <2>9. CASE ~(s < Len(path))
    <3>1. ~\E g \in F : i < g
      BY <1>1, <2>1, <2>6, <2>7, <2>9
    <3>2. QED
      BY <2>1, <2>2, <2>4, <2>5, <2>6, <2>9, <3>1 DEF s
  <2>10. QED
    BY <2>8, <2>9
<1>8. QED
  BY <1>2, <1>5, <1>7 DEF F

\* What begins at the first place and holds all the pieces is what Parts says.
LEMMA FromTheFirst ==
  ASSUME NEW path \in Text, NEW i \in Firsts(path), \A g \in Firsts(path) : i <= g
  PROVE  RankedFrom(Firsts(path), path, i) = Parts(path)
<1> DEFINE F == Firsts(path)
<1>1. Len(path) \in Nat /\ F \in SUBSET (1 .. Len(path))
  BY DEF Text, Firsts
<1> HIDE DEF F
<1>2. Cardinality(F) \in Nat /\ Rank(F, i) = 1
  BY <1>1, RankIs DEF F
<1>3. Cardinality(F) - Rank(F, i) + 1 = Cardinality(F)
      /\ \A k \in 1 .. Cardinality(F) : Rank(F, i) + k - 1 = k
  BY <1>2
<1>4. RankedFrom(F, path, i) = [k \in 1 .. Cardinality(F) |-> PartAt(path, AtRank(F, k))]
  BY <1>3 DEF RankedFrom
<1>5. QED
  BY <1>4, PartsAre DEF F

\* walkPath comes to the pieces of a plain path.
THEOREM WalkIsPlain ==
  ASSUME NEW path \in Text, Plain(path)
  PROVE  WalkParts(path) = Parts(path)
<1> DEFINE F == Firsts(path)
           W == WalkFrom(path)
           next == [i \in F |-> NextSlash(path, i) + 1]
<1>1. Len(path) \in Nat /\ F \in SUBSET (1 .. Len(path)) /\ F # {}
  BY FirstsFollow DEF Text
<1>2. ASSUME NEW i \in F
      PROVE  W[i] = IF NextSlash(path, i) < Len(path) THEN <<PartAt(path, i)>> \o W[NextSlash(path, i) + 1]
                    ELSE <<PartAt(path, i)>>
  <2> DEFINE s == NextSlash(path, i)
  <2>1. i \in 1 .. Len(path) + 1 /\ path[i] # Slash /\ s \in i + 1 .. Len(path) + 1 /\ Past(path, i) = s
    BY <1>1, FirstsFollow
  <2>2. First(path, i) = i
    BY <2>1 DEF First, SlashAt
  <2>3. s <= Len(path) => path[s] = Slash
    BY <2>1, PastIs
  <2>4. First(path, s) = IF s <= Len(path) THEN s + 1 ELSE s
    BY <2>3 DEF First, SlashAt
  <2>5. /\ NextComponent(path, i).text = PartAt(path, i)
        /\ NextComponent(path, i).next = First(path, s)
        /\ NextComponent(path, i).more = (First(path, s) <= Len(path))
    <3>1. /\ NextComponent(path, i).text = SubSeq(path, First(path, i), Past(path, First(path, i)) - 1)
          /\ NextComponent(path, i).next = First(path, Past(path, First(path, i)))
          /\ NextComponent(path, i).more = (First(path, Past(path, First(path, i))) <= Len(path))
      BY ComponentAt
    <3>2. Past(path, First(path, i)) = s
      BY <2>1, <2>2
    <3> HIDE DEF s
    <3>3. PartAt(path, i) = SubSeq(path, i, s - 1)
      BY DEF PartAt, s
    <3>4. QED
      BY <2>2, <3>1, <3>2, <3>3, Zenon
  <2>6. W[i] = IF NextComponent(path, i).more
                 THEN <<NextComponent(path, i).text>> \o W[NextComponent(path, i).next]
                 ELSE <<NextComponent(path, i).text>>
    BY <2>1, WalkIs
  <2>7. (First(path, s) <= Len(path)) = (s < Len(path)) /\ (s < Len(path) => First(path, s) = s + 1)
    <3> HIDE DEF s
    <3>1. QED
      BY <1>1, <2>1, <2>4
  <2> HIDE DEF s, W
  <2>8. QED
    BY <2>5, <2>6, <2>7 DEF s
<1>3. Ranking(F, path, next, W)
  <2>1. \A i \in F : next[i] = NextSlash(path, i) + 1
    OBVIOUS
  <2> HIDE DEF W, next
  <2>2. ASSUME NEW i \in F
        PROVE  IF \E g \in F : i < g THEN Follows(F, i, next[i]) /\ W[i] = <<PartAt(path, i)>> \o W[next[i]]
               ELSE W[i] = <<PartAt(path, i)>>
    <3>1. IF NextSlash(path, i) < Len(path) THEN Follows(F, i, NextSlash(path, i) + 1)
          ELSE ~\E g \in F : i < g
      BY FirstsFollow
    <3> HIDE DEF F
    <3>2. CASE NextSlash(path, i) < Len(path)
      BY <1>2, <2>1, <3>1, <3>2 DEF Follows
    <3>3. CASE ~(NextSlash(path, i) < Len(path))
      BY <1>2, <2>1, <3>1, <3>3
    <3>4. QED
      BY <3>2, <3>3
  <2>3. QED
    BY <2>2 DEF Ranking
<1>4. \A i \in F : W[i] = RankedFrom(F, path, i)
  <2> HIDE DEF F, W, next
  <2>1. QED
    BY <1>1, <1>3, RankingIs
<1> DEFINE b == First(path, 1)
<1>5. b \in F /\ (\A g \in F : b <= g) /\ First(path, b) = b
  <2>1. \A i : i \in F <=> i \in 1 .. Len(path) /\ path[i] # Slash /\ (i = 1 \/ path[i - 1] = Slash)
    BY <1>1 DEF Firsts, Text
  <2>2. PICK f \in F : TRUE
    BY <1>1
  <2>3. f \in 1 .. Len(path) /\ \A g \in F : g \in 1 .. Len(path)
    BY <1>1
  <2> HIDE DEF F
  <2>4. CASE path[1] = Slash
    <3>1. b = 2
      BY <1>1, <2>3, <2>4 DEF First, SlashAt
    <3>2. 1 \notin F
      BY <2>1, <2>4
    <3>3. Len(path) >= 2
      BY <1>1, <2>2, <2>3, <3>2
    <3>4. path[2] # Slash
      <4>1. \A i \in 1 .. Len(path) - 1 : ~(path[i] = Slash /\ path[i + 1] = Slash)
        BY DEF Plain
      <4>2. 1 \in 1 .. Len(path) - 1 /\ 1 + 1 = 2
        BY <1>1, <3>3
      <4>3. QED
        BY <2>4, <4>1, <4>2
    <3>5. 2 \in F
      BY <1>1, <2>1, <2>4, <3>3, <3>4
    <3>6. \A g \in F : 2 <= g
      BY <2>3, <3>2
    <3>7. First(path, 2) = 2
      BY <3>4 DEF First, SlashAt
    <3>8. QED
      BY <3>1, <3>5, <3>6, <3>7
  <2>5. CASE path[1] # Slash
    <3>1. b = 1 /\ First(path, b) = b
      BY <2>5 DEF First, SlashAt
    <3>2. 1 \in F /\ \A g \in F : 1 <= g
      BY <1>1, <2>1, <2>3, <2>5
    <3>3. QED
      BY <3>1, <3>2
  <2>6. QED
    BY <2>4, <2>5
<1>6. NextComponent(path, 1).text = NextComponent(path, b).text
      /\ NextComponent(path, 1).next = NextComponent(path, b).next
      /\ NextComponent(path, 1).more = NextComponent(path, b).more
  <2>1. First(path, b) = First(path, 1)
    BY <1>5
  <2> HIDE DEF b
  <2>2. QED
    <3> DEFINE Fields(i) ==
                 /\ NextComponent(path, i).text = SubSeq(path, First(path, i), Past(path, First(path, i)) - 1)
                 /\ NextComponent(path, i).next = First(path, Past(path, First(path, i)))
                 /\ NextComponent(path, i).more = (First(path, Past(path, First(path, i))) <= Len(path))
    <3>1. Fields(1)
      BY ComponentAt
    <3>2. Fields(b)
      BY ComponentAt
    <3>3. QED
      BY <2>1, <3>1, <3>2, Zenon
<1>7. W[1] = W[b]
  <2>1. b \in 1 .. Len(path) + 1 /\ 1 \in 1 .. Len(path) + 1
    BY <1>1, <1>5
  <2> HIDE DEF b
  <2>2. QED
    BY <1>6, <2>1, WalkIs
<1>8. W[b] = Parts(path)
  <2>1. RankedFrom(F, path, b) = Parts(path)
    <3> HIDE DEF b
    <3>1. QED
      BY <1>5, FromTheFirst
  <2>2. QED
    BY <1>4, <1>5, <2>1
<1>9. QED
  BY <1>7, <1>8, WalkIs

\* The last piece counts unless it is empty.
Trim(p) == IF Last(p) = << >> THEN Front(p) ELSE p

\* The names of the entries the pieces mean.
Names83(p) == [k \in DOMAIN p |-> make83Name(p[k])]

\* A piece before others stays before them when the last one does not count.
LEMMA TrimIs ==
  ASSUME NEW S, NEW t \in S
  PROVE  /\ \A p \in Seq(S) : p # << >> => Trim(p) \in Seq(S) /\ Trim(<<t>> \o p) = <<t>> \o Trim(p)
         /\ Trim(<<t>>) = IF t = << >> THEN << >> ELSE <<t>>
<1>1. ASSUME NEW p \in Seq(S), p # << >>
      PROVE  Trim(p) \in Seq(S) /\ Trim(<<t>> \o p) = <<t>> \o Trim(p)
  <2> DEFINE n == Len(p)
             c == <<t>> \o p
  <2>1. n \in Nat /\ n >= 1 /\ \A i \in 1 .. n : p[i] \in S
    BY <1>1, EmptySeq
  <2>2. /\ c \in Seq(S) /\ Len(c) = n + 1 /\ c[1] = t
        /\ \A i \in 1 .. n : c[i + 1] = p[i]
    BY <1>1
  <2>3. Last(c) = p[n] /\ Last(p) = p[n]
    <3>1. n \in 1 .. n
      BY <2>1
    <3> HIDE DEF c
    <3>2. QED
      BY <2>2, <3>1 DEF Last
  <2>4. /\ Front(p) \in Seq(S) /\ Len(Front(p)) = n - 1
        /\ \A i \in 1 .. n - 1 : Front(p)[i] = p[i]
    <3>1. n - 1 \in Int /\ 1 \in Int /\ \A i \in 1 .. n - 1 : p[i] \in S
      BY <2>1
    <3>2. Front(p) = SubSeq(p, 1, n - 1)
      BY DEF Front
    <3> HIDE DEF n
    <3>3. QED
      BY <2>1, <3>1, <3>2, SubSeqProperties
  <2>5. /\ Front(c) \in Seq(S) /\ Len(Front(c)) = n
        /\ \A i \in 1 .. n : Front(c)[i] = c[i]
    <3>1. n \in Int /\ 1 \in Int /\ Len(c) - 1 = n
      BY <2>1, <2>2
    <3> HIDE DEF n, c
    <3>2. \A i \in 1 .. n : c[i] \in S
      BY <2>1, <2>2
    <3>3. Front(c) = SubSeq(c, 1, n)
      BY <3>1 DEF Front
    <3>4. QED
      BY <2>1, <3>1, <3>2, <3>3, SubSeqProperties
  <2>6. Front(c) = <<t>> \o Front(p)
    <3> DEFINE a == Front(c)
               b == <<t>> \o Front(p)
    <3>1. b \in Seq(S) /\ Len(b) = n /\ b[1] = t /\ \A i \in 1 .. n - 1 : b[i + 1] = Front(p)[i]
      BY <2>1, <2>4
    <3> HIDE DEF b, n, c
    <3>2. ASSUME NEW i \in 1 .. n PROVE a[i] = b[i]
      <4>1. CASE i = 1
        BY <2>1, <2>2, <2>5, <3>1, <4>1
      <4>2. CASE i # 1
        <5>1. i - 1 \in 1 .. n - 1 /\ i - 1 \in 1 .. n /\ (i - 1) + 1 = i
          BY <2>1, <4>2
        <5>2. b[i] = p[i - 1]
          BY <2>4, <3>1, <5>1
        <5>3. c[i] = p[i - 1]
          BY <2>2, <5>1
        <5>4. QED
          BY <2>5, <5>2, <5>3
      <4>3. QED
        BY <4>1, <4>2
    <3> HIDE DEF a
    <3>3. QED
      <4>1. a \in Seq(S) /\ Len(a) = n
        BY <2>5 DEF a
      <4>2. a = b
        BY <3>1, <3>2, <4>1, SeqEqual
      <4>3. QED
        BY <4>2 DEF a, b
  <2> HIDE DEF c
  <2>7. QED
    BY <1>1, <2>3, <2>4, <2>6 DEF Trim, c
<1>2. Trim(<<t>>) = IF t = << >> THEN << >> ELSE <<t>>
  <2>1. Len(<<t>>) = 1 /\ <<t>>[1] = t
    OBVIOUS
  <2>2. Last(<<t>>) = t
    BY <2>1 DEF Last
  <2>3. Front(<<t>>) = << >>
    <3>1. Front(<<t>>) = SubSeq(<<t>>, 1, 0)
      BY <2>1 DEF Front
    <3>2. SubSeq(<<t>>, 1, 0) = << >>
      BY SubSeqEmpty
    <3>3. QED
      BY <3>1, <3>2
  <2>4. QED
    BY <2>2, <2>3 DEF Trim
<1>3. QED
  BY <1>1, <1>2

\* The names of pieces are names, one for each.
LEMMA NamesAre ==
  ASSUME NEW p \in Seq(Text), NEW t \in Text
  PROVE  /\ Names83(p) \in Seq(ShortName \cup {NoName})
         /\ Names83(<<t>> \o p) = <<make83Name(t)>> \o Names83(p)
         /\ Names83(<<t>>) = <<make83Name(t)>>
         /\ Names83(p) = << >> <=> p = << >>
<1> DEFINE N == ShortName \cup {NoName}
<1>1. \A x \in Text : make83Name(x) \in N
  BY MadeIsShort DEF Text
<1>2. Len(p) \in Nat /\ DOMAIN p = 1 .. Len(p) /\ \A i \in 1 .. Len(p) : p[i] \in Text
  OBVIOUS
<1>3. Names83(p) \in Seq(N) /\ Len(Names83(p)) = Len(p)
      /\ \A i \in 1 .. Len(p) : Names83(p)[i] = make83Name(p[i])
  <2> HIDE DEF N
  <2>1. QED
    BY <1>1, <1>2 DEF Names83
<1>4. Names83(<<t>>) = <<make83Name(t)>>
  BY DEF Names83
<1>5. Names83(<<t>> \o p) = <<make83Name(t)>> \o Names83(p)
  <2> DEFINE c == <<t>> \o p
             a == Names83(c)
             b == <<make83Name(t)>> \o Names83(p)
  <2>1. /\ c \in Seq(Text) /\ Len(c) = Len(p) + 1 /\ c[1] = t /\ DOMAIN c = 1 .. Len(p) + 1
        /\ \A i \in 1 .. Len(p) : c[i + 1] = p[i]
    OBVIOUS
  <2>2. /\ b \in Seq(N) /\ Len(b) = Len(p) + 1 /\ b[1] = make83Name(t)
        /\ \A i \in 1 .. Len(p) : b[i + 1] = Names83(p)[i]
    <3> HIDE DEF N
    <3>1. make83Name(t) \in N
      BY <1>1
    <3> DEFINE q == Names83(p)
    <3> HIDE DEF q
    <3>2. QED
      BY <1>2, <1>3, <3>1 DEF q
  <2> HIDE DEF c, b, N
  <2>3. \A i \in 1 .. Len(p) + 1 : c[i] \in Text
    BY <2>1
  <2>4. a \in Seq(N) /\ Len(a) = Len(p) + 1 /\ \A i \in 1 .. Len(p) + 1 : a[i] = make83Name(c[i])
    BY <1>1, <1>2, <2>1, <2>3 DEF Names83
  <2> HIDE DEF a
  <2>5. ASSUME NEW i \in 1 .. Len(p) + 1 PROVE a[i] = b[i]
    <3>1. CASE i = 1
      BY <1>2, <2>1, <2>2, <2>4, <3>1
    <3>2. CASE i # 1
      <4>1. i - 1 \in 1 .. Len(p) /\ (i - 1) + 1 = i
        BY <1>2, <3>2
      <4>2. b[i] = make83Name(p[i - 1])
        BY <1>3, <2>2, <4>1
      <4>3. c[i] = p[i - 1]
        BY <2>1, <4>1
      <4>4. QED
        BY <2>4, <4>2, <4>3
    <3>3. QED
      BY <3>1, <3>2
  <2>6. a = b
    BY <2>2, <2>4, <2>5, SeqEqual
  <2>7. QED
    BY <2>6 DEF a, b, c
<1>6. Names83(p) = << >> <=> p = << >>
  <2> HIDE DEF N
  <2>1. QED
    BY <1>3, EmptySeq
<1>7. QED
  BY <1>3, <1>4, <1>5, <1>6

\* A place with slashes in front is as good as the one behind them.
LEMMA OpenSkips ==
  ASSUME NEW path \in Text, NEW i \in 1 .. Len(path) + 1
  PROVE  OpenFrom(path)[i] = OpenFrom(path)[SkipSlashes(path, i)]
<1> DEFINE j == SkipSlashes(path, i)
           W == OpenFrom(path)
<1>1. Len(path) \in Nat /\ j \in i .. Len(path) + 1 /\ (j <= Len(path) => path[j] # Slash)
  BY SkipIs
<1>2. j \in 1 .. Len(path) + 1
  BY <1>1
<1> HIDE DEF j
<1>3. SkipSlashes(path, j) = j
  <2>1. /\ SkipSlashes(path, j) \in j .. Len(path) + 1
        /\ \A k \in j .. SkipSlashes(path, j) - 1 : path[k] = Slash
    BY <1>2, SkipIs
  <2>2. QED
    BY <1>1, <1>2, <2>1
<1> DEFINE Fields(k, f) ==
             /\ NextDirectory(path, k).text = SubSeq(path, f, Past(path, f) - 1)
             /\ NextDirectory(path, k).next = Past(path, f)
             /\ NextDirectory(path, k).more = (NextSlash(path, f) <= Len(path))
             /\ NextDirectory(path, k).rest = SubSeq(path, f, Len(path))
<1>4. Fields(i, j)
  BY DirectoryAt DEF j
<1>5. Fields(j, j)
  <2>1. Fields(j, SkipSlashes(path, j))
    BY DirectoryAt
  <2> HIDE DEF Fields
  <2>2. QED
    BY <1>3, <2>1
<1>6. /\ NextDirectory(path, i).text = NextDirectory(path, j).text
      /\ NextDirectory(path, i).next = NextDirectory(path, j).next
      /\ NextDirectory(path, i).more = NextDirectory(path, j).more
      /\ NextDirectory(path, i).rest = NextDirectory(path, j).rest
  BY <1>4, <1>5, Zenon
<1>7. W[i] = W[j]
  BY <1>2, <1>6, OpenIs
<1>8. QED
  BY <1>7 DEF j

\* SpiSDClass::open comes to the pieces of a plain path, and to nothing more
\* than an empty one behind them.
THEOREM OpenIsPlain ==
  ASSUME NEW path \in Text, Plain(path)
  PROVE  Trim(OpenParts(path)) = Parts(path)
<1> DEFINE F == Firsts(path)
           W == OpenFrom(path)
           V == [i \in F |-> Trim(W[i])]
           next == [i \in F |-> NextSlash(path, i) + 1]
<1>1. Len(path) \in Nat /\ F \in SUBSET (1 .. Len(path)) /\ F # {}
  BY FirstsFollow DEF Text
<1>2. ASSUME NEW i \in F
      PROVE  Trim(W[i]) =
               IF NextSlash(path, i) < Len(path)
                 THEN <<PartAt(path, i)>> \o Trim(W[NextSlash(path, i) + 1])
                 ELSE <<PartAt(path, i)>>
  <2> DEFINE s == NextSlash(path, i)
             t == PartAt(path, i)
             d == NextDirectory(path, i)
  <2>1. i \in 1 .. Len(path) + 1 /\ path[i] # Slash /\ s \in i + 1 .. Len(path) + 1 /\ Past(path, i) = s
    BY <1>1, FirstsFollow
  <2>2. SkipSlashes(path, i) = i
    <3>1. /\ SkipSlashes(path, i) \in i .. Len(path) + 1
          /\ \A k \in i .. SkipSlashes(path, i) - 1 : path[k] = Slash
      BY <2>1, SkipIs
    <3>2. QED
      BY <1>1, <2>1, <3>1
  <2>3. d.text = t /\ d.next = s /\ d.more = (s <= Len(path)) /\ d.rest = SubSeq(path, i, Len(path))
    <3>1. /\ d.text = SubSeq(path, SkipSlashes(path, i), Past(path, SkipSlashes(path, i)) - 1)
          /\ d.next = Past(path, SkipSlashes(path, i))
          /\ d.more = (NextSlash(path, SkipSlashes(path, i)) <= Len(path))
          /\ d.rest = SubSeq(path, SkipSlashes(path, i), Len(path))
      BY DirectoryAt
    <3>2. t = SubSeq(path, i, s - 1)
      BY DEF PartAt
    <3> HIDE DEF t, d
    <3>3. QED
      BY <2>1, <2>2, <3>1, <3>2, Zenon
  <2>4. W[i] = IF d.more THEN <<d.text>> \o W[d.next] ELSE <<d.rest>>
    BY <2>1, OpenIs
  <2>5. t \in Text /\ t # << >>
    <3>1. t \in Text
      BY <2>1, <2>3, DirectoryIsText
    <3>2. i \in Int /\ s - 1 \in Int /\ \A k \in i .. s - 1 : path[k] \in Char \cup TextChar
      BY <1>1, <2>1 DEF Text
    <3>3. Len(t) = IF i <= s - 1 THEN s - 1 - i + 1 ELSE 0
      <4>1. t = SubSeq(path, i, s - 1)
        BY DEF PartAt
      <4> HIDE DEF t, s
      <4>2. QED
        BY <3>2, <4>1, SubSeqProperties
    <3>4. Len(t) # 0
      BY <1>1, <2>1, <3>3
    <3> HIDE DEF t
    <3>5. QED
      BY <3>1, <3>4 DEF Text
  <2> HIDE DEF t, d, s, W
  <2>6. CASE s < Len(path)
    <3>1. path[s] = Slash /\ s + 1 \in F /\ s \in 1 .. Len(path) + 1 /\ s + 1 \in 1 .. Len(path) + 1
      <4>1. NextSlash(path, i) <= Len(path) => path[NextSlash(path, i)] = Slash
        BY <2>1, PastIs
      <4>2. Follows(F, i, s + 1)
        BY <2>6, FirstsFollow DEF s
      <4>3. QED
        BY <1>1, <2>1, <2>6, <4>1, <4>2 DEF s, Follows
    <3>2. SkipSlashes(path, s) = s + 1
      <4>1. /\ SkipSlashes(path, s) \in s .. Len(path) + 1
            /\ \A k \in s .. SkipSlashes(path, s) - 1 : path[k] = Slash
            /\ SkipSlashes(path, s) <= Len(path) => path[SkipSlashes(path, s)] # Slash
        BY <3>1, SkipIs
      <4>2. path[s + 1] # Slash
        BY <3>1, FirstsFollow
      <4>3. QED
        BY <1>1, <2>1, <2>6, <3>1, <4>1, <4>2
    <3>3. W[s] = W[s + 1] /\ W[s + 1] \in Seq(Text) /\ W[s + 1] # << >>
      BY <3>1, <3>2, OpenSkips, OpenIs DEF W
    <3>4. W[i] = <<t>> \o W[s + 1]
      <4>1. d.more
        <5>1. s <= Len(path)
          BY <1>1, <2>1, <2>6
        <5>2. QED
          BY <2>3, <5>1, Zenon
      <4>2. QED
        BY <2>3, <2>4, <3>3, <4>1
    <3>5. QED
      BY <2>5, <2>6, <3>3, <3>4, TrimIs DEF s, t
  <2>7. CASE s = Len(path)
    <3>1. d.more /\ s \in 1 .. Len(path) + 1 /\ path[s] = Slash
      <4>1. NextSlash(path, i) <= Len(path) => path[NextSlash(path, i)] = Slash
        BY <2>1, PastIs
      <4>2. s <= Len(path) /\ s \in 1 .. Len(path) + 1
        BY <1>1, <2>1, <2>7
      <4>3. d.more
        BY <2>3, <4>2, Zenon
      <4>4. QED
        BY <4>1, <4>2, <4>3 DEF s
    <3>2. SkipSlashes(path, s) = s + 1
      <4>1. /\ SkipSlashes(path, s) \in s .. Len(path) + 1
            /\ SkipSlashes(path, s) <= Len(path) => path[SkipSlashes(path, s)] # Slash
        BY <3>1, SkipIs
      <4>2. QED
        BY <1>1, <2>1, <2>7, <3>1, <4>1
    <3>3. NextDirectory(path, s).rest = << >> /\ ~NextDirectory(path, s).more
      <4>1. NextDirectory(path, s).rest = SubSeq(path, s + 1, Len(path))
            /\ NextDirectory(path, s).more = (NextSlash(path, s + 1) <= Len(path))
        <5>1. NextDirectory(path, s).rest = SubSeq(path, SkipSlashes(path, s), Len(path))
              /\ NextDirectory(path, s).more = (NextSlash(path, SkipSlashes(path, s)) <= Len(path))
          BY DirectoryAt
        <5>2. QED
          BY <3>2, <5>1, Zenon
      <4>2. SubSeq(path, s + 1, Len(path)) = << >>
        BY <1>1, <2>7, SubSeqEmpty
      <4>3. s + 1 \in 1 .. Len(path) + 1
        BY <1>1, <2>7
      <4>4. NextSlash(path, s + 1) \in s + 1 .. Len(path) + 1
        BY <4>3, PastIs
      <4>5. ~(NextSlash(path, s + 1) <= Len(path))
        BY <1>1, <2>7, <4>4
      <4>6. QED
        BY <4>1, <4>2, <4>5, Zenon
    <3>4. W[s] = << << >> >>
      BY <3>1, <3>3, OpenIs DEF W
    <3>5. W[i] = <<t>> \o << << >> >>
      BY <2>3, <2>4, <3>1, <3>4
    <3>6. << >> \in Text /\ << << >> >> \in Seq(Text) /\ << << >> >> # << >>
      BY DEF Text
    <3>7. Trim(<<t>> \o << << >> >>) = <<t>> \o Trim(<< << >> >>)
      BY <2>5, <3>6, TrimIs
    <3>8. Trim(<< << >> >>) = << >>
      BY <3>6, TrimIs
    <3>9. <<t>> \o << >> = <<t>>
      OBVIOUS
    <3>10. ~(s < Len(path))
      BY <1>1, <2>7
    <3>11. QED
      BY <3>5, <3>7, <3>8, <3>9, <3>10 DEF s, t
  <2>8. CASE s > Len(path)
    <3>1. ~(s <= Len(path)) /\ ~(s < Len(path)) /\ s = Len(path) + 1
      BY <1>1, <2>1, <2>8
    <3>2. d.rest = t
      <4>1. s - 1 = Len(path)
        BY <1>1, <3>1
      <4>2. QED
        BY <2>3, <4>1 DEF t, PartAt, s
    <3>3. W[i] = <<t>>
      BY <2>3, <2>4, <3>1, <3>2
    <3>4. QED
      BY <2>5, <3>1, <3>3, TrimIs DEF s, t
  <2>9. QED
    BY <1>1, <2>1, <2>6, <2>7, <2>8
<1>3. Ranking(F, path, next, V)
  <2>1. \A i \in F : next[i] = NextSlash(path, i) + 1 /\ V[i] = Trim(W[i])
    OBVIOUS
  <2> HIDE DEF V, W, next
  <2>2. ASSUME NEW i \in F
        PROVE  IF \E g \in F : i < g THEN Follows(F, i, next[i]) /\ V[i] = <<PartAt(path, i)>> \o V[next[i]]
               ELSE V[i] = <<PartAt(path, i)>>
    <3>1. IF NextSlash(path, i) < Len(path) THEN Follows(F, i, NextSlash(path, i) + 1)
          ELSE ~\E g \in F : i < g
      BY FirstsFollow
    <3> HIDE DEF F
    <3>2. CASE NextSlash(path, i) < Len(path)
      <4>1. NextSlash(path, i) + 1 \in F
        BY <3>1, <3>2 DEF Follows
      <4>2. V[next[i]] = Trim(W[NextSlash(path, i) + 1])
        BY <2>1, <4>1
      <4>3. QED
        BY <1>2, <2>1, <3>1, <3>2, <4>2 DEF Follows
    <3>3. CASE ~(NextSlash(path, i) < Len(path))
      BY <1>2, <2>1, <3>1, <3>3
    <3>4. QED
      BY <3>2, <3>3
  <2>3. QED
    BY <2>2 DEF Ranking
<1>4. \A i \in F : V[i] = RankedFrom(F, path, i)
  <2> HIDE DEF F, V, next
  <2>1. QED
    BY <1>1, <1>3, RankingIs
<1> DEFINE b == SkipSlashes(path, 1)
<1>5. b \in F /\ (\A g \in F : b <= g)
  <2>1. \A i : i \in F <=> i \in 1 .. Len(path) /\ path[i] # Slash /\ (i = 1 \/ path[i - 1] = Slash)
    BY <1>1 DEF Firsts, Text
  <2>2. PICK f \in F : TRUE
    BY <1>1
  <2>3. \A g \in F : g \in 1 .. Len(path) /\ path[g] # Slash
    BY <1>1, <2>1
  <2>4. /\ b \in 1 .. Len(path) + 1
        /\ \A k \in 1 .. b - 1 : path[k] = Slash
        /\ b <= Len(path) => path[b] # Slash
    <3>1. 1 \in 1 .. Len(path) + 1
      BY <1>1
    <3>2. QED
      BY <3>1, SkipIs
  <2> HIDE DEF F, b
  <2>5. \A g \in F : b <= g
    <3> SUFFICES ASSUME NEW g \in F, ~(b <= g) PROVE FALSE
      OBVIOUS
    <3>1. g \in 1 .. b - 1
      BY <1>1, <2>3, <2>4
    <3>2. QED
      BY <2>3, <2>4, <3>1
  <2>6. b \in 1 .. Len(path)
    BY <1>1, <2>2, <2>3, <2>4, <2>5
  <2>7. b = 1 \/ path[b - 1] = Slash
    BY <2>4
  <2>8. QED
    BY <2>1, <2>4, <2>5, <2>6, <2>7
<1>6. W[1] = W[b]
  <2>1. 1 \in 1 .. Len(path) + 1
    BY <1>1
  <2>2. QED
    BY <2>1, OpenSkips
<1>7. Trim(W[b]) = Parts(path)
  <2>1. RankedFrom(F, path, b) = Parts(path)
    <3> HIDE DEF b
    <3>1. QED
      BY <1>5, FromTheFirst
  <2>2. V[b] = Trim(W[b])
    BY <1>5
  <2>3. QED
    BY <1>4, <1>5, <2>1, <2>2
<1>8. QED
  BY <1>6, <1>7, OpenIs

\* A path means the pieces its call comes to, whether it is plain or not.
LEMMA MeantIs ==
  ASSUME NEW op, NEW path \in Text
  PROVE  Meant(op, path) =
           IF op \in Walks THEN Names83(WalkFrom(path)[1]) ELSE Names83(Trim(OpenFrom(path)[1]))
<1> DEFINE cut == IF Plain(path) THEN Parts(path)
                  ELSE IF op \in Walks THEN WalkParts(path)
                  ELSE Trim(OpenParts(path))
<1>1. Meant(op, path) = Names83(cut)
  BY DEF Meant, Names83, Trim
<1>2. cut = IF op \in Walks THEN WalkParts(path) ELSE Trim(OpenParts(path))
  BY WalkIsPlain, OpenIsPlain
<1> HIDE DEF cut
<1>3. QED
  BY <1>1, <1>2, WalkIs, OpenIs

-----------------------------------------------------------------------------
(* The places of the files and directories. *)

\* A name for each place: the root's has none, that of an entry has its name
\* behind those of its directory.
Placing(f) ==
  /\ f \in [Present -> Seq(EntryName)]
  /\ f[RootDir] = << >>
  /\ \A d \in Dir, n \in Node : Holds(d, n) => f[n] = Append(f[d], name[n])

\* Every file and directory is an entry of one directory, and following the
\* directories upwards ends at the root.
Rooted ==
  /\ \A d \in Node : kind[d] # "dir" => slots[d] = << >>
  /\ \A n \in Node : kind[n] # "none" => \E d \in Dir : Holds(d, n)
  /\ \A d, e \in Dir, n \in Node : Holds(d, n) /\ Holds(e, n) => d = e
  /\ \E f : Placing(f)

\* An entry is there, has a name, and is held by a directory that is there.
LEMMA HeldIs ==
  \A d \in Dir, n \in Node :
    TreeInv /\ Rooted /\ Holds(d, n) =>
      kind[n] # "none" /\ name[n] \in EntryName /\ n \in Present /\ d \in Present /\ IsDir(d)
<1> SUFFICES ASSUME NEW d \in Dir, NEW n \in Node, TreeInv, Rooted, Holds(d, n)
             PROVE  kind[n] # "none" /\ name[n] \in EntryName /\ n \in Present /\ d \in Present /\ IsDir(d)
  OBVIOUS
<1>1. slots[d] \in Seq(SlotValue) /\ Orderly(slots[d], kind, name) /\ name \in [Entry -> ShortName \cup {NoName}]
      /\ kind \in [Node -> {"none", "file", "dir"}]
  BY DEF TreeInv, TreeTypes
<1>2. PICK i \in 1 .. Len(slots[d]) : slots[d][i] = n
  BY <1>1 DEF Holds
<1>3. kind[n] # "none" /\ name[n] # NoName
  BY <1>1, <1>2 DEF Orderly
<1>4. name[n] \in ShortName
  <2>1. n \in Entry
    BY DEF Entry
  <2>2. name[n] \in ShortName \cup {NoName}
    BY <1>1, <2>1
  <2>3. QED
    BY <1>3, <2>2
<1>5. name[n] \in EntryName
  BY <1>4 DEF ShortName, EntryName
<1>6. d = RootDir \/ (d \in Node /\ kind[d] = "dir")
  <2>1. slots[d] # << >>
    BY <1>2
  <2>2. QED
    BY <2>1 DEF Rooted, Dir
<1>7. QED
  BY <1>3, <1>5, <1>6 DEF Present, IsDir

\* Below the root every place has a directory above it, and a longer path.
LEMMA PlaceAbove ==
  \A f, n :
    TreeInv /\ Rooted /\ Placing(f) /\ n \in Present /\ n # RootDir =>
      /\ n \in Node /\ f[n] # << >> /\ name[n] \in EntryName
      /\ \E d \in Present :
           /\ d \in Dir /\ Holds(d, n) /\ IsDir(d)
           /\ f[d] \in Seq(EntryName) /\ f[n] = Append(f[d], name[n]) /\ Len(f[n]) = Len(f[d]) + 1
<1> SUFFICES ASSUME NEW f, NEW n \in Present, TreeInv, Rooted, Placing(f), n # RootDir
             PROVE  /\ n \in Node /\ f[n] # << >> /\ name[n] \in EntryName
                    /\ \E d \in Present :
                         /\ d \in Dir /\ Holds(d, n) /\ IsDir(d)
                         /\ f[d] \in Seq(EntryName) /\ f[n] = Append(f[d], name[n]) /\ Len(f[n]) = Len(f[d]) + 1
  OBVIOUS
<1>1. n \in Node /\ kind[n] # "none"
  BY DEF Present
<1>2. PICK d \in Dir : Holds(d, n)
  BY <1>1 DEF Rooted
<1>3. name[n] \in EntryName /\ d \in Present /\ IsDir(d)
  BY <1>1, <1>2, HeldIs
<1>4. f[d] \in Seq(EntryName) /\ f[n] = Append(f[d], name[n])
  BY <1>1, <1>2, <1>3 DEF Placing
<1>5. Len(f[n]) = Len(f[d]) + 1 /\ f[n] # << >>
  <2> DEFINE q == f[d]
             e == name[n]
  <2>1. q \in Seq(EntryName) /\ e \in EntryName
    BY <1>3, <1>4
  <2> HIDE DEF q, e
  <2>2. Append(q, e) \in Seq(EntryName) /\ Len(Append(q, e)) = Len(q) + 1 /\ Len(q) \in Nat
    BY <2>1
  <2>3. Append(q, e) # << >>
    BY <2>2, EmptySeq
  <2>4. QED
    BY <1>4, <2>2, <2>3 DEF q, e
<1>6. QED
  BY <1>1, <1>2, <1>3, <1>4, <1>5

\* What can be said of a place when it can be said of shorter ones can be said
\* of all.
LEMMA Shortest ==
  \A f, B :
    Placing(f) /\ B \subseteq Present /\ B # {} =>
      \E n \in B : \A m \in B : Len(f[n]) <= Len(f[m])
<1> SUFFICES ASSUME NEW f, NEW B \in SUBSET Present, Placing(f), B # {}
             PROVE  \E n \in B : \A m \in B : Len(f[n]) <= Len(f[m])
  OBVIOUS
<1> DEFINE S == {Len(f[n]) : n \in B}
<1>1. \A n \in B : Len(f[n]) \in Nat
  BY DEF Placing
<1>2. S \in SUBSET Nat /\ S # {}
  BY <1>1
<1>3. \A s \in S : \E n \in B : s = Len(f[n])
  OBVIOUS
<1>4. \A n \in B : Len(f[n]) \in S
  OBVIOUS
<1> HIDE DEF S
<1>5. PICK s \in S : \A t \in S : s <= t
  BY <1>2, LeastOf
<1>6. QED
  BY <1>3, <1>4, <1>5

\* Different files and directories have different places.
LEMMA PlacesDiffer ==
  \A f, d, e :
    TreeInv /\ Rooted /\ Placing(f) /\ d \in Present /\ e \in Present /\ f[d] = f[e] => d = e
<1> SUFFICES ASSUME NEW f, TreeInv, Rooted, Placing(f)
             PROVE  \A d, e \in Present : f[d] = f[e] => d = e
  OBVIOUS
<1> DEFINE B == {d \in Present : \E e \in Present : f[d] = f[e] /\ d # e}
<1>1. SUFFICES ASSUME B # {} PROVE FALSE
  OBVIOUS
<1>2. PICK d \in B : \A m \in B : Len(f[d]) <= Len(f[m])
  <2>1. B \subseteq Present
    OBVIOUS
  <2> HIDE DEF B
  <2>2. QED
    BY <1>1, <2>1, Shortest
<1>3. PICK e \in Present : f[d] = f[e] /\ d # e
  BY <1>2
<1>4. d \in Present /\ \A m \in Present : (\E k \in Present : f[m] = f[k] /\ m # k) => Len(f[d]) <= Len(f[m])
  BY <1>2
<1> HIDE DEF B
<1>5. d # RootDir /\ e # RootDir
  <2>1. f[RootDir] = << >>
    BY DEF Placing
  <2>2. QED
    BY <1>3, <1>4, <2>1, PlaceAbove
<1>6. PICK u \in Present : u \in Dir /\ Holds(u, d) /\ f[u] \in Seq(EntryName) /\ f[d] = Append(f[u], name[d])
                           /\ Len(f[d]) = Len(f[u]) + 1
  BY <1>4, <1>5, PlaceAbove
<1>7. PICK v \in Present : v \in Dir /\ Holds(v, e) /\ f[v] \in Seq(EntryName) /\ f[e] = Append(f[v], name[e])
                           /\ Len(f[e]) = Len(f[v]) + 1
  BY <1>3, <1>5, PlaceAbove
<1>8. d \in Node /\ e \in Node /\ name[d] \in EntryName /\ name[e] \in EntryName
  BY <1>3, <1>4, <1>5, PlaceAbove
<1>9. f[u] = f[v] /\ name[d] = name[e]
  <2> DEFINE q == f[u]
             r == f[v]
             a == name[d]
             b == name[e]
  <2>1. q \in Seq(EntryName) /\ r \in Seq(EntryName) /\ a \in EntryName /\ b \in EntryName
        /\ Append(q, a) = Append(r, b)
    BY <1>3, <1>6, <1>7, <1>8
  <2> HIDE DEF q, r, a, b
  <2>2. q = r /\ a = b
    BY <2>1, AppendInjective
  <2>3. QED
    BY <2>2 DEF q, r, a, b
<1>10. u = v
  <2>1. SUFFICES ASSUME u # v PROVE FALSE
    OBVIOUS
  <2>2. Len(f[d]) <= Len(f[u])
    BY <1>4, <1>9, <2>1
  <2>3. Len(f[u]) \in Nat
    BY <1>6
  <2>4. QED
    BY <1>6, <2>2, <2>3
<1>11. slots[u] \in Seq(SlotValue) /\ Orderly(slots[u], kind, name)
  BY <1>6 DEF TreeInv, TreeTypes
<1>12. PICK i \in 1 .. Len(slots[u]) : slots[u][i] = d
  BY <1>6, <1>11 DEF Holds
<1>13. PICK j \in 1 .. Len(slots[u]) : slots[u][j] = e
  BY <1>7, <1>10, <1>11 DEF Holds
<1>14. QED
  BY <1>3, <1>8, <1>9, <1>11, <1>12, <1>13 DEF Orderly, Entry

\* Two ways of naming the places agree.
LEMMA PlacingsAgree ==
  \A f, g :
    TreeInv /\ Rooted /\ Placing(f) /\ g[RootDir] = << >>
      /\ (\A d \in Dir, n \in Node : Holds(d, n) => g[n] = Append(g[d], name[n])) =>
        \A d \in Present : g[d] = f[d]
<1> SUFFICES ASSUME NEW f, NEW g, TreeInv, Rooted, Placing(f), g[RootDir] = << >>,
                    \A d \in Dir, n \in Node : Holds(d, n) => g[n] = Append(g[d], name[n])
             PROVE  \A d \in Present : g[d] = f[d]
  OBVIOUS
<1> DEFINE B == {d \in Present : g[d] # f[d]}
<1>1. SUFFICES ASSUME B # {} PROVE FALSE
  OBVIOUS
<1>2. PICK d \in B : \A m \in B : Len(f[d]) <= Len(f[m])
  <2>1. B \subseteq Present
    OBVIOUS
  <2> HIDE DEF B
  <2>2. QED
    BY <1>1, <2>1, Shortest
<1>3. d \in Present /\ g[d] # f[d] /\ \A m \in Present : g[m] # f[m] => Len(f[d]) <= Len(f[m])
  BY <1>2
<1> HIDE DEF B
<1>4. d # RootDir
  BY <1>3 DEF Placing
<1>5. PICK u \in Present : u \in Dir /\ Holds(u, d) /\ f[u] \in Seq(EntryName) /\ f[d] = Append(f[u], name[d])
                           /\ Len(f[d]) = Len(f[u]) + 1
  BY <1>3, <1>4, PlaceAbove
<1>6. d \in Node
  BY <1>3, <1>4, PlaceAbove
<1>7. g[u] = f[u]
  <2>1. Len(f[u]) \in Nat
    BY <1>5
  <2>2. QED
    BY <1>3, <1>5, <2>1
<1>8. QED
  BY <1>3, <1>5, <1>6, <1>7

\* Placed names the places.
LEMMA PlacedIs == \A f : TreeInv /\ Rooted /\ Placing(f) => Placed = f
<1> SUFFICES ASSUME NEW f, TreeInv, Rooted, Placing(f) PROVE Placed = f
  OBVIOUS
<1> DEFINE Up(d) == CHOOSE up \in Present : Holds(up, d)
<1>1. ASSUME NEW n \in Node, NEW d \in Dir, Holds(d, n) PROVE Up(n) = d
  <2>1. d \in Present
    BY <1>1, HeldIs
  <2>2. Up(n) \in Present /\ Holds(Up(n), n)
    BY <1>1, <2>1
  <2>3. Up(n) \in Dir
    BY <2>2 DEF Present, Dir
  <2>4. QED
    BY <1>1, <2>2, <2>3 DEF Rooted
<1> HIDE DEF Up
<1>2. f = [d \in Present |-> IF d = RootDir THEN << >> ELSE Append(f[Up(d)], name[d])]
  <2>1. ASSUME NEW d \in Present
        PROVE  f[d] = IF d = RootDir THEN << >> ELSE Append(f[Up(d)], name[d])
    <3>1. CASE d = RootDir
      BY <3>1 DEF Placing
    <3>2. CASE d # RootDir
      BY <1>1, <3>2, PlaceAbove
    <3>3. QED
      BY <3>1, <3>2
  <2>2. QED
    BY <2>1 DEF Placing
<1>3. Placed = [d \in Present |-> IF d = RootDir THEN << >> ELSE Append(Placed[Up(d)], name[d])]
  BY <1>2 DEF Placed, Up
<1> DEFINE g == Placed
<1> HIDE DEF g
<1>4. g = [d \in Present |-> IF d = RootDir THEN << >> ELSE Append(g[Up(d)], name[d])]
  BY <1>3 DEF g
<1>5. g[RootDir] = << >>
  BY <1>4 DEF Present
<1>6. ASSUME NEW d \in Dir, NEW n \in Node, Holds(d, n) PROVE g[n] = Append(g[d], name[n])
  <2>1. n \in Present /\ n # RootDir
    BY <1>6, HeldIs, MarksDiffer
  <2>2. QED
    BY <1>1, <1>4, <1>6, <2>1
<1>7. \A d \in Present : g[d] = f[d]
  BY <1>5, <1>6, PlacingsAgree
<1>8. g = f
  BY <1>4, <1>7 DEF Placing
<1>9. QED
  BY <1>8 DEF g

\* The tree has a directory or a file at every place, and nothing else.
TreeAs(T, f) ==
  /\ T = [p \in DOMAIN T |-> T[p]]
  /\ \A d \in Present : f[d] \in DOMAIN T /\ T[f[d]] = IF IsDir(d) THEN "dir" ELSE "file"
  /\ \A p \in DOMAIN T : \E d \in Present : p = f[d]

\* Any placing of the files and directories gives the tree its paths and kinds.
LEMMA TreeIs == \A f : TreeInv /\ Rooted /\ Placing(f) => TreeAs(Tree, f)
<1> SUFFICES ASSUME NEW f, TreeInv, Rooted, Placing(f) PROVE TreeAs(Tree, f)
  OBVIOUS
<1>1. DOMAIN f = Present
  BY DEF Placing
<1>2. Tree = [p \in Range(f) |-> IF \E d \in Present : f[d] = p /\ IsDir(d) THEN "dir" ELSE "file"]
  BY <1>1, PlacedIs DEF Tree
<1>3. \A p : p \in Range(f) <=> \E d \in Present : p = f[d]
  BY <1>1 DEF Range
<1> DEFINE T == Tree
<1> HIDE DEF T
<1>4. /\ T = [p \in DOMAIN T |-> T[p]] /\ DOMAIN T = Range(f)
      /\ \A p \in Range(f) : T[p] = IF \E d \in Present : f[d] = p /\ IsDir(d) THEN "dir" ELSE "file"
  BY <1>2 DEF T
<1>5. ASSUME NEW d \in Present PROVE f[d] \in DOMAIN T /\ T[f[d]] = IF IsDir(d) THEN "dir" ELSE "file"
  <2>1. f[d] \in Range(f)
    BY <1>3
  <2>2. (\E e \in Present : f[e] = f[d] /\ IsDir(e)) <=> IsDir(d)
    BY PlacesDiffer
  <2>3. QED
    BY <1>4, <2>1, <2>2
<1>6. QED
  BY <1>3, <1>4, <1>5 DEF TreeAs, T

\* So it is after a step.
LEMMA TreeIsAfter == (\A f : TreeInv /\ Rooted /\ Placing(f) => TreeAs(Tree, f))'
BY TreeIs, PTL

\* So is what is above a place, after a step.
LEMMA PlaceAboveAfter ==
  (\A f, n :
     TreeInv /\ Rooted /\ Placing(f) /\ n \in Present /\ n # RootDir =>
       /\ n \in Node /\ f[n] # << >> /\ name[n] \in EntryName
       /\ \E d \in Present :
            /\ d \in Dir /\ Holds(d, n) /\ IsDir(d)
            /\ f[d] \in Seq(EntryName) /\ f[n] = Append(f[d], name[n]) /\ Len(f[n]) = Len(f[d]) + 1)'
BY PlaceAbove, PTL

-----------------------------------------------------------------------------
(* The tree when an entry is made. *)

\* A new entry is held by the directory it was made in, and nothing else changes.
LEMMA CreatesHolds ==
  ASSUME TreeInv, Rooted, NEW h, Whole(h), NEW n \in ShortName \cup {NoName}, CanCreate(h, n),
         NEW x \in Unused, NEW k \in {"file", "dir"}, Creates(h, x, n, k)
  PROVE  /\ h.node \in Dir /\ h.node \in Present /\ x \in Node /\ x \notin Present /\ n \in EntryName
         /\ \A d \in Dir, m \in Node : Holds(d, m)' <=> Holds(d, m) \/ (d = h.node /\ m = x)
         /\ \A d : IsDir(d)' <=> IsDir(d) \/ (d = x /\ k = "dir")
         /\ \A d : d \in Present' <=> d \in Present \/ d = x
         /\ \A d \in Node : kind'[d] # "dir" => slots'[d] = << >>
         /\ name'[x] = n /\ \A m \in Node : m # x => name'[m] = name[m]
<1> DEFINE own == [i \in 1 .. PerCluster |-> IF i <= 2 THEN Dot1 ELSE Free]
           mine == IF k = "dir" THEN own ELSE << >>
           s == slots[h.node]
           e == Min(EmptySlots(h))
           here == IF Grown(h) THEN SubSeq(s, 1, h.size) \o Cluster(x) ELSE [s EXCEPT ![e] = x]
<1>1. h.node \in Dir /\ h.size = Len(slots[h.node]) /\ IsDir(h.node) /\ n # NoName
  BY DEF CanCreate, Missing, Searched, IsDir, Dir, Whole
<1>2. x \in Node /\ kind[x] = "none" /\ x # h.node /\ x \in Dir
  BY <1>1, MarksDiffer DEF Unused, IsDir, Dir
<1>3. /\ kind \in [Node -> {"none", "file", "dir"}] /\ DOMAIN name = Entry /\ DOMAIN slots = Dir
      /\ slots[h.node] \in Seq(SlotValue) /\ Orderly(slots[h.node], kind, name)
  BY <1>1 DEF TreeInv, TreeTypes
<1>4. kind' = [kind EXCEPT ![x] = k] /\ name' = [name EXCEPT ![x] = n]
      /\ slots' = [slots EXCEPT ![h.node] = here, ![x] = mine]
  BY DEF Creates
<1> HIDE DEF mine, here
<1>5. slots'[x] = mine /\ slots'[h.node] = here /\ \A d \in Dir : d # h.node /\ d # x => slots'[d] = slots[d]
  BY <1>1, <1>2, <1>3, <1>4
<1>6. \A m \in Node : ~\E i \in DOMAIN mine : mine[i] = m
  <2>1. PerCluster \in Nat
    BY SpiSDAssumption
  <2>2. DOMAIN own = 1 .. PerCluster /\ \A i \in 1 .. PerCluster : own[i] \in {Dot1, Free}
    OBVIOUS
  <2> HIDE DEF own
  <2>3. \A m \in Node : ~\E i \in DOMAIN own : own[i] = m
    BY <2>2, MarksDiffer
  <2>4. DOMAIN << >> = {}
    OBVIOUS
  <2>5. QED
    BY <2>3, <2>4 DEF mine
<1>7. slots[x] = << >>
  BY <1>2 DEF Rooted
<1>8. \A m \in Node : ~Holds(x, m) /\ ~Holds(x, m)'
  BY <1>5, <1>6, <1>7 DEF Holds
<1>9. \A m \in Node : (\E i \in DOMAIN here : here[i] = m) <=> (\E i \in DOMAIN s : s[i] = m) \/ m = x
  <2> HIDE DEF s
  <2>1. s \in Seq(SlotValue) /\ Len(s) \in Nat /\ DOMAIN s = 1 .. Len(s) /\ h.size = Len(s)
    BY <1>1, <1>3 DEF s
  <2>2. CASE Grown(h)
    <3> DEFINE c == Cluster(x)
    <3>1. c \in Seq(SlotValue) /\ Len(c) = PerCluster /\ c[1] = x /\ \A i \in 2 .. PerCluster : c[i] = Free
      BY <1>2, ClusterIs
    <3>2. PerCluster \in Nat /\ PerCluster >= 2
      BY SpiSDAssumption
    <3>3. here = s \o c
      <4>1. SubSeq(s, 1, h.size) = s
        BY <2>1, SubSeqFull
      <4>2. QED
        BY <2>2, <4>1 DEF here
    <3> HIDE DEF c
    <3>4. here \in Seq(SlotValue) /\ Len(here) = Len(s) + PerCluster
          /\ \A i \in 1 .. Len(here) : here[i] = IF i <= Len(s) THEN s[i] ELSE c[i - Len(s)]
      <4>1. /\ s \o c \in Seq(SlotValue) /\ Len(s \o c) = Len(s) + Len(c)
            /\ \A i \in 1 .. Len(s) + Len(c) : (s \o c)[i] = IF i <= Len(s) THEN s[i] ELSE c[i - Len(s)]
        BY <2>1, <3>1, ConcatProperties
      <4> DEFINE t == s \o c
      <4> HIDE DEF t
      <4>2. here = t
        BY <3>3 DEF t
      <4>3. /\ t \in Seq(SlotValue) /\ Len(t) = Len(s) + PerCluster
            /\ \A i \in 1 .. Len(s) + PerCluster : t[i] = IF i <= Len(s) THEN s[i] ELSE c[i - Len(s)]
        BY <3>1, <4>1 DEF t
      <4>4. QED
        BY <4>2, <4>3
    <3>5. ASSUME NEW m \in Node, NEW i \in 1 .. Len(here), here[i] = m
          PROVE  (\E j \in DOMAIN s : s[j] = m) \/ m = x
      <4>1. CASE i <= Len(s)
        BY <2>1, <3>2, <3>4, <3>5, <4>1
      <4>2. CASE ~(i <= Len(s))
        <5>1. i - Len(s) \in 1 .. PerCluster
          BY <2>1, <3>2, <3>4, <4>2
        <5>2. here[i] = c[i - Len(s)]
          BY <3>4, <4>2
        <5>3. i - Len(s) = 1 \/ i - Len(s) \in 2 .. PerCluster
          BY <3>2, <5>1
        <5>4. QED
          BY <3>1, <3>5, <5>2, <5>3, MarksDiffer
      <4>3. QED
        BY <4>1, <4>2
    <3>6. ASSUME NEW m \in Node, NEW i \in 1 .. Len(s), s[i] = m PROVE \E j \in DOMAIN here : here[j] = m
      <4>1. i \in 1 .. Len(here) /\ here[i] = s[i] /\ DOMAIN here = 1 .. Len(here)
        BY <2>1, <3>2, <3>4
      <4>2. QED
        BY <3>6, <4>1
    <3>7. \E j \in DOMAIN here : here[j] = x
      <4>1. Len(s) + 1 \in 1 .. Len(here) /\ (Len(s) + 1) - Len(s) = 1 /\ ~(Len(s) + 1 <= Len(s))
        BY <2>1, <3>2, <3>4
      <4>2. here[Len(s) + 1] = x
        BY <3>1, <3>4, <4>1
      <4>3. DOMAIN here = 1 .. Len(here)
        BY <3>4
      <4>4. QED
        BY <4>1, <4>2, <4>3
    <3>8. DOMAIN here = 1 .. Len(here)
      BY <3>4
    <3>9. QED
      BY <2>1, <3>5, <3>6, <3>7, <3>8
  <2>3. CASE ~Grown(h)
    <3>1. e \in EmptySlots(h)
      <4>1. EmptySlots(h) # {} /\ EmptySlots(h) \in SUBSET Nat
        BY <2>3 DEF Grown, EmptySlots
      <4>2. QED
        BY <4>1, MinIs
    <3> HIDE DEF e
    <3>2. e \in 1 .. Len(s) /\ s[e] \in {Free, Deleted}
      BY <2>1, <3>1 DEF EmptySlots, s
    <3>3. here = [s EXCEPT ![e] = x]
      BY <2>3 DEF here
    <3>4. DOMAIN here = DOMAIN s /\ here[e] = x /\ \A i \in DOMAIN s : i # e => here[i] = s[i]
      BY <2>1, <3>2, <3>3
    <3>5. s[e] \notin Node
      BY <3>2, MarksDiffer
    <3>6. QED
      BY <2>1, <3>2, <3>4, <3>5
  <2>4. QED
    BY <2>2, <2>3
<1>10. \A m \in Node : Holds(h.node, m)' <=> Holds(h.node, m) \/ m = x
  BY <1>5, <1>9 DEF Holds
<1>11. \A d \in Dir, m \in Node : Holds(d, m)' <=> Holds(d, m) \/ (d = h.node /\ m = x)
  <2> SUFFICES ASSUME NEW d \in Dir, NEW m \in Node
               PROVE  Holds(d, m)' <=> Holds(d, m) \/ (d = h.node /\ m = x)
    OBVIOUS
  <2>1. CASE d = h.node
    BY <1>10, <2>1
  <2>2. CASE d = x
    BY <1>2, <1>8, <2>2
  <2>3. CASE d # h.node /\ d # x
    BY <1>5, <2>3 DEF Holds
  <2>4. QED
    BY <2>1, <2>2, <2>3
<1>12. \A d : IsDir(d)' <=> IsDir(d) \/ (d = x /\ k = "dir")
  BY <1>2, <1>3, <1>4 DEF IsDir
<1>13. \A d : d \in Present' <=> d \in Present \/ d = x
  BY <1>2, <1>3, <1>4 DEF Present
<1>14. \A d \in Node : kind'[d] # "dir" => slots'[d] = << >>
  <2> SUFFICES ASSUME NEW d \in Node, kind'[d] # "dir" PROVE slots'[d] = << >>
    OBVIOUS
  <2>1. CASE d = x
    BY <1>2, <1>3, <1>4, <1>5, <2>1 DEF mine
  <2>2. CASE d # x
    <3>1. kind[d] # "dir" /\ d # h.node /\ d \in Dir
      <4>1. kind'[d] = kind[d]
        BY <1>2, <1>3, <1>4, <2>2
      <4>2. d # RootDir
        BY MarksDiffer
      <4>3. QED
        BY <1>1, <4>1, <4>2 DEF IsDir, Dir
    <3>2. QED
      BY <1>5, <2>2, <3>1 DEF Rooted
  <2>3. QED
    BY <2>1, <2>2
<1>15. name'[x] = n /\ \A m \in Node : m # x => name'[m] = name[m]
  BY <1>2, <1>3, <1>4 DEF Entry
<1>16. n \in EntryName /\ h.node \in Present /\ x \notin Present
  <2>1. n \in ShortName
    BY <1>1
  <2>2. x # RootDir
    BY <1>2, MarksDiffer
  <2>3. QED
    BY <1>1, <1>2, <2>1, <2>2 DEF ShortName, EntryName, IsDir, Present, Dir
<1>17. QED
  BY <1>1, <1>2, <1>11, <1>12, <1>13, <1>14, <1>15, <1>16

\* Its place is that of the directory with its name behind.
LEMMA CreatesPlaces ==
  ASSUME TreeInv, Rooted, NEW h, Whole(h), NEW n \in ShortName \cup {NoName}, CanCreate(h, n),
         NEW x \in Unused, NEW k \in {"file", "dir"}, Creates(h, x, n, k),
         NEW f, Placing(f)
  PROVE  /\ Rooted' /\ TreeInv'
         /\ \E g : /\ Placing(g)' /\ g[x] = Append(f[h.node], n)
                   /\ \A d \in Present : g[d] = f[d]
<1>1. /\ h.node \in Dir /\ h.node \in Present /\ x \in Node /\ x \notin Present /\ n \in EntryName
      /\ \A d \in Dir, m \in Node : Holds(d, m)' <=> Holds(d, m) \/ (d = h.node /\ m = x)
      /\ \A d : d \in Present' <=> d \in Present \/ d = x
      /\ \A d \in Node : kind'[d] # "dir" => slots'[d] = << >>
      /\ name'[x] = n /\ \A m \in Node : m # x => name'[m] = name[m]
  BY CreatesHolds
<1>2. TreeInv'
  BY CreatesKeeps
<1>3. f \in [Present -> Seq(EntryName)] /\ f[RootDir] = << >> /\ RootDir \in Present /\ RootDir # x
      /\ \A d \in Dir, m \in Node : Holds(d, m) => f[m] = Append(f[d], name[m])
  BY <1>1, MarksDiffer DEF Placing, Present
<1>4. Append(f[h.node], n) \in Seq(EntryName)
  <2>1. f[h.node] \in Seq(EntryName)
    BY <1>1, <1>3
  <2> DEFINE q == f[h.node]
  <2> HIDE DEF q
  <2>2. Append(q, n) \in Seq(EntryName)
    BY <1>1, <2>1 DEF q
  <2>3. QED
    BY <2>2 DEF q
<1>5. PICK g : g = [d \in Present' |-> IF d = x THEN Append(f[h.node], n) ELSE f[d]]
  OBVIOUS
<1>6. DOMAIN g = Present' /\ g[x] = Append(f[h.node], n) /\ \A d \in Present : g[d] = f[d]
  BY <1>1, <1>5
<1>7. g \in [Present' -> Seq(EntryName)]
  BY <1>1, <1>3, <1>4, <1>5
<1>8. ASSUME NEW d \in Dir, NEW m \in Node, Holds(d, m)' PROVE g[m] = Append(g[d], name'[m])
  <2>1. CASE Holds(d, m)
    <3>1. m \in Present /\ d \in Present
      BY <2>1, HeldIs
    <3>2. m # x
      BY <1>1, <3>1
    <3>3. QED
      BY <1>1, <1>3, <1>6, <2>1, <3>1, <3>2
  <2>2. CASE d = h.node /\ m = x
    BY <1>1, <1>6, <2>2
  <2>3. QED
    BY <1>1, <1>8, <2>1, <2>2
<1>9. Placing(g)'
  <2>1. g[RootDir] = << >>
    BY <1>3, <1>6
  <2>2. QED
    BY <1>7, <1>8, <2>1 DEF Placing
<1>10. \A m \in Node : kind'[m] # "none" => \E d \in Dir : Holds(d, m)'
  <2> SUFFICES ASSUME NEW m \in Node, kind'[m] # "none" PROVE \E d \in Dir : Holds(d, m)'
    OBVIOUS
  <2>1. m \in Present'
    BY DEF Present
  <2>2. CASE m = x
    BY <1>1, <2>2
  <2>3. CASE m # x
    <3>1. m \in Present /\ m # RootDir
      BY <1>1, <2>1, <2>3, MarksDiffer
    <3>2. kind[m] # "none"
      BY <3>1 DEF Present
    <3>3. QED
      BY <1>1, <3>2 DEF Rooted
  <2>4. QED
    BY <2>2, <2>3
<1>11. \A d, e \in Dir, m \in Node : Holds(d, m)' /\ Holds(e, m)' => d = e
  <2>1. \A d \in Dir : ~Holds(d, x)
    BY <1>1, HeldIs
  <2>2. \A d, e \in Dir, m \in Node : Holds(d, m) /\ Holds(e, m) => d = e
    BY DEF Rooted
  <2>3. QED
    BY <1>1, <2>1, <2>2
<1>12. Rooted'
  BY <1>1, <1>9, <1>10, <1>11 DEF Rooted
<1>13. QED
  BY <1>2, <1>6, <1>9, <1>12

\* Different places after a step, too.
LEMMA PlacesDifferAfter ==
  (\A f, d, e : TreeInv /\ Rooted /\ Placing(f) /\ d \in Present /\ e \in Present /\ f[d] = f[e] => d = e)'
BY PlacesDiffer, PTL

\* A tree with a path more, of kind k.
WithMore(T, path, k) == [p \in DOMAIN T \cup {path} |-> IF p = path THEN k ELSE T[p]]

\* A tree with a path less.
WithLess(T, path) == [p \in DOMAIN T \ {path} |-> T[p]]

\* A new entry is a new path of the tree.
LEMMA CreatesTree ==
  ASSUME TreeInv, Rooted, NEW h, Whole(h), NEW n \in ShortName \cup {NoName}, CanCreate(h, n),
         NEW x \in Unused, NEW k \in {"file", "dir"}, Creates(h, x, n, k),
         NEW f, Placing(f)
  PROVE  /\ Append(f[h.node], n) \notin DOMAIN Tree
         /\ Tree' = WithMore(Tree, Append(f[h.node], n), k)
<1>1. /\ x \notin Present
      /\ \A d : IsDir(d)' <=> IsDir(d) \/ (d = x /\ k = "dir")
      /\ \A d : d \in Present' <=> d \in Present \/ d = x
  BY CreatesHolds
<1>2. Rooted' /\ TreeInv'
  BY CreatesPlaces
<1>3. PICK g : /\ Placing(g)' /\ g[x] = Append(f[h.node], n)
               /\ \A d \in Present : g[d] = f[d]
  BY CreatesPlaces
<1> DEFINE path == Append(f[h.node], n)
           T == Tree
           U == Tree'
<1>4. TreeAs(T, f)
  BY TreeIs
<1>5. TreeAs(Tree, g)'
  BY <1>2, <1>3, TreeIsAfter
<1>6. /\ U = [p \in DOMAIN U |-> U[p]]
      /\ \A d \in Present' : g[d] \in DOMAIN U /\ U[g[d]] = IF IsDir(d)' THEN "dir" ELSE "file"
      /\ \A p \in DOMAIN U : \E d \in Present' : p = g[d]
  BY <1>5 DEF TreeAs
<1> HIDE DEF path, T, U
<1>7. g[x] = path
  BY <1>3 DEF path
<1>8. path \notin DOMAIN T
  <2>1. SUFFICES ASSUME NEW d \in Present, path = f[d] PROVE FALSE
    BY <1>4 DEF TreeAs
  <2>2. g[d] = g[x] /\ d \in Present' /\ x \in Present'
    BY <1>1, <1>3, <1>7, <2>1
  <2>3. d = x
    BY <1>2, <1>3, <2>2, PlacesDifferAfter
  <2>4. QED
    BY <1>1, <2>3
<1>9. \A p : p \in DOMAIN U <=> p \in DOMAIN T \cup {path}
  <2>1. ASSUME NEW p \in DOMAIN U PROVE p \in DOMAIN T \cup {path}
    <3>1. PICK d \in Present' : p = g[d]
      BY <1>6
    <3>2. QED
      BY <1>1, <1>3, <1>4, <1>7, <3>1 DEF TreeAs
  <2>2. ASSUME NEW p \in DOMAIN T PROVE p \in DOMAIN U
    <3>1. PICK d \in Present : p = f[d]
      BY <1>4 DEF TreeAs
    <3>2. QED
      BY <1>1, <1>3, <1>6, <3>1
  <2>3. path \in DOMAIN U
    BY <1>1, <1>6, <1>7
  <2>4. QED
    BY <2>1, <2>2, <2>3
<1>10. ASSUME NEW p \in DOMAIN U PROVE U[p] = IF p = path THEN k ELSE T[p]
  <2>1. CASE p = path
    <3>1. x \in Present' /\ (IsDir(x)' <=> k = "dir")
      BY <1>1 DEF IsDir, Present
    <3>2. U[g[x]] = IF IsDir(x)' THEN "dir" ELSE "file"
      BY <1>6, <3>1
    <3>3. QED
      BY <1>7, <2>1, <3>1, <3>2
  <2>2. CASE p # path
    <3>1. p \in DOMAIN T
      BY <1>9, <2>2
    <3>2. PICK d \in Present : p = f[d]
      BY <1>4, <3>1 DEF TreeAs
    <3>3. d # x /\ d \in Present' /\ g[d] = p /\ (IsDir(d)' <=> IsDir(d))
      BY <1>1, <1>3, <3>2
    <3>4. T[p] = IF IsDir(d) THEN "dir" ELSE "file"
      BY <1>4, <3>2 DEF TreeAs
    <3>5. U[p] = IF IsDir(d)' THEN "dir" ELSE "file"
      BY <1>6, <3>3
    <3>6. QED
      BY <2>2, <3>3, <3>4, <3>5
  <2>3. QED
    BY <2>1, <2>2
<1>11. DOMAIN U = DOMAIN T \cup {path}
  BY <1>9
<1>12. U = [p \in DOMAIN T \cup {path} |-> IF p = path THEN k ELSE T[p]]
  BY <1>6, <1>10, <1>11
<1>13. QED
  BY <1>8, <1>12 DEF WithMore, T, U, path

-----------------------------------------------------------------------------
(* The tree when an entry is removed. *)

\* The volume label keeps its name when an entry comes or goes.
LEMMA LabelStays ==
  ASSUME TreeInv, NEW x \in Node, NEW n, name' = [name EXCEPT ![x] = n]
  PROVE  name'[Other] = name[Other]
BY MarksDiffer DEF TreeInv, TreeTypes, Entry

\* The entry is held no more, and nothing else changes.
LEMMA DeletesHolds ==
  ASSUME TreeInv, Rooted, NEW x \in Node, \A m \in Node : ~Holds(x, m), Deletes(x)
  PROVE  /\ \A d \in Dir, m \in Node : Holds(d, m)' <=> Holds(d, m) /\ m # x
         /\ \A d : IsDir(d)' <=> IsDir(d) /\ d # x
         /\ \A d : d \in Present' <=> d \in Present /\ d # x
         /\ \A d \in Node : kind'[d] # "dir" => slots'[d] = << >>
         /\ \A m \in Node : m # x => name'[m] = name[m]
<1>1. /\ kind \in [Node -> {"none", "file", "dir"}] /\ DOMAIN name = Entry
      /\ slots \in [Dir -> Seq(SlotValue)]
  BY DEF TreeInv, TreeTypes
<1>2. /\ kind' = [kind EXCEPT ![x] = "none"] /\ name' = [name EXCEPT ![x] = NoName]
      /\ slots' = [d \in Dir |-> IF d = x THEN << >> ELSE Without(slots[d], x)]
  BY DEF Deletes, Without
<1>3. x \in Dir /\ x # RootDir /\ slots'[x] = << >> /\ \A d \in Dir : d # x => slots'[d] = Without(slots[d], x)
  BY <1>2, MarksDiffer DEF Dir
<1>4. \A d \in Dir, m \in Node : Holds(d, m)' <=> Holds(d, m) /\ m # x
  <2> SUFFICES ASSUME NEW d \in Dir, NEW m \in Node PROVE Holds(d, m)' <=> Holds(d, m) /\ m # x
    OBVIOUS
  <2>1. CASE d = x
    <3>1. ~Holds(x, m)'
      BY <1>3 DEF Holds
    <3>2. QED
      BY <2>1, <3>1
  <2>2. CASE d # x
    <3>1. slots'[d] = Without(slots[d], x)
      BY <1>3, <2>2
    <3>2. DOMAIN Without(slots[d], x) = DOMAIN slots[d]
          /\ \A i \in DOMAIN slots[d] : Without(slots[d], x)[i] = IF slots[d][i] = x THEN Deleted ELSE slots[d][i]
      BY DEF Without
    <3>3. QED
      BY <3>1, <3>2, MarksDiffer DEF Holds
  <2>3. QED
    BY <2>1, <2>2
<1>5. \A d : IsDir(d)' <=> IsDir(d) /\ d # x
  BY <1>1, <1>2, <1>3 DEF IsDir
<1>6. \A d : d \in Present' <=> d \in Present /\ d # x
  BY <1>1, <1>2, <1>3 DEF Present
<1>7. \A d \in Node : kind'[d] # "dir" => slots'[d] = << >>
  <2> SUFFICES ASSUME NEW d \in Node, kind'[d] # "dir", d # x PROVE slots'[d] = << >>
    BY <1>3
  <2>1. kind[d] # "dir" /\ d \in Dir
    BY <1>1, <1>2 DEF Dir
  <2>2. slots[d] = << >>
    BY <2>1 DEF Rooted
  <2>3. Without(slots[d], x) = << >>
    BY <2>2 DEF Without
  <2>4. QED
    BY <1>3, <2>1, <2>3
<1>8. QED
  BY <1>1, <1>2, <1>4, <1>5, <1>6, <1>7

\* What is left stays in its place, and the path of the entry leaves the tree.
LEMMA DeletesTree ==
  ASSUME TreeInv, TreeInv', Rooted, NEW x \in Node, kind[x] # "none", \A m \in Node : ~Holds(x, m), Deletes(x),
         NEW f, Placing(f)
  PROVE  Rooted' /\ Tree' = WithLess(Tree, f[x])
<1>1. /\ \A d \in Dir, m \in Node : Holds(d, m)' <=> Holds(d, m) /\ m # x
      /\ \A d : IsDir(d)' <=> IsDir(d) /\ d # x
      /\ \A d : d \in Present' <=> d \in Present /\ d # x
      /\ \A d \in Node : kind'[d] # "dir" => slots'[d] = << >>
      /\ \A m \in Node : m # x => name'[m] = name[m]
  BY DeletesHolds
<1>2. f \in [Present -> Seq(EntryName)] /\ f[RootDir] = << >> /\ RootDir \in Present /\ RootDir # x
      /\ \A d \in Dir, m \in Node : Holds(d, m) => f[m] = Append(f[d], name[m])
  BY MarksDiffer DEF Placing, Present
<1>3. PICK g : g = [d \in Present' |-> f[d]]
  OBVIOUS
<1>4. DOMAIN g = Present' /\ \A d \in Present' : g[d] = f[d]
  BY <1>3
<1>5. g \in [Present' -> Seq(EntryName)]
  BY <1>1, <1>2, <1>3
<1>6. ASSUME NEW d \in Dir, NEW m \in Node, Holds(d, m)' PROVE g[m] = Append(g[d], name'[m])
  <2>1. Holds(d, m) /\ m # x /\ d # x
    BY <1>1, <1>6
  <2>2. m \in Present' /\ d \in Present'
    BY <1>1, <2>1, HeldIs
  <2>3. QED
    BY <1>1, <1>2, <1>4, <2>1, <2>2
<1>7. Placing(g)'
  <2>1. g[RootDir] = << >>
    BY <1>1, <1>2, <1>4
  <2>2. QED
    BY <1>5, <1>6, <2>1 DEF Placing
<1>8. Rooted'
  <2>1. ASSUME NEW m \in Node, kind'[m] # "none" PROVE \E d \in Dir : Holds(d, m)'
    <3>1. m \in Present'
      BY <2>1 DEF Present
    <3>2. m # x /\ m # RootDir /\ m \in Present
      BY <1>1, <3>1, MarksDiffer
    <3>3. kind[m] # "none"
      BY <3>2 DEF Present
    <3>4. QED
      BY <1>1, <3>2, <3>3 DEF Rooted
  <2>2. \A d, e \in Dir, m \in Node : Holds(d, m)' /\ Holds(e, m)' => d = e
    <3>1. \A d, e \in Dir, m \in Node : Holds(d, m) /\ Holds(e, m) => d = e
      BY DEF Rooted
    <3>2. QED
      BY <1>1, <3>1
  <2>3. QED
    BY <1>1, <1>7, <2>1, <2>2 DEF Rooted
<1> DEFINE path == f[x]
           T == Tree
           U == Tree'
<1>9. TreeAs(T, f)
  BY TreeIs
<1>10. TreeAs(Tree, g)'
  BY <1>7, <1>8, TreeIsAfter
<1>11. /\ U = [p \in DOMAIN U |-> U[p]]
       /\ \A d \in Present' : g[d] \in DOMAIN U /\ U[g[d]] = IF IsDir(d)' THEN "dir" ELSE "file"
       /\ \A p \in DOMAIN U : \E d \in Present' : p = g[d]
  BY <1>10 DEF TreeAs
<1> HIDE DEF path, T, U
<1>12. x \in Present
  BY DEF Present
<1>13. \A d \in Present : f[d] = path => d = x
  BY <1>12, PlacesDiffer DEF path
<1>14. ASSUME NEW p \in DOMAIN U PROVE p \in DOMAIN T /\ p # path /\ U[p] = T[p]
  <2>1. PICK d \in Present' : p = g[d]
    BY <1>11
  <2>2. d \in Present /\ d # x /\ p = f[d] /\ (IsDir(d)' <=> IsDir(d))
    BY <1>1, <1>4, <2>1
  <2>3. p \in DOMAIN T /\ T[p] = IF IsDir(d) THEN "dir" ELSE "file"
    BY <1>9, <2>2 DEF TreeAs
  <2>4. U[p] = IF IsDir(d)' THEN "dir" ELSE "file"
    BY <1>11, <2>1
  <2>5. QED
    BY <1>13, <2>2, <2>3, <2>4
<1>15. ASSUME NEW p \in DOMAIN T, p # path PROVE p \in DOMAIN U
  <2>1. PICK d \in Present : p = f[d]
    BY <1>9 DEF TreeAs
  <2>2. d # x
    BY <1>15, <2>1 DEF path
  <2>3. d \in Present' /\ g[d] = p
    BY <1>1, <1>4, <2>1, <2>2
  <2>4. QED
    BY <1>11, <2>3
<1>16. DOMAIN U = DOMAIN T \ {path}
  BY <1>14, <1>15
<1>17. U = [p \in DOMAIN T \ {path} |-> T[p]]
  BY <1>11, <1>14, <1>16
<1>18. QED
  BY <1>8, <1>17 DEF WithLess, T, U, path

-----------------------------------------------------------------------------
(* What a search says of the tree. *)

\* What a path may have at a place: a name, or a text that is none.
PathName == EntryName \cup {NoName}

\* What make83Name gives can stand in a path of the promise.
LEMMA ShortIsName == ShortName \cup {NoName} \subseteq PathName
BY DEF ShortName, EntryName, PathName

\* The name that is found is that of the path with this name behind, and when
\* none is found there is no such path.
LEMMA LookupTree ==
  ASSUME TreeInv, Rooted, NEW f, Placing(f), NEW h, Whole(h), h.node \in Present,
         NEW n \in ShortName \cup {NoName}
  PROVE  /\ Lookup(h, n) # NoNode =>
              /\ Lookup(h, n) \in Node /\ Lookup(h, n) \in Present /\ IsDir(h.node) /\ n \in EntryName
              /\ Holds(h.node, Lookup(h, n)) /\ f[Lookup(h, n)] = Append(f[h.node], n)
         /\ Lookup(h, n) = NoNode => Append(f[h.node], n) \notin DOMAIN Tree
<1> DEFINE x == Lookup(h, n)
<1>1. h \in HandleType /\ h.node \in Dir /\ Inside(h) /\ h.size \in Nat
  <2>1. h \in HandleType
    BY DEF Whole
  <2>2. h.size \in Nat /\ h.node \in Dir
    BY <2>1 DEF HandleType, Present, Dir
  <2>3. Inside(h)
    BY <2>1, <2>2 DEF Whole, Inside
  <2>4. QED
    BY <2>1, <2>2, <2>3
<1>2. /\ x \in Node \cup {NoNode}
      /\ x # NoNode =>
           /\ IsDir(h.node) /\ n # NoName
           /\ Min(Ends(h, n)) \in 1 .. h.size
           /\ slots[h.node][Min(Ends(h, n))] = x
           /\ name[x] = n
           /\ kind[x] # "none"
      /\ x = NoNode /\ IsDir(h.node) /\ n # NoName =>
           \A i \in 1 .. h.size : slots[h.node][i] \in Node => name[slots[h.node][i]] # n
  BY <1>1, LookupIs
<1>3. slots[h.node] \in Seq(SlotValue) /\ DOMAIN slots[h.node] = 1 .. Len(slots[h.node]) /\ Len(slots[h.node]) \in Nat
  BY <1>1 DEF TreeInv, TreeTypes
<1> HIDE DEF x
<1>4. CASE x # NoNode
  <2>1. x \in Node /\ IsDir(h.node) /\ n # NoName /\ name[x] = n /\ h.size = Len(slots[h.node])
    BY <1>2, <1>4 DEF Whole
  <2>2. Holds(h.node, x)
    BY <1>2, <1>3, <1>4, <2>1 DEF Holds
  <2>3. n \in EntryName /\ x \in Present
    BY <1>1, <2>1, <2>2, HeldIs
  <2>4. f[x] = Append(f[h.node], n)
    BY <1>1, <2>1, <2>2 DEF Placing
  <2>5. QED
    BY <1>4, <2>1, <2>2, <2>3, <2>4 DEF x
<1>5. CASE x = NoNode
  <2>1. SUFFICES ASSUME Append(f[h.node], n) \in DOMAIN Tree PROVE FALSE
    BY <1>5 DEF x
  <2>2. PICK d \in Present : Append(f[h.node], n) = f[d]
    BY <2>1, TreeIs DEF TreeAs
  <2>3. f[h.node] \in Seq(EntryName) /\ f[h.node] \in Seq(PathName) /\ n \in PathName
    <3>1. f[h.node] \in Seq(EntryName)
      BY DEF Placing
    <3>2. QED
      BY <3>1, ShortIsName, SeqMonotonic DEF PathName
  <2>4. d # RootDir
    <3> DEFINE q == f[h.node]
    <3> HIDE DEF q
    <3>1. Append(q, n) \in Seq(PathName) /\ Len(Append(q, n)) = Len(q) + 1 /\ Len(q) \in Nat
      BY <2>3 DEF q
    <3>2. Append(q, n) # << >>
      BY <3>1, EmptySeq
    <3>3. QED
      BY <2>2, <3>2 DEF Placing, q
  <2>5. PICK u \in Present : /\ u \in Dir /\ Holds(u, d) /\ IsDir(u)
                             /\ f[u] \in Seq(EntryName) /\ f[d] = Append(f[u], name[d])
    BY <2>4, PlaceAbove
  <2>6. d \in Node /\ name[d] \in EntryName
    BY <2>4, PlaceAbove
  <2>7. f[u] = f[h.node] /\ name[d] = n
    <3> DEFINE q == f[h.node]
               r == f[u]
               a == name[d]
    <3>1. q \in Seq(PathName) /\ r \in Seq(PathName) /\ a \in PathName /\ n \in PathName
          /\ Append(q, n) = Append(r, a)
      BY <2>2, <2>3, <2>5, <2>6, SeqMonotonic DEF PathName
    <3> HIDE DEF q, r, a
    <3>2. q = r /\ a = n
      BY <3>1, AppendInjective
    <3>3. QED
      BY <3>2 DEF q, r, a
  <2>8. u = h.node
    BY <2>7, PlacesDiffer
  <2>9. n # NoName
    BY <2>6, <2>7 DEF EntryName, NoName
  <2>10. PICK i \in DOMAIN slots[h.node] : slots[h.node][i] = d
    BY <2>5, <2>8 DEF Holds
  <2>11. h.size = Len(slots[h.node]) /\ IsDir(h.node)
    BY <2>5, <2>8 DEF Whole
  <2>12. QED
    BY <1>2, <1>3, <1>5, <2>6, <2>7, <2>9, <2>10, <2>11
<1>6. QED
  BY <1>4, <1>5

\* What is above a place is a place of a directory.
LEMMA AboveIsThere ==
  ASSUME TreeInv, Rooted, NEW f, Placing(f), NEW q \in Seq(PathName), NEW r \in Seq(PathName),
         NEW c \in Present, f[c] = q \o r
  PROVE  \E e \in Present : f[e] = q /\ (r # << >> => IsDir(e))
<1> DEFINE Bad(d, s) == f[d] = q \o s /\ ~\E e \in Present : f[e] = q /\ (s # << >> => IsDir(e))
           B == {d \in Present : \E s \in Seq(PathName) : Bad(d, s)}
<1>1. SUFFICES ASSUME B # {} PROVE FALSE
  OBVIOUS
<1>2. PICK d \in B : \A m \in B : Len(f[d]) <= Len(f[m])
  <2>1. B \subseteq Present
    OBVIOUS
  <2> HIDE DEF B
  <2>2. QED
    BY <1>1, <2>1, Shortest
<1>3. PICK s \in Seq(PathName) : Bad(d, s)
  BY <1>2
<1>4. d \in Present /\ \A m \in Present : \A t \in Seq(PathName) : Bad(m, t) => Len(f[d]) <= Len(f[m])
  BY <1>2
<1> HIDE DEF B
<1>5. s # << >>
  <2>1. SUFFICES ASSUME s = << >> PROVE FALSE
    OBVIOUS
  <2>2. q \o s = q
    BY <2>1, ConcatEmptySeq
  <2>3. QED
    BY <1>3, <1>4, <2>1, <2>2
<1>6. PICK t \in Seq(PathName), a \in PathName : s = Append(t, a)
  BY <1>5, SequenceEmptyOrAppend
<1>7. q \o t \in Seq(PathName) /\ q \o s = Append(q \o t, a) /\ q \o s # << >>
  <2>1. q \o t \in Seq(PathName)
    BY ConcatProperties
  <2>2. q \o Append(t, a) = Append(q \o t, a)
    OBVIOUS
  <2>3. Append(q \o t, a) # << >>
    <3> DEFINE z == q \o t
    <3> HIDE DEF z
    <3> DEFINE y == Append(z, a)
    <3>1. y \in Seq(PathName) /\ Len(y) = Len(z) + 1 /\ Len(z) \in Nat
      BY <2>1 DEF z
    <3> HIDE DEF y
    <3>2. Len(y) # 0
      BY <3>1
    <3>3. y # << >>
      BY <3>1, <3>2, EmptySeq
    <3>4. QED
      BY <3>3 DEF y, z
  <2>4. QED
    BY <1>6, <2>1, <2>2, <2>3
<1>8. d # RootDir
  BY <1>3, <1>7 DEF Placing
<1>9. PICK u \in Present : /\ u \in Dir /\ Holds(u, d) /\ IsDir(u)
                           /\ f[u] \in Seq(EntryName) /\ f[d] = Append(f[u], name[d])
                           /\ Len(f[d]) = Len(f[u]) + 1
  BY <1>4, <1>8, PlaceAbove
<1>10. name[d] \in EntryName
  BY <1>4, <1>8, PlaceAbove
<1>11. f[u] = q \o t
  <2> DEFINE y == f[u]
             b == name[d]
             z == q \o t
  <2>1. y \in Seq(PathName) /\ z \in Seq(PathName) /\ a \in PathName /\ b \in PathName
        /\ Append(y, b) = Append(z, a)
    BY <1>3, <1>7, <1>9, <1>10, SeqMonotonic DEF PathName
  <2> HIDE DEF y, b, z
  <2>2. y = z
    BY <2>1, AppendInjective
  <2>3. QED
    BY <2>2 DEF y, z
<1>12. ~Bad(u, t)
  <2>1. Len(f[u]) \in Nat
    BY <1>9
  <2>2. ~(Len(f[d]) <= Len(f[u]))
    BY <1>9, <2>1
  <2>3. QED
    BY <1>4, <2>2
<1>13. PICK e \in Present : f[e] = q /\ (t # << >> => IsDir(e))
  BY <1>11, <1>12
<1>14. IsDir(e)
  <2>1. CASE t = << >>
    <3>1. f[u] = q
      BY <1>11, <2>1, ConcatEmptySeq
    <3>2. e = u
      BY <1>13, <3>1, PlacesDiffer
    <3>3. QED
      BY <1>9, <3>2
  <2>2. QED
    BY <1>13, <2>1
<1>15. QED
  BY <1>3, <1>13, <1>14

\* rmDir finds a directory empty when it holds no entry.
LEMMA EmptyIs ==
  ASSUME TreeInv, NEW x \in Node
  PROVE  IsEmptyDir(x) <=> \A m \in Node : ~Holds(x, m)
<1> DEFINE s == slots[x]
           frees == {i \in DOMAIN slots[x] : slots[x][i] = Free}
<1>1. s \in Seq(SlotValue) /\ Orderly(s, kind, name) /\ DOMAIN s = 1 .. Len(s) /\ Len(s) \in Nat
  BY DEF TreeInv, TreeTypes, Dir
<1>2. IsEmptyDir(x) <=> \A i \in DOMAIN slots[x] : (\A j \in frees : i < j) => ~Named(x, i)
  BY DEF IsEmptyDir
<1>3. ASSUME NEW i \in DOMAIN s, s[i] \in Node PROVE \A j \in frees : i < j
  <2> SUFFICES ASSUME NEW j \in DOMAIN s, s[j] = Free, ~(i < j) PROVE FALSE
    OBVIOUS
  <2>1. i \in 1 .. Len(s) /\ j \in 1 .. Len(s) /\ j <= i
    BY <1>1
  <2>2. s[i] = Free
    BY <1>1, <2>1 DEF Orderly
  <2>3. QED
    BY <1>3, <2>2, MarksDiffer
<1> HIDE DEF frees
<1>4. QED
  BY <1>2, <1>3 DEF Named, Holds

\* The directory behind a path.
LEMMA ParentPath ==
  ASSUME NEW S, NEW q \in Seq(S), NEW a \in S
  PROVE  Promise!Parent(Append(q, a)) = q
<1> DEFINE y == Append(q, a)
<1>1. y \in Seq(S) /\ Len(y) = Len(q) + 1 /\ Len(q) \in Nat /\ \A i \in 1 .. Len(q) : y[i] = q[i]
  OBVIOUS
<1> HIDE DEF y
<1>2. Promise!Parent(y) = SubSeq(y, 1, Len(y) - 1)
  BY DEF Promise!Parent
<1>3. Len(y) - 1 = Len(q) /\ \A i \in 1 .. Len(q) : y[i] \in S
  BY <1>1
<1>4. /\ SubSeq(y, 1, Len(q)) \in Seq(S) /\ Len(SubSeq(y, 1, Len(q))) = Len(q)
      /\ \A i \in 1 .. Len(q) : SubSeq(y, 1, Len(q))[i] = y[i]
  BY <1>1, <1>3, SubSeqProperties
<1> DEFINE z == SubSeq(y, 1, Len(q))
<1> HIDE DEF z
<1>5. z \in Seq(S) /\ Len(z) = Len(q) /\ \A i \in 1 .. Len(z) : z[i] = q[i]
  BY <1>1, <1>4 DEF z
<1>6. z = q
  BY <1>5, SeqEqual
<1>7. QED
  BY <1>2, <1>3, <1>6 DEF y, z

\* The tree says that a directory is empty when it holds no entry.
LEMMA TreeEmpty ==
  ASSUME TreeInv, Rooted, NEW f, Placing(f), NEW x \in Node, x \in Present
  PROVE  Promise!IsEmpty(f[x]) <=> \A m \in Node : ~Holds(x, m)
<1>1. Promise!IsEmpty(f[x]) <=> \A p \in DOMAIN Tree : p # << >> => Promise!Parent(p) # f[x]
  BY DEF Promise!IsEmpty
<1>2. TreeAs(Tree, f)
  BY TreeIs
<1>3. ASSUME NEW m \in Node, Holds(x, m)
      PROVE  \E p \in DOMAIN Tree : p # << >> /\ Promise!Parent(p) = f[x]
  <2>1. m \in Present /\ m # RootDir /\ f[m] = Append(f[x], name[m]) /\ x \in Dir /\ name[m] \in EntryName
    BY <1>3, HeldIs, MarksDiffer DEF Dir, Placing
  <2>2. f[m] \in DOMAIN Tree /\ f[m] # << >>
    BY <1>2, <2>1, PlaceAbove DEF TreeAs
  <2>3. Promise!Parent(f[m]) = f[x]
    <3>1. f[x] \in Seq(EntryName)
      BY DEF Placing
    <3>2. QED
      BY <2>1, <3>1, ParentPath
  <2>4. QED
    BY <2>2, <2>3
<1>4. ASSUME NEW p \in DOMAIN Tree, p # << >>, Promise!Parent(p) = f[x]
      PROVE  \E m \in Node : Holds(x, m)
  <2>1. PICK d \in Present : p = f[d]
    BY <1>2 DEF TreeAs
  <2>2. d # RootDir
    BY <1>4, <2>1 DEF Placing
  <2>3. PICK u \in Present : /\ u \in Dir /\ Holds(u, d)
                             /\ f[u] \in Seq(EntryName) /\ f[d] = Append(f[u], name[d])
    BY <2>2, PlaceAbove
  <2>4. d \in Node /\ name[d] \in EntryName
    BY <2>2, PlaceAbove
  <2>5. f[u] = f[x]
    BY <1>4, <2>1, <2>3, <2>4, ParentPath
  <2>6. u = x
    BY <2>5, PlacesDiffer
  <2>7. QED
    BY <2>3, <2>4, <2>6
<1>5. QED
  BY <1>1, <1>3, <1>4

\* With no files the tree is the root alone.
LEMMA BareTree ==
  TreeInv /\ NoFiles /\ (\A d \in Node : slots[d] = << >>) => Rooted /\ Tree = [p \in {<< >>} |-> "dir"]
<1> SUFFICES ASSUME TreeInv, NoFiles, \A d \in Node : slots[d] = << >>
             PROVE  Rooted /\ Tree = [p \in {<< >>} |-> "dir"]
  OBVIOUS
<1>1. Present = {RootDir}
  BY DEF NoFiles, Present
<1>2. \A d \in Dir, n \in Node : ~Holds(d, n)
  <2> SUFFICES ASSUME NEW d \in Dir, NEW n \in Node, Holds(d, n) PROVE FALSE
    OBVIOUS
  <2>1. slots[d] \in Seq(SlotValue) /\ Orderly(slots[d], kind, name)
    BY DEF TreeInv, TreeTypes
  <2>2. PICK i \in 1 .. Len(slots[d]) : slots[d][i] = n
    BY <2>1 DEF Holds
  <2>3. QED
    BY <2>1, <2>2 DEF Orderly, NoFiles
<1>3. PICK f : f = [d \in Present |-> << >>]
  OBVIOUS
<1>4. Placing(f)
  <2>1. f \in [Present -> Seq(EntryName)]
    BY <1>3
  <2>2. f[RootDir] = << >>
    BY <1>1, <1>3
  <2>3. QED
    BY <1>2, <2>1, <2>2 DEF Placing
<1>5. Rooted
  BY <1>2, <1>4 DEF Rooted, NoFiles
<1>6. TreeAs(Tree, f)
  BY <1>4, <1>5, TreeIs
<1> DEFINE T == Tree
<1> HIDE DEF T
<1>7. /\ T = [p \in DOMAIN T |-> T[p]]
      /\ \A d \in Present : f[d] \in DOMAIN T /\ T[f[d]] = IF IsDir(d) THEN "dir" ELSE "file"
      /\ \A p \in DOMAIN T : \E d \in Present : p = f[d]
  BY <1>6 DEF TreeAs, T
<1>8. DOMAIN T = {<< >>} /\ T[<< >>] = "dir"
  BY <1>1, <1>3, <1>7 DEF IsDir
<1>9. T = [p \in {<< >>} |-> "dir"]
  BY <1>7, <1>8
<1>10. QED
  BY <1>5, <1>9 DEF T

\* So it is after a step.
LEMMA BareTreeAfter ==
  (TreeInv /\ NoFiles /\ (\A d \in Node : slots[d] = << >>) => Rooted /\ Tree = [p \in {<< >>} |-> "dir"])'
BY BareTree, PTL

\* So it is at the start.
LEMMA InitTree == Init => Rooted /\ Tree = [p \in {<< >>} |-> "dir"]
<1> SUFFICES ASSUME Init PROVE Rooted /\ Tree = [p \in {<< >>} |-> "dir"]
  OBVIOUS
<1>1. TreeInv
  BY SInitInv DEF SInv
<1>2. NoFiles /\ \A d \in Node : slots[d] = << >>
  BY DEF Init, NoFiles, Dir
<1>3. QED
  BY <1>1, <1>2, BareTree

\* begin() leaves it as it is.
LEMMA MountTree == ASSUME SInv, Rooted, Mount PROVE Rooted' /\ Tree' = Tree /\ Tree = [p \in {<< >>} |-> "dir"]
<1>1. TreeInv /\ TreeInv' /\ NoFiles /\ UNCHANGED kind
  BY MountInv DEF SInv, Mount
<1>2. NoFiles'
  BY <1>1 DEF NoFiles
<1>3. \A d \in Node : slots[d] = << >>
  BY <1>1 DEF Rooted, NoFiles
<1>4. \A d \in Node : slots'[d] = << >>
  <2>1. DOMAIN slots = Dir
    BY <1>1 DEF TreeInv, TreeTypes
  <2>2. slots' = IF mounted' /\ ~mounted THEN [slots EXCEPT ![RootDir] = NewRoot(root'.size)] ELSE slots
    BY DEF Mount
  <2>3. \A d \in Node : slots'[d] = slots[d]
    BY <2>1, <2>2, MarksDiffer DEF Dir
  <2>4. QED
    BY <1>3, <2>3
<1>5. Tree = [p \in {<< >>} |-> "dir"]
  BY <1>1, <1>3, BareTree
<1>6. Rooted' /\ Tree' = [p \in {<< >>} |-> "dir"]
  BY <1>1, <1>2, <1>4, BareTreeAfter
<1>7. QED
  BY <1>5, <1>6

\* And so does a step that leaves the directories.
LEMMA SameTree ==
  ASSUME UNCHANGED <<kind, name, slots>>
  PROVE  Tree' = Tree /\ Present' = Present /\ (Rooted => Rooted')
<1>1. kind' = kind /\ name' = name /\ slots' = slots
  OBVIOUS
<1>2. Present' = Present /\ \A d \in Dir, n \in Node : Holds(d, n)' <=> Holds(d, n)
  BY <1>1 DEF Present, Holds
<1>3. Tree' = Tree
  BY <1>1 DEF Tree, Placed, Present, Holds, IsDir
<1>4. \A f : Placing(f) => Placing(f)'
  BY <1>1, <1>2 DEF Placing
<1>5. Rooted => Rooted'
  BY <1>1, <1>2, <1>4 DEF Rooted
<1>6. QED
  BY <1>2, <1>3, <1>5

-----------------------------------------------------------------------------
(* Paths of the tree. *)

\* Putting paths together.
LEMMA Together ==
  ASSUME NEW S, NEW p \in Seq(S), NEW a \in S, NEW r \in Seq(S)
  PROVE  /\ p \o (<<a>> \o r) = Append(p, a) \o r
         /\ p \o <<a>> = Append(p, a) /\ p \o << >> = p /\ << >> \o p = p
         /\ Append(p, a) \in Seq(S) /\ Append(p, a) \o r \in Seq(S) /\ p \o r \in Seq(S)
         /\ Append(p, a) # << >>
<1>1. <<a>> \in Seq(S) /\ << >> \in Seq(S)
  OBVIOUS
<1>2. p \o <<a>> = Append(p, a) /\ Append(p, a) \in Seq(S) /\ Len(Append(p, a)) = Len(p) + 1 /\ Len(p) \in Nat
  OBVIOUS
<1>3. p \o (<<a>> \o r) = (p \o <<a>>) \o r
  BY <1>1, ConcatAssociative
<1>4. p \o << >> = p /\ << >> \o p = p
  BY ConcatEmptySeq
<1> DEFINE y == Append(p, a)
<1> HIDE DEF y
<1>5. y \o r \in Seq(S) /\ p \o r \in Seq(S)
  BY <1>2, ConcatProperties DEF y
<1>6. y # << >>
  BY <1>2, EmptySeq DEF y
<1>7. QED
  BY <1>2, <1>3, <1>4, <1>5, <1>6 DEF y

\* What the tree says of the place of a file or directory.
LEMMA TreeAt ==
  ASSUME TreeInv, Rooted, NEW f, Placing(f), NEW d \in Present
  PROVE  /\ f[d] \in DOMAIN Tree /\ f[d] \in Seq(EntryName) /\ f[d] \in Seq(PathName)
         /\ Promise!IsDir(f[d]) <=> IsDir(d)
         /\ Promise!IsFile(f[d]) <=> ~IsDir(d)
<1>1. f[d] \in DOMAIN Tree /\ Tree[f[d]] = IF IsDir(d) THEN "dir" ELSE "file"
  BY TreeIs DEF TreeAs
<1>2. f[d] \in Seq(EntryName)
  BY DEF Placing
<1>3. f[d] \in Seq(PathName)
  BY <1>2, SeqMonotonic DEF PathName
<1> DEFINE T == Tree
<1>4. /\ Promise!IsDir(f[d]) <=> f[d] \in DOMAIN T /\ T[f[d]] = "dir"
      /\ Promise!IsFile(f[d]) <=> f[d] \in DOMAIN T /\ T[f[d]] = "file"
  BY DEF Promise!IsDir, Promise!IsFile
<1>5. QED
  BY <1>1, <1>2, <1>3, <1>4

\* Below a path that is missing every path is missing.
LEMMA MissingPath ==
  ASSUME TreeInv, Rooted, NEW f, Placing(f), NEW q \in Seq(PathName), q \notin DOMAIN Tree,
         NEW r \in Seq(PathName)
  PROVE  q \o r \notin DOMAIN Tree /\ (r # << >> => ~Promise!IsDir(Promise!Parent(q \o r)))
<1> DEFINE T == Tree
<1>1. ASSUME NEW s \in Seq(PathName) PROVE q \o s \notin DOMAIN T
  <2>1. SUFFICES ASSUME q \o s \in DOMAIN T PROVE FALSE
    OBVIOUS
  <2>2. PICK c \in Present : f[c] = q \o s
    BY <2>1, TreeIs DEF TreeAs
  <2>3. PICK e \in Present : f[e] = q
    BY <2>2, AboveIsThere
  <2>4. QED
    BY <2>3, TreeAt
<1>2. ASSUME r # << >> PROVE ~Promise!IsDir(Promise!Parent(q \o r))
  <2>1. PICK t \in Seq(PathName), a \in PathName : r = Append(t, a)
    BY <1>2, SequenceEmptyOrAppend
  <2>2. q \o t \in Seq(PathName)
    BY ConcatProperties
  <2>3. q \o r = Append(q \o t, a)
    BY <2>1
  <2>4. Promise!Parent(q \o r) = q \o t
    BY <2>2, <2>3, ParentPath
  <2>5. q \o t \notin DOMAIN T
    BY <1>1
  <2> DEFINE z == Promise!Parent(q \o r)
  <2>6. Promise!IsDir(z) => z \in DOMAIN T
    BY DEF Promise!IsDir
  <2>7. QED
    BY <2>4, <2>5, <2>6
<1>3. QED
  BY <1>1, <1>2

\* Below a file, and through a text that is no name, nothing can be.
LEMMA HinderedPath ==
  ASSUME TreeInv, Rooted, NEW f, Placing(f), NEW d \in Present, NEW a \in PathName,
         NEW r \in Seq(PathName), a = NoName \/ ~IsDir(d) \/ (d = RootDir /\ a = name[Other])
  PROVE  Promise!Hindered(Append(f[d], a) \o r)
<1>1. f[d] \in Seq(PathName)
  BY TreeAt
<1> DEFINE q == f[d]
           y == Append(q, a)
           z == y \o r
           i == Len(q) + 1
<1>2. /\ y \in Seq(PathName) /\ Len(y) = Len(q) + 1 /\ Len(q) \in Nat /\ y[Len(q) + 1] = a
      /\ \A j \in 1 .. Len(q) : y[j] = q[j]
  <2> HIDE DEF q
  <2>1. q \in Seq(PathName)
    BY <1>1 DEF q
  <2>2. QED
    BY <2>1
<1> HIDE DEF y
<1>3. z \in Seq(PathName) /\ Len(z) = Len(y) + Len(r) /\ Len(r) \in Nat /\ \A j \in 1 .. Len(y) : z[j] = y[j]
  <2>1. /\ z \in Seq(PathName) /\ Len(z) = Len(y) + Len(r)
        /\ \A j \in 1 .. Len(y) + Len(r) : z[j] = IF j <= Len(y) THEN y[j] ELSE r[j - Len(y)]
    BY <1>2, ConcatProperties
  <2> HIDE DEF z
  <2>2. Len(r) \in Nat /\ Len(y) \in Nat
    BY <1>2
  <2>3. QED
    BY <2>1, <2>2
<1>4. i \in 1 .. Len(z) /\ z[i] = a /\ i - 1 = Len(q)
  <2> HIDE DEF z, q
  <2>1. QED
    BY <1>2, <1>3
<1>5. SubSeq(z, 1, Len(q)) = q
  <2> HIDE DEF z, q
  <2>1. /\ SubSeq(z, 1, Len(q)) \in Seq(PathName) /\ Len(SubSeq(z, 1, Len(q))) = Len(q)
        /\ \A j \in 1 .. Len(q) : SubSeq(z, 1, Len(q))[j] = z[j]
    <3>1. \A j \in 1 .. Len(q) : z[j] \in PathName
      BY <1>2, <1>3
    <3>2. QED
      BY <1>2, <1>3, <3>1, SubSeqProperties
  <2> DEFINE v == SubSeq(z, 1, Len(q))
  <2> HIDE DEF v
  <2>2. v \in Seq(PathName) /\ q \in Seq(PathName) /\ Len(v) = Len(q) /\ \A j \in 1 .. Len(v) : v[j] = q[j]
    BY <1>1, <1>2, <1>3, <2>1 DEF v, q
  <2>3. v = q
    BY <2>2, SeqEqual
  <2>4. QED
    BY <2>3 DEF v
<1>6. z[i] \notin EntryName \/ SubSeq(z, 1, i) = <<name[Other]>> \/ Promise!IsFile(SubSeq(z, 1, i - 1))
  <2>1. CASE a = NoName
    <3>1. NoName \notin EntryName
      BY DEF NoName, EntryName
    <3>2. QED
      BY <1>4, <2>1, <3>1
  <2>2. CASE ~IsDir(d)
    <3>1. Promise!IsFile(q)
      BY <2>2, TreeAt
    <3>2. SubSeq(z, 1, i - 1) = q
      BY <1>4, <1>5
    <3> DEFINE v == SubSeq(z, 1, i - 1)
    <3> HIDE DEF v
    <3>3. v = q
      BY <3>2 DEF v
    <3>4. Promise!IsFile(v)
      BY <3>1, <3>3
    <3>5. QED
      BY <3>4 DEF v
  <2>3. CASE d = RootDir /\ a = name[Other]
    <3>1. q = << >>
      BY <2>3 DEF Placing
    <3>2. Len(q) = 0 /\ i = 1
      BY <3>1
    <3> HIDE DEF z, i, q
    <3>3. Len(z) >= 1 /\ z[1] = a /\ Len(z) \in Nat
      BY <1>3, <1>4, <3>2
    <3>4. SubSeq(z, 1, 1) = <<a>>
      <4>1. /\ SubSeq(z, 1, 1) \in Seq(PathName) /\ Len(SubSeq(z, 1, 1)) = 1
            /\ \A j \in 1 .. 1 : SubSeq(z, 1, 1)[j] = z[j]
        BY <1>3, <3>3, SubSeqProperties
      <4> DEFINE v == SubSeq(z, 1, 1)
                 w == <<a>>
      <4> HIDE DEF v
      <4>2. w \in Seq(PathName) /\ Len(w) = 1 /\ w[1] = a
        OBVIOUS
      <4> HIDE DEF w
      <4>3. v \in Seq(PathName) /\ Len(v) = Len(w) /\ \A j \in 1 .. Len(v) : v[j] = w[j]
        BY <3>3, <4>1, <4>2 DEF v
      <4>4. v = w
        BY <4>2, <4>3, SeqEqual
      <4>5. QED
        BY <4>4 DEF v, w
    <3>5. QED
      BY <2>3, <3>2, <3>4
  <2>4. QED
    BY <2>1, <2>2, <2>3
<1> HIDE DEF z, i
<1>7. Promise!Hindered(z)
  BY <1>4, <1>6 DEF Promise!Hindered, Promise!Prefix
<1>8. QED
  BY <1>7 DEF z, y

-----------------------------------------------------------------------------
(* What a call means, while it goes down its path. *)

\* The names that are left of the path of a walk behind the component it is at.
RestOfWalk == IF call.more THEN Names83(WalkFrom(call.path)[call.at]) ELSE << >>

\* And those before open, from where getParentDir is.
RestOfOpen == Names83(Trim(OpenFrom(call.path)[call.at]))

\* A FALSE is true, or excused.
Excused == Promise!Denied \/ trouble

\* The walk stands at the directory of its component, and has passed only
\* components that are there.
WalkMeans(f) ==
  /\ call.meant.op = call.op /\ parent.node \in Present
  /\ call.meant.path = Append(f[parent.node], This) \o RestOfWalk
  /\ pc # "descend" => pc = call.op
  /\ pc = "descend" => call.more /\ (call.op \in {"exists", "mkdir"} => Here # NoNode)

\* getParentDir stands in the directory it has come to.
ParentsMean(f) ==
  /\ parent.node \in Present
  /\ call.meant.op = MeantOp(call.op, call.path)
  /\ call.meant.path = f[parent.node] \o RestOfOpen
  /\ call.path = << >> \/ call.at <= Len(call.path)

\* open has the directory, or an object that is not open.
OpenMeans(f) ==
  IF parent.node = NoNode THEN Excused
  ELSE /\ parent.node \in Present
       /\ pc = "same" => call.meant.op = "openRead" /\ call.meant.path = f[parent.node]
       /\ pc = "open" => call.meant.op = call.op /\ call.meant.path = Append(f[parent.node], This)

\* At every place of a call: f is where the directories are.
MeantAt(f) ==
  /\ pc = "idle" => call = NoCall
  /\ pc # "return" => ~done
  /\ pc # "idle" => call.meant.op \in Promise!Ops /\ call.meant.path \in Seq(PathName)
  /\ Walking => WalkMeans(f)
  /\ Opening => call.op \in {"openRead", "openWrite"}
  /\ pc = "parents" => ParentsMean(f)
  /\ pc = "lost" => parent.node = NoNode /\ Excused
  /\ pc \in {"same", "open"} => OpenMeans(f)
  /\ pc = "return" => IF reply THEN Promise!Confirmed ELSE Excused

\* The tree is one, and the call in progress means what its path says.
Meaning == Rooted /\ \E f : Placing(f) /\ MeantAt(f)

\* What the promise asks of a TRUE, call by call.
LEMMA ConfirmedIs ==
  call.meant.op \in Promise!Ops =>
    (Promise!Confirmed <=>
       /\ call.meant.op \in {"exists", "openRead", "mkdir"} => call.meant.path \in DOMAIN Tree
       /\ call.meant.op = "openWrite" => Promise!IsFile(call.meant.path)
       /\ call.meant.op \in {"remove", "rmdir"} => done)
BY DEF Promise!Ops, Promise!Confirmed

\* And of a FALSE.
LEMMA DeniedIs ==
  call.meant.op \in Promise!Ops =>
    (Promise!Denied <=>
       /\ call.meant.op \in {"exists", "openRead"} => call.meant.path \notin DOMAIN Tree
       /\ call.meant.op = "mkdir" => Promise!Hindered(call.meant.path)
       /\ call.meant.op = "openWrite" =>
            \/ Promise!Hindered(call.meant.path) \/ Promise!IsDir(call.meant.path)
            \/ ~Promise!IsDir(Promise!Parent(call.meant.path))
       /\ call.meant.op = "remove" => ~done /\ ~Promise!IsFile(call.meant.path)
       /\ call.meant.op = "rmdir" =>
            ~done /\ ~(Promise!IsDir(call.meant.path) /\ Promise!IsEmpty(call.meant.path)))
BY DEF Promise!Ops, Promise!Denied

\* So it asks after a step.
LEMMA ConfirmedIsAfter ==
  (call.meant.op \in Promise!Ops =>
    (Promise!Confirmed <=>
       /\ call.meant.op \in {"exists", "openRead", "mkdir"} => call.meant.path \in DOMAIN Tree
       /\ call.meant.op = "openWrite" => Promise!IsFile(call.meant.path)
       /\ call.meant.op \in {"remove", "rmdir"} => done))'
BY ConfirmedIs, PTL

\* And so of a FALSE.
LEMMA DeniedIsAfter ==
  (call.meant.op \in Promise!Ops =>
    (Promise!Denied <=>
       /\ call.meant.op \in {"exists", "openRead"} => call.meant.path \notin DOMAIN Tree
       /\ call.meant.op = "mkdir" => Promise!Hindered(call.meant.path)
       /\ call.meant.op = "openWrite" =>
            \/ Promise!Hindered(call.meant.path) \/ Promise!IsDir(call.meant.path)
            \/ ~Promise!IsDir(Promise!Parent(call.meant.path))
       /\ call.meant.op = "remove" => ~done /\ ~Promise!IsFile(call.meant.path)
       /\ call.meant.op = "rmdir" =>
            ~done /\ ~(Promise!IsDir(call.meant.path) /\ Promise!IsEmpty(call.meant.path))))'
BY DeniedIs, PTL

\* What is true of the tree stays so while the tree and the call do.
LEMMA AnswerStays ==
  ASSUME Tree' = Tree, name'[Other] = name[Other], call'.meant = call.meant, done' = done, call.meant.op \in Promise!Ops
  PROVE  (Promise!Confirmed => Promise!Confirmed') /\ (Promise!Denied => Promise!Denied')
<1> DEFINE T == Tree
           m == call.meant
<1>1. T' = T /\ m' = m /\ done' = done
  OBVIOUS
<1>2. Promise!Confirmed => Promise!Confirmed'
  BY <1>1 DEF Promise!Confirmed, Promise!IsFile
<1>3. Promise!Denied => Promise!Denied'
  <2> HIDE DEF T, m
  <2>1. \A p : (Promise!IsFile(p) <=> Promise!IsFile(p)') /\ (Promise!IsDir(p) <=> Promise!IsDir(p)')
    BY <1>1 DEF Promise!IsFile, Promise!IsDir, T
  <2>2. \A p : Promise!IsEmpty(p) <=> Promise!IsEmpty(p)'
    BY <1>1 DEF Promise!IsEmpty, T
  <2>3. \A p : Promise!Hindered(p) <=> Promise!Hindered(p)'
    BY <2>1 DEF Promise!Hindered, Promise!Prefix
  <2>4. QED
    BY <1>1, <2>1, <2>2, <2>3, DeniedIs, DeniedIsAfter DEF T, m
<1>4. QED
  BY <1>2, <1>3

\* A step within a call that leaves the tree is none of the promise, or its card
\* refuses something.
LEMMA Stutters ==
  ASSUME Tree' = Tree, name'[Other] = name[Other], call'.meant = call.meant, done' = done, pc # "idle", pc' # "idle",
         trouble \in BOOLEAN, trouble' \in BOOLEAN, trouble => trouble', call.meant.op \in Promise!Ops
  PROVE  [Promise!Next]_(Promise!vars)
<1> DEFINE T == Tree
           m == call.meant
<1>1. T' = T /\ m' = m /\ done' = done /\ m.op # "none"
  BY DEF Promise!Ops
<1>2. (reply /\ pc = "idle") = FALSE /\ (reply /\ pc = "idle")' = FALSE
  OBVIOUS
<1>3. (trouble /\ pc # "idle") = trouble /\ (trouble /\ pc # "idle")' = trouble'
  OBVIOUS
<1>4. CASE trouble' = trouble
  <2>1. UNCHANGED Promise!vars
    BY <1>1, <1>2, <1>3, <1>4 DEF Promise!vars
  <2>2. QED
    BY <2>1
<1>5. CASE trouble' # trouble
  <2>1. ~trouble /\ trouble'
    BY <1>5
  <2>2. Promise!Trouble
    BY <1>1, <1>2, <1>3, <2>1 DEF Promise!Trouble
  <2>3. QED
    BY <2>2 DEF Promise!Next
<1>6. QED
  BY <1>4, <1>5

-----------------------------------------------------------------------------
(* The names that are left of a path. *)

\* The names of a walk, one by one.
LEMMA RestOfWalkIs ==
  ASSUME NEW path \in Text, NEW at \in 1 .. Len(path) + 1
  PROVE  /\ Names83(WalkFrom(path)[at]) \in Seq(PathName)
         /\ LET c == NextComponent(path, at)
            IN Names83(WalkFrom(path)[at]) =
                 IF c.more THEN <<make83Name(c.text)>> \o Names83(WalkFrom(path)[c.next])
                 ELSE <<make83Name(c.text)>>
<1> DEFINE c == NextComponent(path, at)
           w == WalkFrom(path)[at]
           v == WalkFrom(path)[c.next]
<1>1. c.text \in Text /\ c.next \in 1 .. Len(path) + 1
  BY ComponentIsText
<1>2. w \in Seq(Text) /\ w = IF c.more THEN <<c.text>> \o v ELSE <<c.text>>
  BY WalkIs
<1>3. v \in Seq(Text)
  BY <1>1, WalkIs
<1> DEFINE t == c.text
<1> HIDE DEF w, v, c
<1>4. Names83(w) \in Seq(PathName)
  <2>1. Names83(w) \in Seq(ShortName \cup {NoName})
    BY <1>1, <1>2, NamesAre
  <2>2. QED
    BY <2>1, ShortIsName, SeqMonotonic
<1>5. Names83(<<t>> \o v) = <<make83Name(t)>> \o Names83(v) /\ Names83(<<t>>) = <<make83Name(t)>>
  <2> HIDE DEF t
  <2>1. QED
    BY <1>1, <1>3, NamesAre DEF t
<1>6. Names83(w) = IF c.more THEN <<make83Name(t)>> \o Names83(v) ELSE <<make83Name(t)>>
  BY <1>2, <1>5
<1>7. QED
  BY <1>4, <1>6 DEF w, v, c

\* And of open; when it has come to the end of the path one is left, unless a
\* slash ends it.
LEMMA RestOfOpenIs ==
  ASSUME NEW path \in Text, NEW at \in 1 .. Len(path) + 1
  PROVE  /\ Names83(Trim(OpenFrom(path)[at])) \in Seq(PathName)
         /\ LET d == NextDirectory(path, at)
            IN /\ d.more => Names83(Trim(OpenFrom(path)[at])) =
                              <<make83Name(d.text)>> \o Names83(Trim(OpenFrom(path)[d.next]))
               /\ ~d.more => Names83(Trim(OpenFrom(path)[at])) =
                               IF d.rest = << >> THEN << >> ELSE <<make83Name(d.rest)>>
         /\ at <= Len(path) /\ Last(path) # Slash => Names83(Trim(OpenFrom(path)[at])) # << >>
<1> DEFINE d == NextDirectory(path, at)
           w == OpenFrom(path)[at]
           v == OpenFrom(path)[d.next]
           t == d.text
           r == d.rest
<1>1. t \in Text /\ d.next \in 1 .. Len(path) + 1 /\ r \in Text
  BY DirectoryIsText
<1>2. w \in Seq(Text) /\ w # << >> /\ w = IF d.more THEN <<t>> \o v ELSE <<r>>
  BY OpenIs
<1>3. v \in Seq(Text) /\ v # << >>
  BY <1>1, OpenIs
<1>4. at <= Len(path) /\ Last(path) # Slash /\ ~d.more => r # << >>
  <2>1. SUFFICES ASSUME at <= Len(path), Last(path) # Slash, ~d.more PROVE r # << >>
    OBVIOUS
  <2>2. at \in 1 .. Len(path)
    BY <2>1 DEF Text
  <2>3. QED
    BY <2>1, <2>2, NothingIsLeft
<1> HIDE DEF w, v, d
<1> HIDE DEF t, r
<1>5. /\ Trim(w) \in Seq(Text) /\ Trim(v) \in Seq(Text)
      /\ Trim(<<t>> \o v) = <<t>> \o Trim(v)
      /\ Trim(<<r>>) = IF r = << >> THEN << >> ELSE <<r>>
  BY <1>1, <1>2, <1>3, TrimIs
<1>6. Names83(Trim(w)) \in Seq(PathName)
  <2>1. Names83(Trim(w)) \in Seq(ShortName \cup {NoName})
    BY <1>1, <1>5, NamesAre
  <2>2. QED
    BY <2>1, ShortIsName, SeqMonotonic
<1>7. d.more => Names83(Trim(w)) = <<make83Name(t)>> \o Names83(Trim(v))
  BY <1>1, <1>2, <1>5, NamesAre
<1>8. ~d.more => Names83(Trim(w)) = IF r = << >> THEN << >> ELSE <<make83Name(r)>>
  <2>1. Names83(<<r>>) = <<make83Name(r)>>
    BY <1>1, <1>5, NamesAre
  <2>2. << >> \in Seq(Text)
    OBVIOUS
  <2>3. Names83(<< >>) = << >>
    BY <1>1, <2>2, NamesAre
  <2>4. QED
    BY <1>2, <1>5, <2>1, <2>3
<1>9. Trim(w) = << >> => ~d.more /\ r = << >>
  <2>1. <<t>> \o Trim(v) # << >>
    <3> DEFINE u == Trim(v)
    <3> HIDE DEF u
    <3>1. <<t>> \in Seq(Text) /\ u \in Seq(Text)
      BY <1>1, <1>5 DEF u
    <3> DEFINE z == <<t>> \o u
    <3>2. z \in Seq(Text) /\ Len(z) = Len(<<t>>) + Len(u)
      BY <3>1, ConcatProperties
    <3>3. Len(<<t>>) = 1 /\ Len(u) \in Nat
      BY <3>1
    <3> HIDE DEF z
    <3>4. z # << >>
      BY <3>2, <3>3, EmptySeq
    <3>5. QED
      BY <3>4 DEF z, u
  <2>2. <<r>> # << >>
    OBVIOUS
  <2>3. QED
    BY <1>2, <1>5, <2>1, <2>2
<1>10. at <= Len(path) /\ Last(path) # Slash => Names83(Trim(w)) # << >>
  BY <1>1, <1>4, <1>5, <1>9, NamesAre
<1>11. QED
  BY <1>6, <1>7, <1>8, <1>10 DEF w, v, d, t, r

\* What a call means is an operation of the promise, on a path of names.
LEMMA MeantIsTyped ==
  ASSUME NEW op \in Walks \cup {"openRead", "openWrite"}, NEW path \in Text
  PROVE  MeantOp(op, path) \in Promise!Ops /\ Meant(op, path) \in Seq(PathName)
<1>1. MeantOp(op, path) \in Promise!Ops
  BY DEF MeantOp, Promise!Ops, Walks
<1>2. 1 \in 1 .. Len(path) + 1
  BY DEF Text
<1>3. QED
  BY <1>1, <1>2, MeantIs, RestOfWalkIs, RestOfOpenIs

-----------------------------------------------------------------------------
(* Steps between the calls. *)

\* A step that leaves the directories leaves the places.
LEMMA PlacesStay ==
  ASSUME UNCHANGED treeVars, NEW f, Placing(f), Rooted
  PROVE  Placing(f)' /\ Rooted' /\ Tree' = Tree /\ Present' = Present
         /\ name'[Other] = name[Other]
<1>1. Rooted' /\ Tree' = Tree /\ Present' = Present
  BY SameTree DEF treeVars
<1>2. name' = name /\ slots' = slots
  BY DEF treeVars
<1>3. \A d \in Dir, n \in Node : Holds(d, n)' <=> Holds(d, n)
  BY <1>2 DEF Holds
<1>4. QED
  BY <1>1, <1>2, <1>3 DEF Placing

\* Between the calls nothing is meant.
LEMMA ToIdle ==
  ASSUME pc' = "idle", call' = NoCall, ~done', Rooted'
  PROVE  Meaning'
<1>1. PICK g : Placing(g)'
  BY DEF Rooted
<1>2. ~Walking' /\ ~Opening'
  BY DEF Walking, Walks, Opening
<1>3. MeantAt(g)'
  BY <1>2 DEF MeantAt
<1>4. QED
  BY <1>1, <1>3 DEF Meaning

\* Nothing is meant any more when a call has its answer.
LEMMA ToReturn ==
  ASSUME NEW f, MeantAt(f), pc # "idle", pc' = "return", call' = call, Rooted',
         IF reply' THEN Promise!Confirmed' ELSE Excused'
  PROVE  Meaning'
<1>1. PICK g : Placing(g)'
  BY DEF Rooted
<1>2. ~Walking' /\ ~Opening'
  BY DEF Walking, Walks, Opening
<1>3. call'.meant.op \in Promise!Ops /\ call'.meant.path \in Seq(PathName)
  BY DEF MeantAt
<1>4. MeantAt(g)'
  BY <1>2, <1>3 DEF MeantAt
<1>5. QED
  BY <1>1, <1>4 DEF Meaning

\* Between the calls the promise has no step to take.
LEMMA IdleStutters ==
  ASSUME Tree' = Tree, name'[Other] = name[Other], pc = "idle", pc' = "idle", call' = call, done' = done, reply' = reply
  PROVE  UNCHANGED Promise!vars
<1>1. (reply /\ pc = "idle")' = (reply /\ pc = "idle")
  OBVIOUS
<1>2. (trouble /\ pc # "idle") = FALSE /\ (trouble /\ pc # "idle")' = FALSE
  OBVIOUS
<1>3. call'.meant = call.meant
  OBVIOUS
<1> DEFINE T == Tree
<1>4. T' = T
  OBVIOUS
<1>5. QED
  BY <1>1, <1>2, <1>3, <1>4 DEF Promise!vars

\* begin() is none of the promise.
LEMMA MountMeans ==
  ASSUME SInv, Meaning, Mount
  PROVE  Meaning' /\ [Promise!Next]_(Promise!vars)
<1>1. pc = "idle" /\ UNCHANGED callVars
  BY DEF Mount
<1>2. pc' = "idle" /\ call' = call /\ done' = done /\ reply' = reply
  BY <1>1 DEF callVars
<1>3. call = NoCall /\ ~done
  BY <1>1 DEF Meaning, MeantAt
<1>4. Rooted' /\ Tree' = Tree /\ Tree = [p \in {<< >>} |-> "dir"]
  BY MountTree DEF Meaning
<1>5. Meaning'
  BY <1>2, <1>3, <1>4, ToIdle
<1>6. CASE name'[Other] = name[Other]
  <2>1. UNCHANGED Promise!vars
    BY <1>1, <1>2, <1>4, <1>6, IdleStutters
  <2>2. QED
    BY <1>5, <2>1
<1>7. CASE name'[Other] # name[Other]
  <2>1. name'[Other] \in EntryName \cup {NoName}
    <3>1. TreeInv'
      BY MountInv DEF SInv
    <3>2. name'[Other] \in ShortName \cup {NoName}
      BY <3>1 DEF TreeInv, TreeTypes, Entry
    <3>3. QED
      BY <3>2, ShortIsName DEF PathName
  <2>2. call.meant.op = "none" /\ call'.meant = call.meant
    BY <1>2, <1>3 DEF NoCall
  <2>3. (reply /\ pc = "idle")' = (reply /\ pc = "idle")
    BY <1>1, <1>2
  <2>4. (trouble /\ pc # "idle") = FALSE /\ (trouble /\ pc # "idle")' = FALSE
    BY <1>1, <1>2
  <2> DEFINE T == Tree
  <2>5. T' = T /\ T = [p \in {<< >>} |-> "dir"]
    BY <1>4
  <2> HIDE DEF T
  <2>6. Promise!Exchange
    BY <1>2, <2>1, <2>2, <2>3, <2>4, <2>5 DEF Promise!Exchange, T
  <2>7. QED
    BY <1>5, <2>6 DEF Promise!Next
<1>8. QED
  BY <1>6, <1>7

\* Nor is a listing.
LEMMA ListMeans ==
  ASSUME Meaning, pc = "idle", UNCHANGED <<kind, name, slots, callVars>>
  PROVE  Meaning' /\ [Promise!Next]_(Promise!vars)
<1>1. pc' = "idle" /\ call' = call /\ done' = done /\ reply' = reply
  BY DEF callVars
<1>2. call = NoCall /\ ~done
  BY DEF Meaning, MeantAt
<1>3. Rooted' /\ Tree' = Tree /\ name'[Other] = name[Other]
  BY SameTree DEF Meaning
<1>4. Meaning'
  BY <1>1, <1>2, <1>3, ToIdle
<1>5. UNCHANGED Promise!vars
  BY <1>1, <1>3, IdleStutters
<1>6. QED
  BY <1>4, <1>5

\* A call that returns gives the answer the promise asks for.
LEMMA ReturnMeans ==
  ASSUME SInv, Meaning, Return
  PROVE  Meaning' /\ [Promise!Next]_(Promise!vars)
<1>1. /\ pc = "return" /\ pc' = "idle" /\ call' = NoCall /\ done' = FALSE /\ reply' = reply
      /\ UNCHANGED <<volumeVars, treeVars>>
  BY DEF Return
<1>2. Rooted' /\ Tree' = Tree /\ name'[Other] = name[Other]
  BY <1>1, SameTree DEF Meaning, treeVars
<1>3. Meaning'
  BY <1>1, <1>2, ToIdle
<1>4. /\ IF reply THEN Promise!Confirmed ELSE Excused
      /\ call.meant.op \in Promise!Ops
  BY <1>1 DEF Meaning, MeantAt
<1>5. reply \in BOOLEAN /\ trouble \in BOOLEAN
  BY DEF SInv, CallInv, VolTypes
<1>6. (reply /\ pc = "idle")' = reply
  BY <1>1, <1>5
<1>7. (trouble /\ pc # "idle") = trouble /\ (trouble /\ pc # "idle")' = FALSE
  BY <1>1, <1>5
<1>8. call.meant.op # "none" /\ call'.meant = Promise!NoCall
  BY <1>1, <1>4 DEF Promise!Ops, Promise!NoCall, NoCall
<1> DEFINE T == Tree
<1>9. T' = T
  BY <1>2
<1>10. Promise!Answer(reply)
  BY <1>1, <1>2, <1>4, <1>6, <1>7, <1>8, <1>9 DEF Promise!Answer, Excused
<1>11. Promise!Next
  BY <1>5, <1>10 DEF Promise!Next
<1>12. QED
  BY <1>3, <1>11

-----------------------------------------------------------------------------
(* A call begins. *)

\* The tree a call meets is that of the promise, and so is what it asks.
LEMMA AskMeans ==
  ASSUME SInv, Meaning, NEW op \in Walks \cup {"openRead", "openWrite"}, NEW path \in Text, Ask(op, path)
  PROVE  Meaning' /\ [Promise!Next]_(Promise!vars)
<1> DEFINE m == [op |-> MeantOp(op, path), path |-> Meant(op, path)]
           c == NextComponent(path, 1)
<1>1. /\ pc = "idle" /\ UNCHANGED <<root, treeVars>> /\ done' = done /\ trouble' = FALSE /\ reply' = FALSE
  BY DEF Ask
<1>2. PICK f : Placing(f) /\ MeantAt(f)
  BY DEF Meaning
<1>3. call = NoCall /\ ~done
  BY <1>1, <1>2 DEF MeantAt
<1>4. Placing(f)' /\ Rooted' /\ Tree' = Tree /\ Present' = Present /\ name'[Other] = name[Other]
  BY <1>1, <1>2, PlacesStay DEF Meaning
<1>5. 1 \in 1 .. Len(path) + 1 /\ Len(path) \in Nat
  BY DEF Text
<1>6. m.op \in Promise!Ops /\ m.path \in Seq(PathName) /\ m.op = MeantOp(op, path) /\ m.path = Meant(op, path)
  BY MeantIsTyped
<1>7. f[RootDir] = << >> /\ RootDir \in Present'
  BY <1>2 DEF Placing, Present
<1>8. Handle("root").node = RootDir /\ Handle("root") \in HandleType
  BY HandlesAre DEF Handle
<1>9. Meaning' /\ call'.meant = m /\ pc' # "idle"
  <2>1. CASE op \in Walks
    <3>1. pc' = op /\ sub' = sub
      BY <2>1 DEF Ask
    <3>2. call' = [[NoCall EXCEPT !.op = op, !.path = path, !.meant = m]
                    EXCEPT !.text = c.text, !.at = c.next, !.more = c.more]
      BY <2>1 DEF Ask
    <3>3. Meant(op, path) = Names83(WalkFrom(path)[1])
      BY <2>1, MeantIs
    <3>4. Names83(WalkFrom(path)[1]) =
            IF c.more THEN <<make83Name(c.text)>> \o Names83(WalkFrom(path)[c.next])
            ELSE <<make83Name(c.text)>>
      BY <1>5, RestOfWalkIs
    <3>5. c.text \in Text /\ c.next \in 1 .. Len(path) + 1
      BY <1>5, ComponentIsText
    <3> HIDE DEF c, m
    <3>6. /\ call'.op = op /\ call'.path = path /\ call'.at = c.next /\ call'.text = c.text
          /\ call'.more = c.more /\ call'.parent = "root" /\ call'.child = "sub1" /\ call'.meant = m
      BY <3>2 DEF NoCall
    <3>7. Walking' /\ ~Opening' /\ pc' # "idle" /\ pc' # "return" /\ pc' # "descend"
      BY <2>1, <3>1 DEF Walking, Opening, Walks
    <3>8. parent'.node = RootDir
      <4>1. parent' = Handle("root")
        BY <1>1, <3>6 DEF parent, Handle
      <4>2. QED
        BY <1>8, <4>1
    <3>9. This' = make83Name(c.text)
      BY <3>6 DEF This
    <3>10. RestOfWalk' = IF c.more THEN Names83(WalkFrom(path)[c.next]) ELSE << >>
      BY <3>6 DEF RestOfWalk
    <3>11. m.path = Append(f[parent'.node], This') \o RestOfWalk'
      <4> DEFINE a == make83Name(c.text)
                 r == Names83(WalkFrom(path)[c.next])
      <4>1. a \in PathName
        BY <3>5, MadeIsShort, ShortIsName DEF Text
      <4>2. r \in Seq(PathName)
        BY <3>5, RestOfWalkIs
      <4>3. m.path = IF c.more THEN <<a>> \o r ELSE <<a>>
        BY <1>6, <3>3, <3>4
      <4> HIDE DEF a, r
      <4>4. << >> \in Seq(PathName)
        OBVIOUS
      <4>5. << >> \o (<<a>> \o r) = Append(<< >>, a) \o r /\ << >> \o (<<a>> \o r) = <<a>> \o r
        <5>1. <<a>> \in Seq(PathName)
          BY <4>1
        <5>2. <<a>> \o r \in Seq(PathName)
          BY <4>2, <5>1, ConcatProperties
        <5> DEFINE z == <<a>> \o r
        <5>3. << >> \o z = z
          BY <5>2, ConcatEmptySeq
        <5>4. << >> \o (<<a>> \o r) = Append(<< >>, a) \o r
          BY <4>1, <4>2, <4>4, Together
        <5>5. QED
          BY <5>3, <5>4
      <4>6. Append(<< >>, a) \o << >> = <<a>>
        <5>1. <<a>> \in Seq(PathName) /\ Append(<< >>, a) = <<a>>
          BY <4>1
        <5>2. QED
          BY <5>1, ConcatEmptySeq
      <4>7. QED
        BY <1>7, <3>8, <3>9, <3>10, <4>3, <4>5, <4>6 DEF a, r
    <3>12. MeantOp(op, path) = op
      BY <2>1 DEF MeantOp, Walks
    <3>13. WalkMeans(f)'
      BY <1>6, <1>7, <3>1, <3>6, <3>7, <3>8, <3>11, <3>12 DEF WalkMeans
    <3>14. pc' \notin {"parents", "lost", "same", "open"}
      BY <3>7 DEF Opening
    <3>15. MeantAt(f)'
      BY <1>1, <1>3, <1>6, <3>6, <3>7, <3>13, <3>14 DEF MeantAt
    <3>16. QED
      BY <1>4, <3>6, <3>7, <3>15 DEF Meaning
  <2>2. CASE op \notin Walks
    <3>1. /\ call' = [[NoCall EXCEPT !.op = op, !.path = path, !.meant = m]
                       EXCEPT !.parent = "sub1", !.child = "sub2"]
          /\ pc' = "parents" /\ sub' = [sub EXCEPT !["sub1"] = Handle("root")]
      BY <2>2 DEF Ask
    <3>2. Meant(op, path) = Names83(Trim(OpenFrom(path)[1]))
      BY <2>2, MeantIs
    <3>3. Names83(Trim(OpenFrom(path)[1])) \in Seq(PathName)
      BY <1>5, RestOfOpenIs
    <3> HIDE DEF c, m
    <3>4. /\ call'.op = op /\ call'.path = path /\ call'.at = 1 /\ call'.text = << >>
          /\ call'.more = FALSE /\ call'.parent = "sub1" /\ call'.child = "sub2" /\ call'.meant = m
      BY <3>1 DEF NoCall
    <3>5. ~Walking' /\ Opening'
      BY <3>1 DEF Walking, Opening, Walks
    <3>6. parent'.node = RootDir
      <4>1. sub' = [sub EXCEPT !["sub1"] = Handle("root")] /\ sub \in [{"sub1", "sub2"} -> HandleType]
        BY <3>1, HandlesAre DEF HandlesOfType
      <4>2. sub'["sub1"] = Handle("root")
        BY <4>1
      <4>3. parent' = sub'["sub1"]
        BY <3>4 DEF parent, Handle
      <4>4. QED
        BY <1>8, <4>2, <4>3
    <3>7. RestOfOpen' = Names83(Trim(OpenFrom(path)[1]))
      BY <3>4 DEF RestOfOpen
    <3>8. m.path = f[parent'.node] \o RestOfOpen'
      <4> DEFINE r == Names83(Trim(OpenFrom(path)[1]))
      <4> HIDE DEF r
      <4>1. r \in Seq(PathName)
        BY <3>3 DEF r
      <4>2. << >> \o r = r
        BY <4>1, ConcatEmptySeq
      <4>3. QED
        BY <1>6, <1>7, <3>2, <3>6, <3>7, <4>2 DEF r
    <3>9. path = << >> \/ 1 <= Len(path)
      <4>1. path \in Seq(Char \cup TextChar)
        BY DEF Text
      <4>2. QED
        BY <1>5, <4>1, EmptySeq
    <3>10. ParentsMean(f)'
      BY <1>6, <1>7, <3>4, <3>6, <3>8, <3>9 DEF ParentsMean
    <3>11. op \in {"openRead", "openWrite"}
      BY <2>2
    <3>12. MeantAt(f)'
      BY <1>1, <1>3, <1>6, <3>1, <3>4, <3>5, <3>10, <3>11 DEF MeantAt
    <3>13. QED
      BY <1>4, <3>1, <3>4, <3>12 DEF Meaning
  <2>3. QED
    BY <2>1, <2>2
<1>10. call.meant = Promise!NoCall
  BY <1>3 DEF NoCall, Promise!NoCall
<1>11. call'.meant # call.meant /\ call.meant.op = "none" /\ "none" \notin Promise!Ops
       /\ call'.meant.op \in Promise!Ops /\ call'.meant.path \in Seq(PathName)
  BY <1>6, <1>9, <1>10 DEF Promise!NoCall, Promise!Ops
<1>12. (reply /\ pc = "idle")' = FALSE
  BY <1>1
<1>13. (trouble /\ pc # "idle") = FALSE /\ (trouble /\ pc # "idle")' = FALSE
  BY <1>1
<1> DEFINE T == Tree
<1>14. T' = T /\ name'[Other] = name[Other]
  BY <1>4
<1>15. Promise!Call
  BY <1>1, <1>11, <1>12, <1>13, <1>14 DEF Promise!Call, PathName
<1>16. QED
  BY <1>9, <1>15 DEF Promise!Next

-----------------------------------------------------------------------------
(* Steps of a walk that leave the tree. *)

\* Where a walk stands in the tree.
LEMMA WalkAt ==
  ASSUME SInv, Rooted, NEW f, Placing(f), MeantAt(f), Walking
  PROVE  /\ parent.node \in Present /\ Whole(parent) /\ This \in ShortName \cup {NoName}
         /\ This \in PathName /\ f[parent.node] \in Seq(PathName) /\ RestOfWalk \in Seq(PathName)
         /\ call.meant.path = Append(f[parent.node], This) \o RestOfWalk
         /\ ~call.more => call.meant.path = Append(f[parent.node], This)
         /\ call.meant.op = call.op /\ call.op \in Walks /\ call.meant.op \in Promise!Ops /\ ~done
         /\ Here # NoNode =>
              /\ Here \in Node /\ Here \in Present /\ IsDir(parent.node) /\ This \in EntryName
              /\ Holds(parent.node, Here) /\ f[Here] = Append(f[parent.node], This)
         /\ Here = NoNode => call.meant.path \notin DOMAIN Tree
         /\ This = NoName \/ ~IsDir(parent.node) \/ (parent.node = RootDir /\ This = name[Other]) => Promise!Hindered(call.meant.path)
<1>1. TreeInv /\ call.path \in Text /\ call.at \in 1 .. Len(call.path) + 1 /\ call.op \in Walks
  BY DEF SInv, CallInv
<1>2. pc # "return" /\ pc # "idle"
  BY DEF Walking, Walks
<1>3. WalkMeans(f) /\ ~done /\ call.meant.op \in Promise!Ops
  BY <1>2 DEF MeantAt
<1>4. /\ parent.node \in Present /\ call.meant.op = call.op
      /\ call.meant.path = Append(f[parent.node], This) \o RestOfWalk
  BY <1>3 DEF WalkMeans
<1>5. Whole(parent) /\ This \in ShortName \cup {NoName}
  BY ParentIs
<1>6. This \in PathName
  BY <1>5, ShortIsName
<1>7. f[parent.node] \in Seq(PathName)
  BY <1>1, <1>4, TreeAt
<1>8. RestOfWalk \in Seq(PathName)
  <2>1. Names83(WalkFrom(call.path)[call.at]) \in Seq(PathName)
    BY <1>1, RestOfWalkIs
  <2>2. QED
    BY <2>1 DEF RestOfWalk
<1> DEFINE p == f[parent.node]
           a == This
           r == RestOfWalk
<1>9. Append(p, a) \in Seq(PathName)
  BY <1>6, <1>7
<1>10. ~call.more => call.meant.path = Append(p, a)
  <2>1. SUFFICES ASSUME ~call.more PROVE call.meant.path = Append(p, a)
    OBVIOUS
  <2>2. r = << >>
    BY <2>1 DEF RestOfWalk
  <2>3. Append(p, a) \o << >> = Append(p, a)
    BY <1>9, ConcatEmptySeq
  <2>4. QED
    BY <1>4, <2>2, <2>3
<1>11. /\ Here # NoNode =>
            /\ Here \in Node /\ Here \in Present /\ IsDir(parent.node) /\ This \in EntryName
            /\ Holds(parent.node, Here) /\ f[Here] = Append(f[parent.node], This)
       /\ Here = NoNode => Append(f[parent.node], This) \notin DOMAIN Tree
  <2> DEFINE h == parent
  <2>1. Whole(h) /\ h.node \in Present /\ a \in ShortName \cup {NoName}
    BY <1>4, <1>5
  <2>2. Here = Lookup(h, a)
    BY DEF Here
  <2> HIDE DEF h, a
  <2>3. /\ Lookup(h, a) # NoNode =>
             /\ Lookup(h, a) \in Node /\ Lookup(h, a) \in Present /\ IsDir(h.node) /\ a \in EntryName
             /\ Holds(h.node, Lookup(h, a)) /\ f[Lookup(h, a)] = Append(f[h.node], a)
        /\ Lookup(h, a) = NoNode => Append(f[h.node], a) \notin DOMAIN Tree
    BY <1>1, <2>1, LookupTree
  <2>4. QED
    BY <2>2, <2>3 DEF h, a
<1>12. Here = NoNode => call.meant.path \notin DOMAIN Tree
  BY <1>1, <1>4, <1>8, <1>9, <1>11, MissingPath
<1>13. This = NoName \/ ~IsDir(parent.node) \/ (parent.node = RootDir /\ This = name[Other])
       => Promise!Hindered(call.meant.path)
  <2>1. SUFFICES ASSUME This = NoName \/ ~IsDir(parent.node) \/ (parent.node = RootDir /\ This = name[Other])
                 PROVE  Promise!Hindered(call.meant.path)
    OBVIOUS
  <2> DEFINE d == parent.node
  <2>2. /\ d \in Present /\ a \in PathName /\ r \in Seq(PathName)
        /\ a = NoName \/ ~IsDir(d) \/ (d = RootDir /\ a = name[Other])
    BY <1>4, <1>6, <1>8, <2>1
  <2> HIDE DEF d, a, r
  <2>3. Promise!Hindered(Append(f[d], a) \o r)
    BY <1>1, <2>2, HinderedPath
  <2> DEFINE z == Append(f[d], a) \o r
  <2>4. call.meant.path = z
    BY <1>4 DEF d, a, r
  <2> HIDE DEF z
  <2>5. Promise!Hindered(z)
    BY <2>3 DEF z
  <2>6. QED
    BY <2>4, <2>5
<1>14. QED
  BY <1>1, <1>3, <1>4, <1>5, <1>6, <1>7, <1>8, <1>10, <1>11, <1>12, <1>13

\* A step that ends a call and leaves the tree.
LEMMA EndsQuietly ==
  ASSUME SInv, Rooted, NEW f, Placing(f), MeantAt(f), pc # "idle", UNCHANGED treeVars, call' = call, done' = done,
         pc' = "return", trouble' \in BOOLEAN, trouble => trouble',
         IF reply' THEN Promise!Confirmed ELSE Promise!Denied \/ trouble'
  PROVE  Meaning' /\ [Promise!Next]_(Promise!vars)
<1>1. Placing(f)' /\ Rooted' /\ Tree' = Tree /\ name'[Other] = name[Other]
  BY PlacesStay
<1>2. call.meant.op \in Promise!Ops
  BY DEF MeantAt
<1>3. (Promise!Confirmed => Promise!Confirmed') /\ (Promise!Denied => Promise!Denied')
  BY <1>1, <1>2, AnswerStays
<1>4. IF reply' THEN Promise!Confirmed' ELSE Excused'
  BY <1>3 DEF Excused
<1>5. Meaning'
  BY <1>1, <1>4, ToReturn
<1>6. trouble \in BOOLEAN /\ call'.meant = call.meant /\ pc' # "idle"
  BY DEF SInv, VolTypes
<1>7. [Promise!Next]_(Promise!vars)
  BY <1>1, <1>2, <1>6, Stutters
<1>8. QED
  BY <1>5, <1>7

\* A callback has said ok, and there is more of the path.
LEMMA GoesOnQuietly ==
  ASSUME SInv, Rooted, NEW f, Placing(f), MeantAt(f), Walking, UNCHANGED treeVars, call' = call, done' = done,
         sub' = sub, root' = root, noRefusal, pc' = "descend", call.more,
         call.op \in {"exists", "mkdir"} => Here # NoNode
  PROVE  Meaning' /\ [Promise!Next]_(Promise!vars)
<1>1. Placing(f)' /\ Rooted' /\ Tree' = Tree /\ Present' = Present /\ name'[Other] = name[Other]
  BY PlacesStay
<1>2. /\ parent.node \in Present /\ call.meant.op = call.op /\ call.meant.op \in Promise!Ops /\ ~done
      /\ call.meant.path = Append(f[parent.node], This) \o RestOfWalk /\ pc # "idle"
  BY WalkAt DEF Walking, Walks
<1>3. call.meant.path \in Seq(PathName)
  BY <1>2 DEF MeantAt
<1>4. parent' = parent /\ This' = This /\ RestOfWalk' = RestOfWalk
  BY DEF parent, Handle, This, RestOfWalk
<1>5. kind' = kind /\ name' = name /\ slots' = slots
  BY DEF treeVars
<1>6. Here' = Here
  <2>1. \A d : IsDir(d)' <=> IsDir(d)
    BY <1>5 DEF IsDir
  <2> DEFINE h == parent
             a == This
  <2>2. Ends(h, a)' = Ends(h, a)
    <3>1. h' = h /\ a' = a
      BY <1>4
    <3> HIDE DEF h, a
    <3>2. QED
      BY <1>5, <3>1 DEF Ends, HasName
  <2>3. Lookup(h, a)' = Lookup(h, a)
    <3>1. h' = h /\ a' = a
      BY <1>4
    <3> HIDE DEF h, a
    <3>2. QED
      BY <1>5, <2>1, <2>2, <3>1 DEF Lookup, Searched
  <2>4. QED
    BY <2>3 DEF Here
<1>7. Walking' /\ ~Opening' /\ pc' \notin {"idle", "return", "parents", "lost", "same", "open"}
  BY DEF Walking, Opening
<1>8. WalkMeans(f)'
  BY <1>1, <1>2, <1>4, <1>6 DEF WalkMeans
<1>9. MeantAt(f)'
  BY <1>2, <1>3, <1>7, <1>8 DEF MeantAt
<1>10. trouble \in BOOLEAN /\ trouble' = trouble /\ call'.meant = call.meant /\ pc' # "idle"
  BY <1>7 DEF SInv, VolTypes, noRefusal
<1>11. [Promise!Next]_(Promise!vars)
  BY <1>1, <1>2, <1>10, Stutters
<1>12. QED
  BY <1>1, <1>9, <1>11 DEF Meaning

\* A refused callback ends the call, and the answer is excused.
LEMMA RefusedQuietly ==
  ASSUME SInv, Rooted, NEW f, Placing(f), MeantAt(f), pc # "idle", UNCHANGED treeVars, call' = call, done' = done,
         Refuses, pc' = "return", reply' = FALSE
  PROVE  Meaning' /\ [Promise!Next]_(Promise!vars)
<1>1. trouble'
  BY DEF Refuses
<1>2. trouble' \in BOOLEAN
  BY DEF Refuses
<1>3. QED
  BY <1>1, <1>2, EndsQuietly

\* exists() looks the next component up.
LEMMA ExistsMeans ==
  ASSUME SInv, Meaning, CallbackExists
  PROVE  Meaning' /\ [Promise!Next]_(Promise!vars)
<1>1. /\ Walking /\ pc = "exists" /\ pc # "idle" /\ pc # "descend"
      /\ UNCHANGED treeVars /\ call' = call /\ done' = done /\ sub' = sub /\ root' = root
  BY DEF CallbackExists, Walking, Walks
<1>2. PICK f : Placing(f) /\ MeantAt(f)
  BY DEF Meaning
<1>3. Rooted /\ trouble \in BOOLEAN
  BY DEF Meaning, SInv, VolTypes
<1>4. call.op = "exists"
  BY <1>1, <1>2 DEF MeantAt, WalkMeans
<1>5. CASE Refuses /\ After(FALSE)
  <2>1. pc' = "return" /\ reply' = FALSE
    BY <1>5 DEF After, Returns
  <2>2. QED
    BY <1>1, <1>2, <1>3, <1>5, <2>1, RefusedQuietly
<1>6. CASE noRefusal /\ After(Here # NoNode)
  <2>1. CASE Here # NoNode /\ call.more
    <3>1. pc' = "descend"
      BY <1>6, <2>1 DEF After
    <3>2. QED
      BY <1>1, <1>2, <1>3, <1>6, <2>1, <3>1, GoesOnQuietly
  <2>2. CASE ~(Here # NoNode /\ call.more)
    <3>1. pc' = "return" /\ reply' = (Here # NoNode)
      BY <1>6, <2>2 DEF After, Returns
    <3>2. trouble' = trouble
      BY <1>6 DEF noRefusal
    <3>3. Here # NoNode => Promise!Confirmed
      <4>1. SUFFICES ASSUME Here # NoNode PROVE Promise!Confirmed
        OBVIOUS
      <4>2. Here \in Present /\ call.meant.path = f[Here] /\ call.meant.op = "exists" /\ call.meant.op \in Promise!Ops
        BY <1>1, <1>2, <1>3, <1>4, <2>2, <4>1, WalkAt
      <4>3. f[Here] \in DOMAIN Tree
        <5> DEFINE d == Here
        <5>1. d \in Present /\ TreeInv
          BY <4>2 DEF SInv
        <5> HIDE DEF d
        <5>2. f[d] \in DOMAIN Tree
          BY <1>2, <1>3, <5>1, TreeAt
        <5>3. QED
          BY <5>2 DEF d
      <4>4. QED
        BY <4>2, <4>3, ConfirmedIs
    <3>4. Here = NoNode => Promise!Denied
      <4>1. SUFFICES ASSUME Here = NoNode PROVE Promise!Denied
        OBVIOUS
      <4>2. call.meant.path \notin DOMAIN Tree /\ call.meant.op = "exists" /\ call.meant.op \in Promise!Ops
        BY <1>1, <1>2, <1>3, <1>4, <4>1, WalkAt
      <4>3. QED
        BY <4>2, DeniedIs
    <3>5. IF reply' THEN Promise!Confirmed ELSE Promise!Denied \/ trouble'
      <4>1. PICK b \in BOOLEAN : b = (Here # NoNode)
        OBVIOUS
      <4>2. reply' = b /\ (b => Promise!Confirmed) /\ (~b => Promise!Denied)
        BY <3>1, <3>3, <3>4, <4>1
      <4>3. QED
        BY <4>2, Zenon
    <3>6. trouble' \in BOOLEAN /\ (trouble => trouble')
      BY <1>3, <3>2
    <3>7. QED
      BY <1>1, <1>2, <1>3, <3>1, <3>5, <3>6, EndsQuietly
  <2>3. QED
    BY <2>1, <2>2
<1>7. (noRefusal /\ After(Here # NoNode)) \/ (Refuses /\ After(FALSE))
  BY DEF CallbackExists
<1>8. QED
  BY <1>5, <1>6, <1>7

\* mkdir() finds the next component.
LEMMA MkdirFindsMeans ==
  ASSUME SInv, Meaning, MkdirFinds
  PROVE  Meaning' /\ [Promise!Next]_(Promise!vars)
<1>1. /\ Walking /\ pc = "mkdir" /\ pc # "idle" /\ pc # "descend" /\ Here # NoNode
      /\ UNCHANGED treeVars /\ call' = call /\ done' = done /\ sub' = sub /\ root' = root
  BY DEF MkdirFinds, Walking, Walks
<1>2. PICK f : Placing(f) /\ MeantAt(f)
  BY DEF Meaning
<1>3. Rooted /\ trouble \in BOOLEAN
  BY DEF Meaning, SInv, VolTypes
<1>4. call.op = "mkdir"
  BY <1>1, <1>2 DEF MeantAt, WalkMeans
<1>5. CASE Refuses /\ After(FALSE)
  <2>1. pc' = "return" /\ reply' = FALSE
    BY <1>5 DEF After, Returns
  <2>2. QED
    BY <1>1, <1>2, <1>3, <1>5, <2>1, RefusedQuietly
<1>6. CASE noRefusal /\ After(TRUE)
  <2>1. CASE call.more
    <3>1. pc' = "descend"
      BY <1>6, <2>1 DEF After
    <3>2. QED
      BY <1>1, <1>2, <1>3, <1>6, <2>1, <3>1, GoesOnQuietly
  <2>2. CASE ~call.more
    <3>1. pc' = "return" /\ reply' = TRUE
      BY <1>6, <2>2 DEF After, Returns
    <3>2. trouble' = trouble
      BY <1>6 DEF noRefusal
    <3>3. Here \in Present /\ call.meant.path = f[Here] /\ call.meant.op = "mkdir" /\ call.meant.op \in Promise!Ops
      BY <1>1, <1>2, <1>3, <1>4, <2>2, WalkAt
    <3>4. f[Here] \in DOMAIN Tree
      <4> DEFINE d == Here
      <4>1. d \in Present /\ TreeInv
        BY <3>3 DEF SInv
      <4> HIDE DEF d
      <4>2. f[d] \in DOMAIN Tree
        BY <1>2, <1>3, <4>1, TreeAt
      <4>3. QED
        BY <4>2 DEF d
    <3>5. Promise!Confirmed
      BY <3>3, <3>4, ConfirmedIs
    <3>6. trouble' \in BOOLEAN /\ (trouble => trouble')
      BY <1>3, <3>2
    <3>7. QED
      BY <1>1, <1>2, <1>3, <3>1, <3>5, <3>6, EndsQuietly
  <2>3. QED
    BY <2>1, <2>2
<1>7. (noRefusal /\ After(TRUE)) \/ (Refuses /\ After(FALSE))
  BY DEF MkdirFinds
<1>8. QED
  BY <1>5, <1>6, <1>7

\* makeDir fails: something is in the way, or the card is to blame.
LEMMA MkdirFailsMeans ==
  ASSUME SInv, Meaning, MkdirFails
  PROVE  Meaning' /\ [Promise!Next]_(Promise!vars)
<1>1. /\ Walking /\ pc = "mkdir" /\ pc # "idle"
      /\ UNCHANGED treeVars /\ call' = call /\ done' = done
      /\ pc' = "return" /\ reply' = FALSE
  BY DEF MkdirFails, Walking, Walks, After, Returns
<1>2. PICK f : Placing(f) /\ MeantAt(f)
  BY DEF Meaning
<1>3. Rooted /\ trouble \in BOOLEAN
  BY DEF Meaning, SInv, VolTypes
<1>4. call.op = "mkdir"
  BY <1>1, <1>2 DEF MeantAt, WalkMeans
<1>5. trouble' = (trouble \/ refused' # refused \/ Missing(parent, This))
  BY DEF MkdirFails
<1>6. trouble' \in BOOLEAN /\ (trouble => trouble')
  BY <1>3, <1>5 DEF Missing, Searched
<1>7. Promise!Denied \/ trouble'
  <2>1. SUFFICES ASSUME ~trouble' PROVE Promise!Denied
    OBVIOUS
  <2>2. This = NoName \/ ~IsDir(parent.node) \/ (parent.node = RootDir /\ This = name[Other])
    <3>1. PICK h, n : h = parent /\ n = This
      OBVIOUS
    <3>2. Inside(h) /\ TreeInv
      BY <1>1, <3>1, ParentIs DEF SInv
    <3>3. ~Missing(h, n) /\ Lookup(h, n) = NoNode
      BY <1>5, <2>1, <3>1 DEF MkdirFails, Here
    <3>4. IsDir(h.node) /\ n # NoName => h.node = RootDir /\ name[Other] = n
      BY <3>2, <3>3, TakenByLabel
    <3>5. QED
      BY <3>1, <3>4
  <2>3. Promise!Hindered(call.meant.path) /\ call.meant.op = "mkdir" /\ call.meant.op \in Promise!Ops
    BY <1>1, <1>2, <1>3, <1>4, <2>2, WalkAt
  <2>4. QED
    BY <2>3, DeniedIs
<1>8. QED
  BY <1>1, <1>2, <1>3, <1>6, <1>7, EndsQuietly

\* remove() and rmdir() wait for the last component.
LEMMA WaitsMeans ==
  ASSUME SInv, Meaning, CallbackWaits
  PROVE  Meaning' /\ [Promise!Next]_(Promise!vars)
<1>1. /\ Walking /\ pc \in {"remove", "rmdir"} /\ pc # "descend" /\ call.more /\ pc' = "descend"
      /\ UNCHANGED treeVars /\ call' = call /\ done' = done /\ sub' = sub /\ root' = root /\ noRefusal
  BY DEF CallbackWaits, Walking, Walks, volumeVars, noRefusal
<1>2. PICK f : Placing(f) /\ MeantAt(f)
  BY DEF Meaning
<1>3. Rooted
  BY DEF Meaning
<1>4. call.op \in {"remove", "rmdir"}
  BY <1>1, <1>2 DEF MeantAt, WalkMeans
<1>5. QED
  BY <1>1, <1>2, <1>3, <1>4, GoesOnQuietly

-----------------------------------------------------------------------------
(* remove and rmdir come to the last component. *)

\* What the tree says of an entry that is there, or is not.
LEMMA EntryInTree ==
  ASSUME SInv, Rooted, NEW f, Placing(f), MeantAt(f), Walking, ~call.more
  PROVE  /\ Here = NoNode => ~Promise!IsFile(call.meant.path) /\ ~Promise!IsDir(call.meant.path)
         /\ Here # NoNode =>
              /\ Here \in Node /\ Here \in Present /\ Here # RootDir /\ call.meant.path = f[Here]
              /\ Promise!IsFile(call.meant.path) <=> kind[Here] = "file"
              /\ Promise!IsDir(call.meant.path) <=> kind[Here] = "dir"
              /\ Promise!IsEmpty(call.meant.path) <=> \A m \in Node : ~Holds(Here, m)
              /\ IsEmptyDir(Here) <=> \A m \in Node : ~Holds(Here, m)
              /\ call.meant.path # << >> /\ kind[Here] \in {"file", "dir"}
<1>1. TreeInv
  BY DEF SInv
<1>2. /\ Here = NoNode => call.meant.path \notin DOMAIN Tree
      /\ Here # NoNode => Here \in Node /\ Here \in Present /\ call.meant.path = f[Here]
  BY WalkAt
<1>3. Here = NoNode => ~Promise!IsFile(call.meant.path) /\ ~Promise!IsDir(call.meant.path)
  <2> DEFINE z == call.meant.path
             T == Tree
  <2>1. /\ Promise!IsFile(z) => z \in DOMAIN T
        /\ Promise!IsDir(z) => z \in DOMAIN T
    BY DEF Promise!IsFile, Promise!IsDir
  <2>2. QED
    BY <1>2, <2>1
<1>4. ASSUME Here # NoNode
      PROVE  /\ Here \in Node /\ Here \in Present /\ Here # RootDir /\ call.meant.path = f[Here]
             /\ Promise!IsFile(call.meant.path) <=> kind[Here] = "file"
             /\ Promise!IsDir(call.meant.path) <=> kind[Here] = "dir"
             /\ Promise!IsEmpty(call.meant.path) <=> \A m \in Node : ~Holds(Here, m)
             /\ IsEmptyDir(Here) <=> \A m \in Node : ~Holds(Here, m)
             /\ call.meant.path # << >> /\ kind[Here] \in {"file", "dir"}
  <2> DEFINE d == Here
             z == call.meant.path
  <2>1. d \in Node /\ d \in Present /\ d # RootDir /\ z = f[d]
    BY <1>2, <1>4, MarksDiffer
  <2> HIDE DEF d, z
  <2>2. /\ Promise!IsDir(f[d]) <=> IsDir(d)
        /\ Promise!IsFile(f[d]) <=> ~IsDir(d)
    BY <1>1, <2>1, TreeAt
  <2>3. IsDir(d) <=> kind[d] = "dir"
    BY <2>1 DEF IsDir
  <2>4. kind[d] \in {"file", "dir"}
    BY <1>1, <2>1 DEF Present, TreeInv, TreeTypes
  <2>5. Promise!IsEmpty(f[d]) <=> \A m \in Node : ~Holds(d, m)
    BY <1>1, <2>1, TreeEmpty
  <2>6. IsEmptyDir(d) <=> \A m \in Node : ~Holds(d, m)
    BY <1>1, <2>1, EmptyIs
  <2>7. f[d] # << >>
    BY <1>1, <2>1, PlaceAbove
  <2>8. /\ Promise!IsFile(z) <=> kind[d] = "file"
        /\ Promise!IsDir(z) <=> kind[d] = "dir"
        /\ Promise!IsEmpty(z) <=> \A m \in Node : ~Holds(d, m)
    <3>1. Promise!IsDir(z) <=> Promise!IsDir(f[d])
      BY <2>1
    <3>2. Promise!IsFile(z) <=> Promise!IsFile(f[d])
      BY <2>1
    <3>3. Promise!IsEmpty(z) <=> Promise!IsEmpty(f[d])
      BY <2>1
    <3>4. QED
      BY <2>2, <2>3, <2>4, <2>5, <3>1, <3>2, <3>3
  <2>9. QED
    BY <2>1, <2>4, <2>6, <2>7, <2>8 DEF d, z
<1>5. QED
  BY <1>3, <1>4

\* Nothing that can be removed is there, or the card refuses an access.
LEMMA RefusesMeans ==
  ASSUME SInv, Meaning, CallbackRefuses
  PROVE  Meaning' /\ [Promise!Next]_(Promise!vars)
<1>1. /\ Walking /\ pc \in {"remove", "rmdir"} /\ pc # "idle" /\ pc # "descend" /\ ~call.more
      /\ UNCHANGED treeVars /\ call' = call /\ done' = done
      /\ pc' = "return" /\ reply' = FALSE
  BY DEF CallbackRefuses, Walking, Walks, After, Returns
<1>2. PICK f : Placing(f) /\ MeantAt(f)
  BY DEF Meaning
<1>3. Rooted /\ trouble \in BOOLEAN
  BY DEF Meaning, SInv, VolTypes
<1>4. call.op = pc
  BY <1>1, <1>2 DEF MeantAt, WalkMeans
<1>5. CASE Refuses
  BY <1>1, <1>2, <1>3, <1>5, RefusedQuietly
<1>6. CASE ~Removable /\ noRefusal
  <2>1. trouble' \in BOOLEAN /\ (trouble => trouble')
    BY <1>3, <1>6 DEF noRefusal
  <2>2. call.meant.op = call.op /\ call.meant.op \in Promise!Ops /\ ~done
    BY <1>1, <1>2, <1>3, WalkAt
  <2>3. Promise!Denied
    <3>1. CASE Here = NoNode
      <4>1. ~Promise!IsFile(call.meant.path) /\ ~Promise!IsDir(call.meant.path)
        BY <1>1, <1>2, <1>3, <3>1, EntryInTree
      <4>2. QED
        BY <1>1, <1>4, <2>2, <4>1, DeniedIs
    <3>2. CASE Here # NoNode
      <4>1. /\ Promise!IsFile(call.meant.path) <=> kind[Here] = "file"
            /\ Promise!IsDir(call.meant.path) <=> kind[Here] = "dir"
            /\ Promise!IsEmpty(call.meant.path) <=> IsEmptyDir(Here)
        BY <1>1, <1>2, <1>3, <3>2, EntryInTree
      <4>2. call.op = "remove" => kind[Here] # "file"
        BY <1>6, <3>2 DEF Removable
      <4>3. call.op = "rmdir" => ~(kind[Here] = "dir" /\ IsEmptyDir(Here))
        BY <1>6, <3>2 DEF Removable
      <4>4. QED
        BY <1>1, <1>4, <2>2, <4>1, <4>2, <4>3, DeniedIs
    <3>3. QED
      BY <3>1, <3>2
  <2>4. QED
    BY <1>1, <1>2, <1>3, <2>1, <2>3, EndsQuietly
<1>7. QED
  BY <1>5, <1>6 DEF CallbackRefuses

\* The entry is removed.
LEMMA RemovesMeans ==
  ASSUME SInv, Meaning, CallbackRemoves
  PROVE  Meaning' /\ [Promise!Next]_(Promise!vars)
<1>1. /\ Walking /\ pc \in {"remove", "rmdir"} /\ pc # "idle" /\ pc # "descend" /\ ~call.more
      /\ Removable /\ Deletes(Here) /\ call' = call /\ done' = TRUE /\ pc' = "return" /\ reply' \in BOOLEAN
      /\ noRefusal \/ (Refuses /\ reply' = FALSE)
  BY DEF CallbackRemoves, Walking, Walks, After, Returns
<1>2. PICK f : Placing(f) /\ MeantAt(f)
  BY DEF Meaning
<1>3. Rooted /\ trouble \in BOOLEAN /\ TreeInv /\ TreeInv'
  BY CallbackRemovesInv DEF Meaning, SInv, VolTypes
<1>4. call.op = pc
  BY <1>1, <1>2 DEF MeantAt, WalkMeans
<1>5. call.meant.op = call.op /\ call.meant.op \in Promise!Ops /\ ~done
  BY <1>1, <1>2, <1>3, WalkAt
<1>6. Here # NoNode
  BY <1>1 DEF Removable
<1> DEFINE x == Here
           z == call.meant.path
           T == Tree
<1>7. /\ x \in Node /\ x \in Present /\ z = f[x]
      /\ Promise!IsFile(z) <=> kind[x] = "file"
      /\ Promise!IsDir(z) <=> kind[x] = "dir"
      /\ Promise!IsEmpty(z) <=> \A m \in Node : ~Holds(x, m)
      /\ IsEmptyDir(x) <=> \A m \in Node : ~Holds(x, m)
      /\ z # << >>
  BY <1>1, <1>2, <1>3, <1>6, EntryInTree
<1>8. IF call.op = "remove" THEN kind[x] = "file" ELSE kind[x] = "dir" /\ IsEmptyDir(x)
  BY <1>1 DEF Removable
<1>9. \A m \in Node : ~Holds(x, m)
  <2>1. CASE call.op = "remove"
    <3>1. slots[x] = << >>
      BY <1>3, <1>7, <1>8, <2>1 DEF Rooted
    <3>2. DOMAIN slots[x] = {}
      BY <3>1
    <3>3. QED
      BY <3>2 DEF Holds
  <2>2. CASE call.op # "remove"
    BY <1>7, <1>8, <2>2
  <2>3. QED
    BY <2>1, <2>2
<1>10. Rooted' /\ T' = WithLess(T, z)
  <2>1. kind[x] # "none" /\ Deletes(x)
    BY <1>1, <1>8
  <2> HIDE DEF x
  <2>2. Rooted' /\ Tree' = WithLess(Tree, f[x])
    BY <1>2, <1>3, <1>7, <1>9, <2>1, DeletesTree
  <2>3. QED
    BY <1>7, <2>2
<1>11. trouble' \in BOOLEAN /\ (trouble => trouble') /\ (~reply' => trouble')
  <2>1. CASE noRefusal
    <3>1. CASE reply'
      BY <1>3, <2>1, <3>1 DEF noRefusal
    <3>2. CASE ~reply'
      <4>1. Refuses
        BY <2>1, <3>2 DEF CallbackRemoves, After, Returns
      <4>2. QED
        BY <4>1 DEF Refuses
    <3>3. QED
      BY <3>1, <3>2
  <2>2. CASE Refuses
    BY <2>2 DEF Refuses
  <2>3. QED
    BY <1>1, <2>1, <2>2
<1>12. reply' => Promise!Confirmed'
  <2>1. call'.meant.op \in Promise!Ops /\ call'.meant.op \in {"remove", "rmdir"} /\ done'
    BY <1>1, <1>4, <1>5
  <2>2. QED
    BY <2>1, ConfirmedIsAfter
<1>13. Meaning'
  <2>1. IF reply' THEN Promise!Confirmed' ELSE Excused'
    BY <1>11, <1>12 DEF Excused
  <2>2. QED
    BY <1>1, <1>2, <1>10, <2>1, ToReturn
<1>14. Promise!Remove
  <2>1. \/ call.meant.op = "remove" /\ Promise!IsFile(z)
        \/ call.meant.op = "rmdir" /\ Promise!IsDir(z) /\ Promise!IsEmpty(z) /\ z # << >>
    BY <1>1, <1>4, <1>5, <1>7, <1>8, <1>9
  <2>2. T' = Promise!Without(z)
    BY <1>10 DEF Promise!Without, Promise!Restrict, WithLess
  <2>3. (trouble /\ pc # "idle")' \in {trouble /\ pc # "idle", TRUE}
    <3>1. pc' # "idle"
      BY <1>1
    <3>2. (trouble /\ pc # "idle") = trouble /\ (trouble /\ pc # "idle")' = trouble'
      BY <1>1, <1>3, <1>11, <3>1
    <3>3. QED
      BY <1>3, <1>11, <3>2
  <2>4. call'.meant = call.meant /\ (reply /\ pc = "idle")' = (reply /\ pc = "idle")
    BY <1>1
  <2>5. name'[Other] = name[Other]
    <3>1. name' = [name EXCEPT ![x] = NoName]
      BY <1>1 DEF Deletes
    <3> HIDE DEF x
    <3>2. QED
      BY <1>3, <1>7, <3>1, LabelStays
  <2> HIDE DEF T
  <2>6. QED
    BY <1>1, <1>5, <2>1, <2>2, <2>3, <2>4, <2>5 DEF Promise!Remove, T
<1>15. QED
  BY <1>13, <1>14 DEF Promise!Next

-----------------------------------------------------------------------------
(* walkPath goes down. *)

\* The component cannot be opened: only remove and rmdir have not looked before.
LEMMA DescendFails ==
  ASSUME SInv, Rooted, NEW f, Placing(f), MeantAt(f), pc = "descend",
         UNCHANGED treeVars, call' = call, done' = done, pc' = "return", reply' = FALSE,
         (~(sub[call.child].node = NoNode /\ Here # NoNode) /\ noRefusal) \/ Refuses
  PROVE  Meaning' /\ [Promise!Next]_(Promise!vars)
<1>1. Walking /\ pc # "idle" /\ trouble \in BOOLEAN
  BY DEF Walking, SInv, VolTypes
<1>2. CASE Refuses
  BY <1>1, <1>2, RefusedQuietly
<1>3. CASE ~(sub[call.child].node = NoNode /\ Here # NoNode) /\ noRefusal
  <2>1. trouble' = trouble
    BY <1>3 DEF noRefusal
  <2>2. Promise!Denied \/ trouble'
    <3>1. SUFFICES ASSUME ~trouble PROVE Promise!Denied
      BY <2>1
    <3>2. sub[call.child].node = NoNode
      BY <1>1, <3>1 DEF SInv, HandleInv, Closed
    <3>3. Here = NoNode
      BY <1>3, <3>2
    <3>4. call.op \notin {"exists", "mkdir"}
      BY <1>1, <3>3 DEF MeantAt, WalkMeans
    <3>5. /\ call.meant.path \notin DOMAIN Tree /\ call.meant.op = call.op /\ call.op \in Walks
          /\ call.meant.op \in Promise!Ops /\ ~done
      BY <1>1, <3>3, WalkAt
    <3> DEFINE z == call.meant.path
               T == Tree
    <3>6. ~Promise!IsFile(z) /\ ~Promise!IsDir(z)
      BY <3>5 DEF Promise!IsFile, Promise!IsDir
    <3>7. QED
      BY <3>4, <3>5, <3>6, DeniedIs DEF Walks
  <2>3. trouble' \in BOOLEAN /\ (trouble => trouble')
    BY <1>1, <2>1
  <2>4. QED
    BY <1>1, <2>2, <2>3, EndsQuietly
<1>4. QED
  BY <1>2, <1>3

\* The next name of the walk is that of the component it comes to.
LEMMA DescendMeans ==
  ASSUME SInv, Meaning, Descend
  PROVE  Meaning' /\ [Promise!Next]_(Promise!vars)
<1> DEFINE opens == sub[call.child].node = NoNode /\ Here # NoNode
           below == [sub EXCEPT ![call.child] = Opened(Here)]
           c == NextComponent(call.path, call.at)
           up == call.parent
           down == call.child
<1>1. /\ Walking /\ pc = "descend" /\ pc # "idle" /\ UNCHANGED treeVars /\ done' = done
  BY DEF Descend, Walking
<1>2. PICK f : Placing(f) /\ MeantAt(f)
  BY DEF Meaning
<1>3. Rooted /\ trouble \in BOOLEAN
  BY DEF Meaning, SInv, VolTypes
<1>4. CASE /\ (~opens /\ noRefusal) \/ Refuses
           /\ sub' = ClosesParent(sub)
           /\ UNCHANGED call
           /\ Returns(FALSE)
  <2>1. pc' = "return" /\ reply' = FALSE
    BY <1>4 DEF Returns
  <2>2. QED
    BY <1>1, <1>2, <1>3, <1>4, <2>1, DescendFails
<1>5. CASE /\ opens
           /\ \/ sub' = ClosesParent(below) /\ noRefusal
              \/ sub' = below /\ call.parent # "root" /\ Refuses
           /\ call' = [call EXCEPT !.text = c.text, !.at = c.next, !.more = c.more,
                                   !.parent = call.child,
                                   !.child = IF call.parent = "root" THEN "sub2" ELSE call.parent]
           /\ pc' = call.op /\ UNCHANGED reply
  <2> DEFINE x == Here
             next == IF up = "root" THEN "sub2" ELSE up
             p == f[parent.node]
             a == This
             r == RestOfWalk
  <2>1. Placing(f)' /\ Rooted' /\ Tree' = Tree /\ Present' = Present /\ name'[Other] = name[Other]
    BY <1>1, <1>2, <1>3, PlacesStay
  <2>2. /\ a \in PathName /\ p \in Seq(PathName) /\ r \in Seq(PathName)
        /\ call.meant.path = Append(p, a) \o r
        /\ call.meant.op = call.op /\ call.op \in Walks /\ call.meant.op \in Promise!Ops /\ ~done
        /\ x \in Node /\ x \in Present /\ f[x] = Append(p, a)
    BY <1>1, <1>2, <1>3, <1>5, WalkAt
  <2>3. call.more
    BY <1>1, <1>2 DEF MeantAt, WalkMeans
  <2>4. call.path \in Text /\ call.at \in 1 .. Len(call.path) + 1 /\ CallInv /\ TreeInv
    BY DEF SInv, CallInv
  <2>5. c.text \in Text /\ c.next \in 1 .. Len(call.path) + 1
    BY <2>4, ComponentIsText
  <2>6. r = IF c.more THEN <<make83Name(c.text)>> \o Names83(WalkFrom(call.path)[c.next])
            ELSE <<make83Name(c.text)>>
    BY <2>3, <2>4, RestOfWalkIs DEF RestOfWalk
  <2>7. Opened(x).node = x /\ Opened(x) \in HandleType
    <3> HIDE DEF x
    <3>1. QED
      BY <2>2, <2>4, OpenedIs
  <2> HIDE DEF p, a, r
  <2>8. NextLocals(c.next, c.more, c.text, down, next)
    BY <1>5 DEF NextLocals
  <2> HIDE DEF c
  <2>9. /\ call'.op = call.op /\ call'.path = call.path /\ call'.at = c.next /\ call'.text = c.text
        /\ call'.more = c.more /\ call'.parent = down /\ call'.child = next
        /\ call'.meant = call.meant
    BY <2>4, <2>8, LocalsAre
  <2>10. sub \in [{"sub1", "sub2"} -> HandleType] /\ down \in {"sub1", "sub2"}
         /\ up \in {"root", "sub1", "sub2"} /\ up # down
    <3>1. \/ up = "root" /\ down = "sub1"
          \/ up = Twin(down)
      BY <1>1 DEF SInv, HandleInv
    <3>2. sub \in [{"sub1", "sub2"} -> HandleType] /\ down \in {"sub1", "sub2"}
          /\ up \in {"root", "sub1", "sub2"}
      BY HandlesAre DEF HandlesOfType, SInv, HandleInv
    <3>3. QED
      BY <3>1, <3>2, TwinIs
  <2>11. parent' = Opened(x)
    <3>1. sub' = below \/ sub' = IF up = "root" THEN below ELSE [below EXCEPT ![up] = Closed]
      BY <1>5 DEF ClosesParent
    <3>2. below = [sub EXCEPT ![down] = Opened(x)]
      OBVIOUS
    <3> HIDE DEF below, x
    <3>3. sub'[down] = Opened(x)
      BY <2>10, <3>1, <3>2
    <3>4. parent' = sub'[down]
      BY <2>9, <2>10 DEF parent, Handle
    <3>5. QED
      BY <3>3, <3>4
  <2> HIDE DEF x
  <2>12. Walking' /\ ~Opening' /\ pc' # "descend"
         /\ pc' \notin {"idle", "return", "parents", "lost", "same", "open"}
    BY <1>5, <2>2 DEF Walking, Opening, Walks
  <2>13. This' = make83Name(c.text)
    BY <2>9 DEF This
  <2>14. RestOfWalk' = IF c.more THEN Names83(WalkFrom(call.path)[c.next]) ELSE << >>
    BY <2>9 DEF RestOfWalk
  <2>15. call'.meant.path = Append(f[parent'.node], This') \o RestOfWalk'
    <3> DEFINE b == make83Name(c.text)
               s == Names83(WalkFrom(call.path)[c.next])
               q == f[x]
    <3>1. b \in PathName
      BY <2>5, MadeIsShort, ShortIsName DEF Text
    <3>2. s \in Seq(PathName)
      BY <2>4, <2>5, RestOfWalkIs
    <3>3. q = Append(p, a) /\ q \in Seq(PathName)
      BY <2>2
    <3>4. r = IF c.more THEN <<b>> \o s ELSE <<b>>
      BY <2>6
    <3> HIDE DEF b, s, q
    <3>5. q \o (<<b>> \o s) = Append(q, b) \o s
      <4>1. q \in Seq(PathName) /\ b \in PathName /\ s \in Seq(PathName)
        BY <3>1, <3>2, <3>3
      <4>2. QED
        BY <4>1, Together
    <3>6. q \o <<b>> = Append(q, b) \o << >>
      <4>1. << >> \in Seq(PathName) /\ Append(q, b) \in Seq(PathName)
        BY <3>1, <3>3
      <4>2. q \o <<b>> = Append(q, b)
        BY <3>1, <3>3, <4>1, Together
      <4>3. Append(q, b) \o << >> = Append(q, b)
        BY <4>1, ConcatEmptySeq
      <4>4. QED
        BY <4>2, <4>3
    <3>7. call'.meant.path = q \o r
      BY <2>2, <2>9, <3>3
    <3>8. f[parent'.node] = q /\ This' = b /\ RestOfWalk' = IF c.more THEN s ELSE << >>
      BY <2>7, <2>11, <2>13, <2>14 DEF b, s, q
    <3>9. QED
      BY <3>4, <3>5, <3>6, <3>7, <3>8
  <2>16. WalkMeans(f)'
    BY <1>5, <2>1, <2>2, <2>7, <2>9, <2>11, <2>12, <2>15 DEF WalkMeans
  <2>17. call'.meant.path \in Seq(PathName)
    BY <1>1, <1>2, <2>9 DEF MeantAt
  <2>18. MeantAt(f)'
    BY <1>1, <2>2, <2>9, <2>12, <2>16, <2>17 DEF MeantAt
  <2>19. trouble' \in BOOLEAN /\ (trouble => trouble')
    <3>1. noRefusal \/ Refuses
      BY <1>5
    <3>2. QED
      BY <1>3, <3>1 DEF Refuses, noRefusal
  <2>20. [Promise!Next]_(Promise!vars)
    BY <1>1, <1>3, <2>1, <2>2, <2>9, <2>12, <2>19, Stutters
  <2>21. QED
    BY <2>1, <2>18, <2>20 DEF Meaning
<1>6. QED
  BY <1>4, <1>5 DEF Descend

-----------------------------------------------------------------------------
(* Files and directories are made. *)

\* What a search says after a step.
LEMMA FoundAfter ==
  (\A f, h, n :
     /\ TreeInv /\ Rooted /\ Placing(f) /\ Whole(h) /\ h.node \in Present /\ n \in ShortName \cup {NoName}
     /\ Append(f[h.node], n) \in DOMAIN Tree
     => Lookup(h, n) # NoNode)'
<1>1. \A f, h, n :
        /\ TreeInv /\ Rooted /\ Placing(f) /\ Whole(h) /\ h.node \in Present /\ n \in ShortName \cup {NoName}
        /\ Append(f[h.node], n) \in DOMAIN Tree
        => Lookup(h, n) # NoNode
  BY LookupTree
<1>2. QED
  BY <1>1, PTL

\* Making an entry adds its path to the tree, as the promise does.
LEMMA MakesPath ==
  ASSUME SInv, Rooted, NEW f, Placing(f), NEW h, Whole(h), NEW n \in ShortName \cup {NoName}, CanCreate(h, n),
         NEW x \in Unused, NEW k \in {"file", "dir"}, Creates(h, x, n, k)
  PROVE  /\ Rooted' /\ TreeInv'
         /\ \E g : Placing(g)' /\ \A d \in Present : g[d] = f[d] /\ d \in Present'
         /\ h.node \in Present /\ f[h.node] \in Seq(PathName) /\ n \in PathName
         /\ Promise!CanBeAdded(Append(f[h.node], n))
         /\ Tree' = Promise!Added(Append(f[h.node], n), k)
         /\ Append(f[h.node], n) \in DOMAIN Tree'
         /\ k = "file" => Promise!IsFile(Append(f[h.node], n))'
         /\ name'[Other] = name[Other]
<1>1. TreeInv
  BY DEF SInv
<1>2. /\ h.node \in Dir /\ h.node \in Present /\ x \in Node /\ n \in EntryName
      /\ \A d : d \in Present' <=> d \in Present \/ d = x
  BY <1>1, CreatesHolds
<1>3. Rooted' /\ TreeInv'
      /\ \E g : /\ Placing(g)' /\ g[x] = Append(f[h.node], n)
                /\ \A d \in Present : g[d] = f[d]
  BY <1>1, CreatesPlaces
<1>4. \E g : Placing(g)' /\ \A d \in Present : g[d] = f[d] /\ d \in Present'
  BY <1>2, <1>3
<1> DEFINE q == f[h.node]
           z == Append(q, n)
           T == Tree
<1>5. z \notin DOMAIN T /\ T' = WithMore(T, z, k)
  BY <1>1, CreatesTree
<1>6. q \in Seq(PathName) /\ q \in Seq(EntryName) /\ Promise!IsDir(q)
  <2>1. IsDir(h.node)
    BY DEF CanCreate, Missing, Searched
  <2>2. QED
    BY <1>1, <1>2, <2>1, TreeAt
<1>7. n \in PathName
  BY <1>2 DEF PathName
<1>8. z # << >> /\ z[Len(z)] = n
  <2> HIDE DEF q
  <2>1. z \in Seq(PathName) /\ Len(z) = Len(q) + 1 /\ Len(q) \in Nat /\ z[Len(q) + 1] = n
    BY <1>6, <1>7
  <2> HIDE DEF z
  <2>2. z # << >>
    BY <2>1, EmptySeq
  <2>3. QED
    BY <2>1, <2>2
<1>9. Promise!IsDir(Promise!Parent(z))
  <2>1. Promise!Parent(z) = q
    BY <1>6, <1>7, ParentPath
  <2> DEFINE y == Promise!Parent(z)
  <2> HIDE DEF y
  <2>2. y = q
    BY <2>1 DEF y
  <2>3. Promise!IsDir(y)
    BY <1>6, <2>2
  <2>4. QED
    BY <2>3 DEF y
<1>15. z # <<name[Other]>>
  <2>1. SUFFICES ASSUME z = <<name[Other]>> PROVE FALSE
    OBVIOUS
  <2>2. n = name[Other] /\ q = << >>
    <3> HIDE DEF q
    <3>1. z \in Seq(PathName) /\ Len(z) = Len(q) + 1 /\ Len(q) \in Nat /\ z[Len(q) + 1] = n
      BY <1>6, <1>7
    <3>2. PICK m : m = name[Other]
      OBVIOUS
    <3>5. Len(z) = 1 /\ z[1] = m
      BY <2>1, <3>2
    <3> DEFINE j == Len(q) + 1
    <3>6. j = 1 /\ z[j] = n
      BY <3>1, <3>5
    <3> HIDE DEF z
    <3>7. Len(q) = 0
      BY <3>1, <3>5
    <3> HIDE DEF j
    <3>3. Len(q) = 0 /\ n = name[Other]
      BY <3>2, <3>5, <3>6, <3>7
    <3>4. QED
      BY <1>6, <3>3, EmptySeq
  <2>3. h.node = RootDir
    <3> DEFINE e == h.node
    <3>1. e \in Present /\ f[e] = << >> /\ RootDir \in Present /\ f[RootDir] = << >>
      BY <1>2, <2>2 DEF Placing, Present
    <3> HIDE DEF e
    <3>2. e = RootDir
      BY <1>1, <3>1, PlacesDiffer
    <3>3. QED
      BY <3>2 DEF e
  <2>4. Missing(h, n) /\ Inside(h)
    BY DEF CanCreate, Whole, Inside
  <2>5. /\ n # NoName
        /\ \A i \in 1 .. h.size : slots[h.node][i] \in Entry => name[slots[h.node][i]] # n
    BY <1>1, <2>4, MissingIs
  <2>6. h.size = Len(slots[RootDir])
    BY <2>3 DEF Whole, IsDir
  <2>7. PICK i \in 1 .. Len(slots[RootDir]) : slots[RootDir][i] = Other
    BY <1>1, <2>2, <2>5 DEF TreeInv, LabelInv
  <2>8. QED
    BY <2>2, <2>3, <2>5, <2>6, <2>7 DEF Entry
<1>16. name'[Other] = name[Other]
  BY <1>1, <1>2, LabelStays DEF Creates
<1> HIDE DEF z
<1>10. Promise!CanBeAdded(z)
  BY <1>2, <1>5, <1>8, <1>9, <1>15 DEF Promise!CanBeAdded
<1>11. T' = Promise!Added(z, k)
  BY <1>5 DEF Promise!Added, WithMore
<1> HIDE DEF T
<1>12. z \in DOMAIN T' /\ T'[z] = k
  BY <1>5 DEF WithMore
<1>13. k = "file" => Promise!IsFile(z)'
  <2>1. PICK y : y = z
    OBVIOUS
  <2>2. k = "file" => Promise!IsFile(y)'
    BY <1>12, <2>1 DEF Promise!IsFile, T
  <2>3. z' = z
    OBVIOUS
  <2>4. QED
    BY <2>1, <2>2, <2>3
<1>14. QED
  BY <1>2, <1>3, <1>4, <1>6, <1>7, <1>10, <1>11, <1>12, <1>13, <1>16 DEF z, T

\* The beginning of a path.
LEMMA PrefixOf ==
  ASSUME NEW S, NEW y \in Seq(S), NEW r \in Seq(S), y # << >>
  PROVE  Promise!Prefix(y \o r, Len(y)) = y /\ Len(y) \in 1 .. Len(y \o r)
<1> DEFINE z == y \o r
<1>1. /\ z \in Seq(S) /\ Len(z) = Len(y) + Len(r)
      /\ \A j \in 1 .. Len(y) + Len(r) : z[j] = IF j <= Len(y) THEN y[j] ELSE r[j - Len(y)]
  BY ConcatProperties
<1> HIDE DEF z
<1>2. Len(y) \in Nat /\ Len(r) \in Nat /\ Len(y) # 0
  BY EmptySeq
<1>3. \A j \in 1 .. Len(y) : z[j] = y[j] /\ y[j] \in S
  BY <1>1, <1>2
<1>4. /\ SubSeq(z, 1, Len(y)) \in Seq(S) /\ Len(SubSeq(z, 1, Len(y))) = Len(y)
      /\ \A j \in 1 .. Len(y) : SubSeq(z, 1, Len(y))[j] = z[j]
  BY <1>1, <1>2, <1>3, SubSeqProperties
<1> DEFINE v == SubSeq(z, 1, Len(y))
<1> HIDE DEF v
<1>5. v \in Seq(S) /\ Len(v) = Len(y) /\ \A j \in 1 .. Len(v) : v[j] = y[j]
  BY <1>3, <1>4 DEF v
<1>6. v = y
  BY <1>5, SeqEqual
<1>7. Len(y) \in 1 .. Len(z)
  BY <1>1, <1>2
<1>8. QED
  BY <1>6, <1>7 DEF Promise!Prefix, v, z

\* mkdir() makes the directory that is missing, or leaves a file and an excuse.
LEMMA MkdirMakesMeans ==
  ASSUME SInv, Meaning, MkdirMakes
  PROVE  Meaning' /\ [Promise!Next]_(Promise!vars)
<1>1. /\ Walking /\ pc = "mkdir" /\ pc # "idle" /\ pc # "descend"
      /\ UNCHANGED <<still, lister>> /\ CanCreate(parent, This) /\ call' = call /\ done' = done
  BY DEF MkdirMakes, Walking, Walks
<1>2. PICK x \in Unused, k \in {"dir", "file"} :
        /\ Creates(parent, x, This, k)
        /\ \/ k = "dir" /\ noRefusal /\ After(TRUE)
           \/ Refuses /\ After(FALSE)
  BY DEF MkdirMakes
<1>3. PICK f : Placing(f) /\ MeantAt(f)
  BY DEF Meaning
<1>4. Rooted /\ trouble \in BOOLEAN /\ reply \in BOOLEAN
  BY DEF Meaning, SInv, VolTypes, CallInv
<1>5. call.op = "mkdir"
  BY <1>1, <1>3 DEF MeantAt, WalkMeans
<1>6. PICK h, n : h = parent /\ n = This
  OBVIOUS
<1>7. /\ Whole(h) /\ n \in ShortName \cup {NoName} /\ RestOfWalk \in Seq(PathName)
      /\ call.meant.path = Append(f[h.node], n) \o RestOfWalk
      /\ ~call.more => call.meant.path = Append(f[h.node], n)
      /\ call.meant.op = call.op /\ call.meant.op \in Promise!Ops /\ ~done
  BY <1>1, <1>3, <1>4, <1>6, WalkAt
<1>8. CanCreate(h, n) /\ Creates(h, x, n, k) /\ k \in {"file", "dir"}
  BY <1>1, <1>2, <1>6
<1>9. /\ Rooted' /\ TreeInv'
      /\ \E g : Placing(g)' /\ \A d \in Present : g[d] = f[d] /\ d \in Present'
      /\ h.node \in Present /\ f[h.node] \in Seq(PathName) /\ n \in PathName
      /\ Promise!CanBeAdded(Append(f[h.node], n))
      /\ Tree' = Promise!Added(Append(f[h.node], n), k)
      /\ Append(f[h.node], n) \in DOMAIN Tree'
      /\ name'[Other] = name[Other]
  BY <1>3, <1>4, <1>7, <1>8, MakesPath
<1> DEFINE z == Append(f[h.node], n)
           T == Tree
<1>10. z \in Seq(PathName) /\ z # << >>
  <2>1. << >> \in Seq(PathName)
    OBVIOUS
  <2>2. QED
    BY <1>9, <2>1, Together
<1> HIDE DEF z
<1>11. /\ Promise!Prefix(call.meant.path, Len(z)) = z
       /\ Len(z) \in 1 .. Len(call.meant.path)
  <2> DEFINE r == RestOfWalk
             w == z \o r
  <2>1. call.meant.path = w
    BY <1>7 DEF z
  <2>2. Promise!Prefix(w, Len(z)) = z /\ Len(z) \in 1 .. Len(w)
    BY <1>7, <1>10, PrefixOf
  <2> HIDE DEF w
  <2>3. QED
    BY <2>1, <2>2
<1>12. trouble' \in BOOLEAN /\ (trouble => trouble') /\ (k = "dir" \/ trouble') /\ pc' # "idle"
  BY <1>2, <1>4 DEF Refuses, noRefusal, After, Returns
<1>13. Promise!MakeDir
  <2>1. call.meant.op = "mkdir" /\ call'.meant = call.meant
    BY <1>1, <1>5, <1>7
  <2>2. (trouble /\ pc # "idle") = trouble /\ (trouble /\ pc # "idle")' = trouble'
    BY <1>1, <1>4, <1>12
  <2>3. (trouble /\ pc # "idle")' \in {trouble /\ pc # "idle", TRUE}
    BY <1>4, <1>12, <2>2
  <2>4. (reply /\ pc = "idle") = FALSE /\ (reply /\ pc = "idle")' = FALSE
    BY <1>1, <1>12
  <2>5. Promise!CanBeAdded(z) /\ T' = Promise!Added(z, k) /\ (k = "dir" \/ (trouble' /\ k = "file"))
    BY <1>2, <1>9, <1>12 DEF z
  <2> DEFINE i == Len(z)
             y == Promise!Prefix(call.meant.path, i)
  <2>6. i \in 1 .. Len(call.meant.path) /\ y = z
    BY <1>11
  <2> HIDE DEF i, y
  <2>7. Promise!CanBeAdded(y) /\ (\/ T' = Promise!Added(y, "dir")
                                  \/ (trouble /\ pc # "idle")' /\ T' = Promise!Added(y, "file"))
    BY <2>2, <2>5, <2>6
  <2>8. \E j \in 1 .. Len(call.meant.path) :
          /\ Promise!CanBeAdded(Promise!Prefix(call.meant.path, j))
          /\ \/ T' = Promise!Added(Promise!Prefix(call.meant.path, j), "dir")
             \/ (trouble /\ pc # "idle")' /\ T' = Promise!Added(Promise!Prefix(call.meant.path, j), "file")
    BY <2>6, <2>7 DEF y
  <2> HIDE DEF T
  <2>9. QED
    BY <1>1, <1>9, <2>1, <2>3, <2>4, <2>8 DEF Promise!MakeDir, T
<1>14. CASE Refuses /\ After(FALSE)
  <2>1. pc' = "return" /\ reply' = FALSE /\ trouble'
    BY <1>14 DEF After, Returns, Refuses
  <2>2. IF reply' THEN Promise!Confirmed' ELSE Excused'
    BY <2>1 DEF Excused
  <2>3. Meaning'
    BY <1>1, <1>3, <1>9, <2>1, <2>2, ToReturn
  <2>4. QED
    BY <1>13, <2>3 DEF Promise!Next
<1>15. CASE k = "dir" /\ noRefusal /\ After(TRUE) /\ ~call.more
  <2>1. pc' = "return" /\ reply' = TRUE
    BY <1>15 DEF After, Returns
  <2>2. Promise!Confirmed'
    <3>1. call'.meant.path = z /\ call'.meant.op = "mkdir" /\ call'.meant.op \in Promise!Ops /\ z \in DOMAIN T'
      BY <1>1, <1>5, <1>7, <1>9, <1>15 DEF z
    <3>2. QED
      BY <3>1, ConfirmedIsAfter
  <2>3. Meaning'
    BY <1>1, <1>3, <1>9, <2>1, <2>2, ToReturn
  <2>4. QED
    BY <1>13, <2>3 DEF Promise!Next
<1>16. CASE k = "dir" /\ noRefusal /\ After(TRUE) /\ call.more
  <2>1. pc' = "descend" /\ Walking' /\ ~Opening' /\ pc' \notin {"idle", "return", "parents", "lost", "same", "open"}
    BY <1>16 DEF After, Walking, Opening
  <2>2. PICK g : Placing(g)' /\ \A d \in Present : g[d] = f[d] /\ d \in Present'
    BY <1>9
  <2>3. Whole(parent)' /\ parent'.node = h.node
    <3> DEFINE p == call.parent
    <3>1. p \in {"root", "sub1", "sub2"} /\ (p = "root" \/ sub[p].node # RootDir)
      BY <1>1, MarksDiffer DEF SInv, HandleInv
    <3>2. PICK q \in {"root", "sub1", "sub2"} : q = p
      BY <3>1
    <3>3. refused' \in 0 .. MaxRefused
      BY <1>2, AccessTypes DEF SInv, Access
    <3>4. parent = Handle(q) /\ HandleGrows(q) /\ parent' = Handle(q)'
      BY <1>1, <3>2 DEF MkdirMakes, parent
    <3>5. Whole(Handle(q))' /\ Handle(q)'.node = Handle(q).node
      <4>1. Whole(Handle(q)) /\ CanCreate(Handle(q), n) /\ Creates(Handle(q), x, n, k)
            /\ (q = "root" \/ sub[q].node # RootDir)
        BY <1>6, <1>7, <1>8, <3>1, <3>2, <3>4
      <4>2. QED
        BY <1>1, <1>7, <1>8, <1>12, <3>3, <3>4, <4>1, CreationKeeps
    <3>6. Whole(parent)'
      BY <3>4, <3>5 DEF Whole
    <3>7. QED
      BY <1>6, <3>4, <3>5, <3>6
  <2>4. This' = n /\ RestOfWalk' = RestOfWalk
    BY <1>1, <1>6 DEF This, RestOfWalk
  <2>5. h.node \in Present' /\ g[h.node] = f[h.node]
    BY <1>9, <2>2
  <2>6. Here' # NoNode
    <3>1. PICK e : e = parent'
      OBVIOUS
    <3>2. Whole(e)' /\ e.node = h.node
      BY <2>3, <3>1 DEF Whole
    <3>3. Append(g[e.node], n) \in DOMAIN Tree'
      BY <1>9, <2>5, <3>2
    <3>4. Lookup(e, n)' # NoNode
      BY <1>7, <1>9, <2>2, <2>5, <3>2, <3>3, FoundAfter
    <3>5. Here' = Lookup(e, n)'
      BY <2>4, <3>1 DEF Here, Lookup, Searched, Ends, HasName, IsDir
    <3>6. QED
      BY <3>4, <3>5
  <2>7. WalkMeans(g)'
    BY <1>1, <1>5, <1>7, <1>16, <2>1, <2>3, <2>4, <2>5, <2>6 DEF WalkMeans
  <2>8. call'.meant.path \in Seq(PathName) /\ call'.meant.op \in Promise!Ops /\ ~done'
    BY <1>1, <1>3, <1>7 DEF MeantAt
  <2>9. MeantAt(g)'
    BY <2>1, <2>7, <2>8 DEF MeantAt
  <2>10. Meaning'
    BY <1>9, <2>2, <2>9 DEF Meaning
  <2>11. QED
    BY <1>13, <2>10 DEF Promise!Next
<1>17. QED
  BY <1>2, <1>14, <1>15, <1>16

-----------------------------------------------------------------------------
(* getParentDir. *)

\* Where the search of open for the parent directory stands.
LEMMA ParentsAt ==
  ASSUME SInv, Rooted, NEW f, Placing(f), MeantAt(f), pc = "parents"
  PROVE  /\ Opening /\ parent.node \in Present /\ f[parent.node] \in Seq(PathName) /\ Whole(parent)
         /\ RestOfOpen \in Seq(PathName) /\ call.meant.path = f[parent.node] \o RestOfOpen
         /\ call.op \in {"openRead", "openWrite"} /\ call.meant.op = MeantOp(call.op, call.path)
         /\ call.meant.op \in Promise!Ops /\ call.meant.path \in Seq(PathName) /\ ~done
         /\ call.path = << >> \/ call.at <= Len(call.path)
         /\ call.path \in Text /\ call.at \in 1 .. Len(call.path) + 1
<1>1. Opening /\ TreeInv /\ call.path \in Text /\ call.at \in 1 .. Len(call.path) + 1
  BY DEF SInv, CallInv, Opening
<1>2. /\ ParentsMean(f) /\ call.op \in {"openRead", "openWrite"} /\ ~done
      /\ call.meant.op \in Promise!Ops /\ call.meant.path \in Seq(PathName)
  BY <1>1 DEF MeantAt
<1>3. /\ parent.node \in Present /\ call.meant.path = f[parent.node] \o RestOfOpen
      /\ call.meant.op = MeantOp(call.op, call.path)
      /\ call.path = << >> \/ call.at <= Len(call.path)
  BY <1>2 DEF ParentsMean
<1>4. f[parent.node] \in Seq(PathName)
  BY <1>1, <1>3, TreeAt
<1>5. RestOfOpen \in Seq(PathName)
  BY <1>1, RestOfOpenIs DEF RestOfOpen
<1>6. Whole(parent)
  BY <1>1, ParentIs
<1>7. QED
  BY <1>1, <1>2, <1>3, <1>4, <1>5, <1>6

\* A directory that is not found denies what open means.
LEMMA LostIsDenied ==
  ASSUME SInv, Rooted, NEW f, Placing(f), MeantAt(f), pc = "parents",
         NextDirectory(call.path, call.at).more,
         Lookup(parent, make83Name(NextDirectory(call.path, call.at).text)) = NoNode
  PROVE  Promise!Denied
<1>1. /\ parent.node \in Present /\ f[parent.node] \in Seq(PathName) /\ Whole(parent)
      /\ call.meant.path = f[parent.node] \o RestOfOpen
      /\ call.op \in {"openRead", "openWrite"} /\ call.meant.op = MeantOp(call.op, call.path)
      /\ call.meant.op \in Promise!Ops
      /\ call.path \in Text /\ call.at \in 1 .. Len(call.path) + 1
  BY ParentsAt
<1> DEFINE d == NextDirectory(call.path, call.at)
           R == Names83(Trim(OpenFrom(call.path)[d.next]))
<1>2. d.text \in Text /\ d.next \in 1 .. Len(call.path) + 1 /\ d.next \in call.at + 1 .. Len(call.path)
  BY <1>1, DirectoryIsText, DirectoryGoesOn
<1>3. RestOfOpen = <<make83Name(d.text)>> \o R
  BY <1>1, RestOfOpenIs DEF RestOfOpen
<1>4. R \in Seq(PathName) /\ (Last(call.path) # Slash => R # << >>)
  <2>1. d.next <= Len(call.path)
    BY <1>2
  <2>2. QED
    BY <1>1, <1>2, <2>1, RestOfOpenIs
<1>5. PICK h, n, q : h = parent /\ n = make83Name(d.text) /\ q = f[parent.node]
  OBVIOUS
<1>6. n \in ShortName \cup {NoName} /\ n \in PathName
  BY <1>2, <1>5, MadeIsShort, ShortIsName DEF Text
<1>7. Lookup(h, n) = NoNode
  BY <1>5
<1> HIDE DEF d, R
<1>8. Append(q, n) \notin DOMAIN Tree
  BY <1>1, <1>5, <1>6, <1>7, LookupTree DEF SInv
<1>9. call.meant.path = Append(q, n) \o R /\ Append(q, n) \in Seq(PathName)
  <2>1. q \in Seq(PathName) /\ n \in PathName /\ R \in Seq(PathName)
    BY <1>1, <1>4, <1>5, <1>6
  <2>2. q \o (<<n>> \o R) = Append(q, n) \o R /\ Append(q, n) \in Seq(PathName)
    BY <2>1, Together
  <2>3. RestOfOpen = <<n>> \o R
    BY <1>3, <1>5 DEF R
  <2>4. call.meant.path = q \o RestOfOpen
    BY <1>1, <1>5
  <2> DEFINE w == q \o (<<n>> \o R)
  <2>5. call.meant.path = w
    BY <2>3, <2>4
  <2> HIDE DEF w
  <2>6. w = Append(q, n) \o R
    BY <2>2 DEF w
  <2>7. QED
    BY <2>2, <2>5, <2>6
<1> DEFINE y == Append(q, n)
           w == y \o R
<1>10. w \notin DOMAIN Tree /\ (R # << >> => ~Promise!IsDir(Promise!Parent(w)))
  <2>1. TreeInv
    BY DEF SInv
  <2> HIDE DEF y
  <2>2. QED
    BY <1>4, <1>8, <1>9, <2>1, MissingPath DEF y
<1>11. call.meant.path = w
  BY <1>9
<1> HIDE DEF w
<1>12. call.meant.path \notin DOMAIN Tree
  BY <1>10, <1>11
<1>13. R # << >> => ~Promise!IsDir(Promise!Parent(call.meant.path))
  BY <1>10, <1>11
<1>14. call.meant.op = "openRead" \/ (call.meant.op = "openWrite" /\ Last(call.path) # Slash)
  BY <1>1 DEF MeantOp
<1>15. QED
  BY <1>1, <1>4, <1>12, <1>13, <1>14, DeniedIs

\* One directory after the other, or none.
LEMMA ParentsNextMeans ==
  ASSUME SInv, Meaning, ParentsNext
  PROVE  Meaning' /\ [Promise!Next]_(Promise!vars)
<1> DEFINE d == NextDirectory(call.path, call.at)
           x == Lookup(parent, make83Name(d.text))
           up == call.parent
           down == call.child
           R == Names83(Trim(OpenFrom(call.path)[d.next]))
<1>1. /\ pc = "parents" /\ pc # "idle" /\ UNCHANGED treeVars /\ done' = done /\ d.more
      /\ noRefusal \/ Refuses
  BY DEF ParentsNext
<1>2. PICK f : Placing(f) /\ MeantAt(f)
  BY DEF Meaning
<1>3. Rooted /\ trouble \in BOOLEAN /\ TreeInv /\ CallInv
  BY DEF Meaning, SInv, VolTypes
<1>4. /\ Opening /\ parent.node \in Present /\ f[parent.node] \in Seq(PathName) /\ Whole(parent)
      /\ call.meant.path = f[parent.node] \o RestOfOpen
      /\ call.op \in {"openRead", "openWrite"} /\ call.meant.op = MeantOp(call.op, call.path)
      /\ call.meant.op \in Promise!Ops /\ call.meant.path \in Seq(PathName) /\ ~done
      /\ call.path \in Text /\ call.at \in 1 .. Len(call.path) + 1
  BY <1>1, <1>2, <1>3, ParentsAt
<1>5. Placing(f)' /\ Rooted' /\ Tree' = Tree /\ Present' = Present /\ name'[Other] = name[Other]
  BY <1>1, <1>2, <1>3, PlacesStay
<1>6. trouble' \in BOOLEAN /\ (trouble => trouble')
  BY <1>1, <1>3 DEF noRefusal, Refuses
<1>7. /\ sub \in [{"sub1", "sub2"} -> HandleType] /\ down \in {"sub1", "sub2"}
      /\ up \in {"sub1", "sub2"} /\ up # down
  BY <1>4, HandlesAre, TwinIs DEF HandlesOfType, SInv, HandleInv
<1>8. d.text \in Text /\ d.next \in call.at + 1 .. Len(call.path)
  BY <1>1, <1>4, DirectoryIsText, DirectoryGoesOn
<1>9. CASE /\ x # NoNode
           /\ \/ sub' = [sub EXCEPT ![call.child] = Opened(x), ![call.parent] = Closed]
              \/ sub' = [sub EXCEPT ![call.child] = Opened(x)]
           /\ call' = [call EXCEPT !.at = d.next, !.parent = call.child, !.child = call.parent]
           /\ UNCHANGED pc
  <2>1. PICK h, n, q : h = parent /\ n = make83Name(d.text) /\ q = f[parent.node]
    OBVIOUS
  <2>2. n \in ShortName \cup {NoName} /\ n \in PathName
    BY <1>8, <2>1, MadeIsShort, ShortIsName DEF Text
  <2>3. x \in Node /\ x \in Present /\ f[x] = Append(q, n)
    <3>1. Lookup(h, n) # NoNode => Lookup(h, n) \in Node /\ Lookup(h, n) \in Present /\ f[Lookup(h, n)] = Append(f[h.node], n)
      BY <1>2, <1>3, <1>4, <2>1, <2>2, LookupTree
    <3>2. QED
      BY <1>9, <2>1, <3>1
  <2>4. RestOfOpen = <<n>> \o R /\ R \in Seq(PathName)
    <3>1. RestOfOpen = <<make83Name(d.text)>> \o R
      BY <1>1, <1>4, RestOfOpenIs DEF RestOfOpen
    <3>2. d.next \in 1 .. Len(call.path) + 1
      BY <1>1, <1>4, DirectoryIsText
    <3>3. R \in Seq(PathName)
      BY <1>4, <3>2, RestOfOpenIs
    <3>4. QED
      BY <2>1, <3>1, <3>3
  <2>5. NextLocals(d.next, call.more, call.text, down, up)
    BY <1>3, <1>9 DEF NextLocals, CallInv
  <2>6. call'.op = call.op /\ call'.path = call.path /\ call'.at = d.next /\ call'.parent = down
        /\ call'.meant = call.meant
    <3> HIDE DEF d
    <3>1. QED
      BY <1>3, <2>5, LocalsAre
  <2> HIDE DEF R, x
  <2>7. parent' = Opened(x) /\ Opened(x).node = x
    <3>1. Opened(x) \in HandleType /\ Opened(x).node = x
      BY <1>3, <2>3, OpenedIs
    <3>2. sub'[down] = Opened(x)
      BY <1>7, <1>9, <3>1
    <3>3. parent' = sub'[down]
      BY <1>7, <2>6 DEF parent, Handle
    <3>4. QED
      BY <3>1, <3>2, <3>3
  <2>8. call'.meant.path = f[parent'.node] \o RestOfOpen'
    <3>1. RestOfOpen' = R
      BY <2>6 DEF RestOfOpen, R
    <3>2. q \o (<<n>> \o R) = Append(q, n) \o R
      <4>1. q \in Seq(PathName) /\ n \in PathName /\ R \in Seq(PathName)
        BY <1>4, <2>1, <2>2, <2>4
      <4>2. QED
        BY <4>1, Together
    <3>3. QED
      BY <1>4, <2>1, <2>3, <2>4, <2>6, <2>7, <3>1, <3>2
  <2>9. d.next <= Len(call.path)
    <3> HIDE DEF d
    <3>1. QED
      BY <1>4, <1>8 DEF Text
  <2>10. pc' = "parents" /\ ~Walking' /\ Opening'
    BY <1>1, <1>9 DEF Walking, Walks, Opening
  <2>11. ParentsMean(f)'
    BY <1>4, <1>5, <2>3, <2>6, <2>7, <2>8, <2>9 DEF ParentsMean
  <2>12. MeantAt(f)'
    BY <1>1, <1>4, <2>6, <2>10, <2>11 DEF MeantAt
  <2>13. pc' # "idle"
    BY <2>10
  <2>14. [Promise!Next]_(Promise!vars)
    BY <1>1, <1>3, <1>4, <1>5, <1>6, <2>6, <2>13, Stutters
  <2>15. QED
    BY <1>5, <2>12, <2>14 DEF Meaning
<1>10. CASE /\ (x = NoNode /\ noRefusal) \/ Refuses
            /\ sub' = [sub EXCEPT ![call.parent] = Nothing(@)]
            /\ pc' = "lost"
            /\ UNCHANGED call
  <2>1. parent'.node = NoNode
    <3>1. parent' = sub'[up]
      BY <1>7, <1>10 DEF parent, Handle
    <3>2. sub'[up] = Closed
      BY <1>7, <1>10 DEF Nothing
    <3>3. QED
      BY <3>1, <3>2 DEF Closed
  <2>2. Excused'
    <3>1. CASE Refuses
      BY <3>1 DEF Refuses, Excused
    <3>2. CASE x = NoNode
      <4>1. Promise!Denied
        BY <1>1, <1>2, <1>3, <3>2, LostIsDenied
      <4>2. Promise!Denied'
        BY <1>1, <1>4, <1>5, <1>10, <4>1, AnswerStays
      <4>3. QED
        BY <4>2 DEF Excused
    <3>3. QED
      BY <1>10, <3>1, <3>2
  <2>3. ~Walking' /\ Opening'
    BY <1>10 DEF Walking, Walks, Opening
  <2>4. MeantAt(f)'
    BY <1>1, <1>4, <1>10, <2>1, <2>2, <2>3 DEF MeantAt
  <2>5. call'.meant = call.meant /\ pc' # "idle"
    BY <1>10
  <2>6. [Promise!Next]_(Promise!vars)
    BY <1>1, <1>3, <1>4, <1>5, <1>6, <2>5, Stutters
  <2>7. QED
    BY <1>5, <2>4, <2>6 DEF Meaning
<1>11. QED
  BY <1>9, <1>10 DEF ParentsNext

-----------------------------------------------------------------------------
(* open. *)

\* What getParentDir leaves of a path is nothing only when a slash ends it.
LEMMA LeftIs ==
  ASSUME NEW path \in Text, NEW at \in 1 .. Len(path) + 1, path = << >> \/ at <= Len(path),
         ~NextDirectory(path, at).more
  PROVE  NextDirectory(path, at).rest = << >> <=> path = << >> \/ Last(path) = Slash
<1>1. CASE path = << >>
  <2> DEFINE first == SkipSlashes(path, at)
  <2>1. NextDirectory(path, at).rest = SubSeq(path, first, Len(path))
    BY DirectoryAt
  <2>2. first \in at .. Len(path) + 1 /\ Len(path) = 0
    BY <1>1, SkipIs
  <2> HIDE DEF first
  <2>3. first = 1
    BY <2>2
  <2>4. SubSeq(path, 1, 0) = << >>
    BY <1>1
  <2>5. QED
    BY <1>1, <2>1, <2>2, <2>3, <2>4
<1>2. CASE path # << >>
  <2>1. at \in 1 .. Len(path)
    BY <1>2 DEF Text
  <2>2. QED
    BY <1>2, <2>1, NothingIsLeft
<1>3. QED
  BY <1>1, <1>2

\* getParentDir has come to the directory that is meant, or to that of the entry.
LEMMA ParentsEndMeans ==
  ASSUME SInv, Meaning, ParentsEnd
  PROVE  Meaning' /\ [Promise!Next]_(Promise!vars)
<1> DEFINE d == NextDirectory(call.path, call.at)
           r == d.rest
<1>1. /\ pc = "parents" /\ pc # "idle" /\ UNCHANGED treeVars /\ done' = done /\ trouble' = trouble
      /\ sub' = sub /\ root' = root /\ ~d.more /\ call' = [call EXCEPT !.text = r]
      /\ pc' = IF r = << >> THEN "same" ELSE "open"
  BY DEF ParentsEnd, volumeVars
<1>2. PICK f : Placing(f) /\ MeantAt(f)
  BY DEF Meaning
<1>3. Rooted /\ trouble \in BOOLEAN /\ CallInv
  BY DEF Meaning, SInv, VolTypes
<1>4. /\ Opening /\ parent.node \in Present /\ f[parent.node] \in Seq(PathName)
      /\ call.meant.path = f[parent.node] \o RestOfOpen
      /\ call.op \in {"openRead", "openWrite"} /\ call.meant.op = MeantOp(call.op, call.path)
      /\ call.meant.op \in Promise!Ops /\ call.meant.path \in Seq(PathName) /\ ~done
      /\ call.path = << >> \/ call.at <= Len(call.path)
      /\ call.path \in Text /\ call.at \in 1 .. Len(call.path) + 1
  BY <1>1, <1>2, <1>3, ParentsAt
<1>5. Placing(f)' /\ Rooted' /\ Tree' = Tree /\ Present' = Present /\ name'[Other] = name[Other]
  BY <1>1, <1>2, <1>3, PlacesStay
<1>6. r = << >> <=> call.path = << >> \/ Last(call.path) = Slash
  BY <1>1, <1>4, LeftIs
<1>7. r \in Text /\ RestOfOpen = IF r = << >> THEN << >> ELSE <<make83Name(r)>>
  BY <1>1, <1>4, DirectoryIsText, RestOfOpenIs DEF RestOfOpen
<1> HIDE DEF r, d
<1>8. NextLocals(call.at, call.more, r, call.parent, call.child)
  BY <1>1, <1>3 DEF NextLocals, CallInv
<1>9. call'.op = call.op /\ call'.path = call.path /\ call'.parent = call.parent
      /\ call'.text = r /\ call'.meant = call.meant
  BY <1>3, <1>8, LocalsAre
<1>10. parent' = parent /\ This' = make83Name(r)
  BY <1>1, <1>9 DEF parent, Handle, This
<1>11. ~Walking' /\ Opening' /\ pc' \in {"same", "open"}
       /\ pc' \notin {"idle", "return", "parents", "lost"}
  BY <1>1 DEF Walking, Walks, Opening
<1>12. pc' = "same" => call'.meant.op = "openRead" /\ call'.meant.path = f[parent'.node]
  <2>1. SUFFICES ASSUME pc' = "same" PROVE call.meant.op = "openRead" /\ call.meant.path = f[parent.node]
    BY <1>9, <1>10
  <2>2. r = << >> /\ RestOfOpen = << >>
    BY <1>1, <1>7, <2>1
  <2>3. call.meant.op = "openRead"
    BY <1>4, <1>6, <2>2 DEF MeantOp
  <2>4. f[parent.node] \o << >> = f[parent.node]
    BY <1>4, ConcatEmptySeq
  <2>5. QED
    BY <1>4, <2>2, <2>3, <2>4
<1>13. pc' = "open" => call'.meant.op = call'.op /\ call'.meant.path = Append(f[parent'.node], This')
  <2>1. SUFFICES ASSUME pc' = "open"
                 PROVE  call.meant.op = call.op /\ call.meant.path = Append(f[parent.node], make83Name(r))
    BY <1>9, <1>10
  <2>2. r # << >>
    BY <1>1, <2>1
  <2>3. call.meant.op = call.op
    BY <1>4, <1>6, <2>2 DEF MeantOp
  <2>4. PICK q, n : q = f[parent.node] /\ n = make83Name(r)
    OBVIOUS
  <2>5. n \in PathName
    BY <1>7, <2>4, MadeIsShort, ShortIsName DEF Text
  <2>6. q \in Seq(PathName) /\ << >> \in Seq(PathName)
    BY <1>4, <2>4
  <2>7. q \o <<n>> = Append(q, n)
    BY <2>5, <2>6, Together
  <2>8. RestOfOpen = <<n>>
    BY <1>7, <2>2, <2>4
  <2>9. QED
    BY <1>4, <2>3, <2>4, <2>7, <2>8
<1>14. OpenMeans(f)'
  <2>1. parent'.node \in Present'
    BY <1>4, <1>5, <1>10
  <2>2. parent'.node # NoNode
    BY <2>1, MarksDiffer DEF Present
  <2>3. QED
    BY <1>12, <1>13, <2>1, <2>2 DEF OpenMeans
<1>15. MeantAt(f)'
  BY <1>1, <1>4, <1>9, <1>11, <1>14 DEF MeantAt
<1>16. [Promise!Next]_(Promise!vars)
  BY <1>1, <1>3, <1>4, <1>5, <1>9, <1>11, Stutters
<1>17. QED
  BY <1>5, <1>15, <1>16 DEF Meaning

\* Whatever text is at hand, nothing has been found.
LEMMA LostMeans ==
  ASSUME SInv, Meaning, Lost
  PROVE  Meaning' /\ [Promise!Next]_(Promise!vars)
<1>1. /\ pc = "lost" /\ pc # "idle" /\ UNCHANGED treeVars /\ done' = done /\ trouble' = trouble
      /\ sub' = sub /\ root' = root
  BY DEF Lost, volumeVars
<1>2. PICK rest : call' = [call EXCEPT !.text = rest] /\ pc' = IF rest = << >> THEN "same" ELSE "open"
  BY DEF Lost
<1>3. PICK f : Placing(f) /\ MeantAt(f)
  BY DEF Meaning
<1>4. Rooted /\ trouble \in BOOLEAN /\ CallInv
  BY DEF Meaning, SInv, VolTypes
<1>5. /\ parent.node = NoNode /\ Excused /\ call.op \in {"openRead", "openWrite"}
      /\ call.meant.op \in Promise!Ops /\ call.meant.path \in Seq(PathName) /\ ~done
  BY <1>1, <1>3 DEF MeantAt, Opening
<1>6. Placing(f)' /\ Rooted' /\ Tree' = Tree /\ name'[Other] = name[Other]
  BY <1>1, <1>3, <1>4, PlacesStay
<1>7. NextLocals(call.at, call.more, rest, call.parent, call.child)
  BY <1>2, <1>4 DEF NextLocals, CallInv
<1>8. call'.op = call.op /\ call'.parent = call.parent /\ call'.meant = call.meant
  BY <1>4, <1>7, LocalsAre
<1>9. parent' = parent
  BY <1>1, <1>8 DEF parent, Handle
<1>10. Excused'
  BY <1>1, <1>5, <1>6, <1>8, AnswerStays DEF Excused
<1>11. ~Walking' /\ Opening' /\ pc' \in {"same", "open"}
       /\ pc' \notin {"idle", "return", "parents", "lost"}
  BY <1>2 DEF Walking, Walks, Opening
<1>12. OpenMeans(f)'
  BY <1>5, <1>9, <1>10 DEF OpenMeans
<1>13. MeantAt(f)'
  BY <1>1, <1>5, <1>8, <1>11, <1>12 DEF MeantAt
<1>14. [Promise!Next]_(Promise!vars)
  BY <1>1, <1>4, <1>5, <1>6, <1>8, <1>11, Stutters
<1>15. QED
  BY <1>6, <1>13, <1>14 DEF Meaning

\* Where open stands in the tree.
LEMMA OpenAt ==
  ASSUME SInv, Rooted, NEW f, Placing(f), MeantAt(f), pc \in {"same", "open"}
  PROVE  /\ Opening /\ call.op \in {"openRead", "openWrite"} /\ call.meant.op \in Promise!Ops /\ ~done
         /\ parent.node = NoNode => Excused
         /\ parent.node # NoNode =>
              /\ parent.node \in Present /\ f[parent.node] \in DOMAIN Tree
              /\ f[parent.node] \in Seq(PathName)
              /\ pc = "same" => call.meant.op = "openRead" /\ call.meant.path = f[parent.node]
              /\ pc = "open" =>
                   /\ call.meant.op = call.op /\ call.meant.path = Append(f[parent.node], This)
                   /\ dirFile.node = parent.node
<1>1. Opening /\ TreeInv
  BY DEF Opening, SInv
<1>2. /\ OpenMeans(f) /\ call.op \in {"openRead", "openWrite"} /\ ~done /\ call.meant.op \in Promise!Ops
  BY <1>1 DEF MeantAt
<1>3. dirFile.node = parent.node
  <2>1. CASE parent.node = RootDir
    <3>1. Handle("root").node = RootDir
      BY HandlesAre DEF Handle
    <3>2. QED
      BY <2>1, <3>1 DEF dirFile, Through
  <2>2. CASE parent.node # RootDir
    BY <2>2 DEF dirFile, Through, parent
  <2>3. QED
    BY <2>1, <2>2
<1>4. parent.node # NoNode => parent.node \in Present
  BY <1>2 DEF OpenMeans
<1>5. parent.node # NoNode => f[parent.node] \in DOMAIN Tree /\ f[parent.node] \in Seq(PathName)
  <2> DEFINE e == parent.node
  <2>1. e # NoNode => e \in Present
    BY <1>4
  <2> HIDE DEF e
  <2>2. e # NoNode => f[e] \in DOMAIN Tree /\ f[e] \in Seq(PathName)
    BY <1>1, <2>1, TreeAt
  <2>3. QED
    BY <2>2 DEF e
<1>6. QED
  BY <1>1, <1>2, <1>3, <1>4, <1>5 DEF OpenMeans

\* The directory itself is returned.
LEMMA OpenSameMeans ==
  ASSUME SInv, Meaning, OpenSame
  PROVE  Meaning' /\ [Promise!Next]_(Promise!vars)
<1>1. /\ pc = "same" /\ pc # "idle" /\ UNCHANGED treeVars /\ call' = call /\ done' = done
      /\ trouble' = trouble /\ pc' = "return" /\ reply' = (parent.node # NoNode)
  BY DEF OpenSame, Returns, volumeVars
<1>2. PICK f : Placing(f) /\ MeantAt(f)
  BY DEF Meaning
<1>3. Rooted /\ trouble \in BOOLEAN
  BY DEF Meaning, SInv, VolTypes
<1>4. parent.node = NoNode => Excused
  BY <1>1, <1>2, <1>3, OpenAt
<1>5. parent.node # NoNode => Promise!Confirmed
  <2>1. SUFFICES ASSUME parent.node # NoNode PROVE Promise!Confirmed
    OBVIOUS
  <2>2. /\ f[parent.node] \in DOMAIN Tree /\ call.meant.op \in Promise!Ops
        /\ call.meant.op = "openRead" /\ call.meant.path = f[parent.node]
    BY <1>1, <1>2, <1>3, <2>1, OpenAt
  <2>3. QED
    BY <2>2, ConfirmedIs
<1>6. IF reply' THEN Promise!Confirmed ELSE Promise!Denied \/ trouble'
  BY <1>1, <1>4, <1>5 DEF Excused
<1>7. trouble' \in BOOLEAN /\ (trouble => trouble')
  BY <1>1, <1>3
<1>8. QED
  BY <1>1, <1>2, <1>3, <1>6, <1>7, EndsQuietly

\* open() finds the entry, which may be of the wrong kind, or finds none to read.
LEMMA OpenFindsMeans ==
  ASSUME SInv, Meaning, OpenFinds
  PROVE  Meaning' /\ [Promise!Next]_(Promise!vars)
<1> DEFINE x == Lookup(dirFile, This)
           ok == x # NoNode /\ (call.op = "openWrite" => kind[x] = "file")
<1>1. /\ pc = "open" /\ pc # "idle" /\ UNCHANGED treeVars /\ call' = call /\ done' = done
      /\ pc' = "return" /\ parent.node # NoNode /\ (x # NoNode \/ call.op = "openRead")
      /\ \/ noRefusal /\ reply' = ok
         \/ Refuses /\ reply' = FALSE
  BY DEF OpenFinds, Returns
<1>2. PICK f : Placing(f) /\ MeantAt(f)
  BY DEF Meaning
<1>3. Rooted /\ trouble \in BOOLEAN /\ TreeInv
  BY DEF Meaning, SInv, VolTypes
<1>4. CASE Refuses /\ reply' = FALSE
  BY <1>1, <1>2, <1>3, <1>4, RefusedQuietly
<1>5. CASE noRefusal /\ reply' = ok
  <2>1. /\ Opening /\ call.op \in {"openRead", "openWrite"} /\ call.meant.op \in Promise!Ops
        /\ parent.node \in Present /\ f[parent.node] \in Seq(PathName)
        /\ call.meant.op = call.op /\ call.meant.path = Append(f[parent.node], This)
        /\ dirFile.node = parent.node
    BY <1>1, <1>2, <1>3, OpenAt
  <2>2. PICK h, n : h = dirFile /\ n = This
    OBVIOUS
  <2>3. Whole(h) /\ n \in ShortName \cup {NoName} /\ h.node \in Present
    BY <2>1, <2>2, DirFileIs, ParentIs
  <2>4. /\ Lookup(h, n) # NoNode =>
             /\ Lookup(h, n) \in Node /\ Lookup(h, n) \in Present
             /\ f[Lookup(h, n)] = Append(f[h.node], n)
        /\ Lookup(h, n) = NoNode => Append(f[h.node], n) \notin DOMAIN Tree
    BY <1>2, <1>3, <2>3, LookupTree
  <2>5. x = Lookup(h, n) /\ call.meant.path = Append(f[h.node], n)
    BY <2>1, <2>2
  <2>6. /\ x # NoNode => x \in Node /\ x \in Present /\ f[x] = call.meant.path
        /\ x = NoNode => call.meant.path \notin DOMAIN Tree
    <3> HIDE DEF x
    <3>1. QED
      BY <2>4, <2>5
  <2>7. ok \in BOOLEAN
    OBVIOUS
  <2> HIDE DEF x
  <2>8. x # NoNode =>
          /\ call.meant.path \in DOMAIN Tree
          /\ Promise!IsDir(call.meant.path) <=> IsDir(x)
          /\ Promise!IsFile(call.meant.path) <=> ~IsDir(x)
    <3>1. SUFFICES ASSUME x # NoNode
                   PROVE  /\ call.meant.path \in DOMAIN Tree
                          /\ Promise!IsDir(call.meant.path) <=> IsDir(x)
                          /\ Promise!IsFile(call.meant.path) <=> ~IsDir(x)
      OBVIOUS
    <3> DEFINE z == f[x]
    <3>2. z \in DOMAIN Tree /\ (Promise!IsDir(z) <=> IsDir(x)) /\ (Promise!IsFile(z) <=> ~IsDir(x))
      BY <1>2, <1>3, <2>6, <3>1, TreeAt
    <3>3. call.meant.path = z
      BY <2>6, <3>1
    <3> HIDE DEF z
    <3>4. QED
      BY <3>2, <3>3
  <2>9. x # NoNode => (kind[x] = "file" <=> ~IsDir(x))
    <3>1. SUFFICES ASSUME x # NoNode PROVE kind[x] = "file" <=> ~IsDir(x)
      OBVIOUS
    <3>2. x \in Node /\ x \in Present /\ x # RootDir
      BY <2>6, <3>1, MarksDiffer
    <3>3. kind[x] \in {"none", "file", "dir"} /\ kind[x] # "none"
      BY <1>3, <3>2 DEF TreeInv, TreeTypes, Present
    <3>4. QED
      BY <3>2, <3>3 DEF IsDir
  <2>10. ok => Promise!Confirmed
    BY <2>1, <2>8, <2>9, ConfirmedIs
  <2>11. ~ok => Promise!Denied
    BY <1>1, <2>1, <2>6, <2>8, <2>9, DeniedIs
  <2>12. trouble' = trouble
    BY <1>5 DEF noRefusal
  <2>13. IF reply' THEN Promise!Confirmed ELSE Promise!Denied \/ trouble'
    BY <1>5, <2>7, <2>10, <2>11
  <2>14. trouble' \in BOOLEAN /\ (trouble => trouble')
    BY <1>3, <2>12
  <2>15. QED
    BY <1>1, <1>2, <1>3, <2>13, <2>14, EndsQuietly
<1>6. QED
  BY <1>1, <1>4, <1>5

\* open() fails: the directory is missing, something is in the way, or the card
\* is to blame.
LEMMA OpenFailsMeans ==
  ASSUME SInv, Meaning, OpenFails
  PROVE  Meaning' /\ [Promise!Next]_(Promise!vars)
<1>1. /\ pc = "open" /\ pc # "idle" /\ UNCHANGED treeVars /\ call' = call /\ done' = done
      /\ pc' = "return" /\ reply' = FALSE
  BY DEF OpenFails, Returns
<1>2. PICK f : Placing(f) /\ MeantAt(f)
  BY DEF Meaning
<1>3. Rooted /\ trouble \in BOOLEAN /\ TreeInv
  BY DEF Meaning, SInv, VolTypes
<1>4. CASE parent.node = NoNode /\ noRefusal
  <2>1. Excused
    BY <1>1, <1>2, <1>3, <1>4, OpenAt
  <2>2. trouble' = trouble
    BY <1>4 DEF noRefusal
  <2>3. Promise!Denied \/ trouble'
    BY <2>1, <2>2 DEF Excused
  <2>4. trouble' \in BOOLEAN /\ (trouble => trouble')
    BY <1>3, <2>2
  <2>5. QED
    BY <1>1, <1>2, <1>3, <2>3, <2>4, EndsQuietly
<1>5. CASE /\ parent.node # NoNode /\ call.op = "openWrite"
           /\ Lookup(dirFile, This) = NoNode
           /\ trouble' = (trouble \/ refused' # refused \/ Missing(dirFile, This))
  <2>1. trouble' \in BOOLEAN /\ (trouble => trouble')
    BY <1>3, <1>5 DEF Missing, Searched
  <2>2. Promise!Denied \/ trouble'
    <3>1. SUFFICES ASSUME ~trouble' PROVE Promise!Denied
      OBVIOUS
    <3>2. This = NoName \/ ~IsDir(dirFile.node) \/ (dirFile.node = RootDir /\ This = name[Other])
      <4>1. PICK h, n : h = dirFile /\ n = This
        OBVIOUS
      <4>2. Inside(h)
        BY <1>1, <4>1, DirFileIs DEF Opening
      <4>3. ~Missing(h, n) /\ Lookup(h, n) = NoNode
        BY <1>5, <3>1, <4>1
      <4>4. IsDir(h.node) /\ n # NoName => h.node = RootDir /\ name[Other] = n
        BY <1>3, <4>2, <4>3, TakenByLabel
      <4>5. QED
        BY <4>1, <4>4
    <3>3. /\ Opening /\ call.meant.op \in Promise!Ops
          /\ parent.node \in Present /\ f[parent.node] \in Seq(PathName)
          /\ call.meant.op = "openWrite" /\ call.meant.path = Append(f[parent.node], This)
          /\ dirFile.node = parent.node
      BY <1>1, <1>2, <1>3, <1>5, OpenAt
    <3>4. PICK d, n : d = parent.node /\ n = This
      OBVIOUS
    <3>5. n \in PathName
      BY <3>3, <3>4, ParentIs, ShortIsName
    <3>6. /\ d \in Present /\ << >> \in Seq(PathName)
          /\ n = NoName \/ ~IsDir(d) \/ (d = RootDir /\ n = name[Other])
      BY <3>2, <3>3, <3>4
    <3>7. Promise!Hindered(Append(f[d], n) \o << >>)
      BY <1>2, <1>3, <3>5, <3>6, HinderedPath
    <3> DEFINE y == Append(f[d], n)
               z == y \o << >>
    <3>8. y \in Seq(PathName) /\ z = y
      <4>1. f[d] \in Seq(PathName)
        BY <3>3, <3>4
      <4>2. y \in Seq(PathName)
        BY <3>5, <4>1
      <4> HIDE DEF y
      <4>3. QED
        BY <4>2, ConcatEmptySeq
    <3>9. call.meant.path = z
      BY <3>3, <3>4, <3>8
    <3> HIDE DEF z
    <3>10. Promise!Hindered(z)
      BY <3>7 DEF z
    <3>11. Promise!Hindered(call.meant.path)
      BY <3>9, <3>10
    <3>12. QED
      BY <3>3, <3>11, DeniedIs
  <2>3. QED
    BY <1>1, <1>2, <1>3, <2>1, <2>2, EndsQuietly
<1>6. QED
  BY <1>4, <1>5 DEF OpenFails

\* open() makes the file it does not find.
LEMMA OpenCreatesMeans ==
  ASSUME SInv, Meaning, OpenCreates
  PROVE  Meaning' /\ [Promise!Next]_(Promise!vars)
<1>1. /\ pc = "open" /\ pc # "idle" /\ call.op = "openWrite" /\ parent.node # NoNode
      /\ CanCreate(dirFile, This) /\ call' = call /\ done' = done /\ pc' = "return"
      /\ \/ noRefusal /\ reply' = TRUE
         \/ Refuses /\ reply' = FALSE
  BY DEF OpenCreates, Returns
<1>2. PICK x \in Unused : Creates(dirFile, x, This, "file")
  BY DEF OpenCreates
<1>3. PICK f : Placing(f) /\ MeantAt(f)
  BY DEF Meaning
<1>4. Rooted /\ trouble \in BOOLEAN /\ reply \in BOOLEAN
  BY DEF Meaning, SInv, VolTypes, CallInv
<1>5. /\ Opening /\ call.meant.op \in Promise!Ops /\ ~done
      /\ call.meant.op = "openWrite" /\ call.meant.path = Append(f[parent.node], This)
      /\ dirFile.node = parent.node
  BY <1>1, <1>3, <1>4, OpenAt
<1>6. PICK h, n, k : h = dirFile /\ n = This /\ k = "file"
  OBVIOUS
<1>7. Whole(h) /\ n \in ShortName \cup {NoName} /\ k \in {"file", "dir"}
  BY <1>5, <1>6, DirFileIs, ParentIs
<1>8. CanCreate(h, n) /\ Creates(h, x, n, k)
  BY <1>1, <1>2, <1>6
<1>9. /\ Rooted'
      /\ Promise!CanBeAdded(Append(f[h.node], n))
      /\ Tree' = Promise!Added(Append(f[h.node], n), k)
      /\ k = "file" => Promise!IsFile(Append(f[h.node], n))'
      /\ name'[Other] = name[Other]
  BY <1>3, <1>4, <1>7, <1>8, MakesPath
<1> DEFINE z == Append(f[h.node], n)
           T == Tree
<1>10. call.meant.path = z /\ call'.meant.path = z
  BY <1>1, <1>5, <1>6
<1>11. trouble' \in BOOLEAN /\ (trouble => trouble') /\ (reply' = TRUE \/ (reply' = FALSE /\ trouble'))
  BY <1>1, <1>4 DEF noRefusal, Refuses
<1>12. Promise!IsFile(z)'
  BY <1>6, <1>9
<1>13. Promise!CanBeAdded(z) /\ T' = Promise!Added(z, "file")
  BY <1>6, <1>9
<1> HIDE DEF z, T
<1>14. Promise!MakeFile
  <2>1. (trouble /\ pc # "idle") = trouble /\ (trouble /\ pc # "idle")' = trouble'
    BY <1>1, <1>4, <1>11
  <2>2. (trouble /\ pc # "idle")' \in {trouble /\ pc # "idle", TRUE}
    BY <1>4, <1>11, <2>1
  <2>3. (reply /\ pc = "idle") = FALSE /\ (reply /\ pc = "idle")' = FALSE
    BY <1>1
  <2>4. Promise!CanBeAdded(call.meant.path) /\ T' = Promise!Added(call.meant.path, "file")
    BY <1>10, <1>13
  <2>5. call.meant.op = "openWrite" /\ call'.meant = call.meant
    BY <1>1, <1>5
  <2>6. QED
    BY <1>1, <1>9, <2>2, <2>3, <2>4, <2>5 DEF Promise!MakeFile, T
<1>15. reply' => Promise!Confirmed'
  <2>1. Promise!IsFile(call.meant.path)'
    <3>1. z' = z
      BY DEF z
    <3>2. QED
      BY <1>10, <1>12 DEF Promise!IsFile
  <2>2. call'.meant.op = "openWrite" /\ call'.meant.op \in Promise!Ops
    BY <1>1, <1>5
  <2>3. QED
    BY <2>1, <2>2, ConfirmedIsAfter
<1>16. IF reply' THEN Promise!Confirmed' ELSE Excused'
  BY <1>11, <1>15 DEF Excused
<1>17. Meaning'
  BY <1>1, <1>3, <1>9, <1>16, ToReturn
<1>18. QED
  BY <1>14, <1>17 DEF Promise!Next

-----------------------------------------------------------------------------
(* Every behaviour does what the promise says. *)

\* A step that changes nothing.
LEMMA StillMeans ==
  ASSUME SInv, Meaning, UNCHANGED vars
  PROVE  Meaning' /\ [Promise!Next]_(Promise!vars)
<1>1. /\ UNCHANGED <<volumeVars, treeVars, callVars>> /\ UNCHANGED treeVars
      /\ call' = call /\ done' = done /\ sub' = sub /\ root' = root /\ trouble' = trouble
      /\ pc' = pc /\ reply' = reply
  BY DEF vars, volumeVars, callVars
<1>2. CASE pc = "idle"
  BY <1>1, <1>2, ListMeans DEF treeVars
<1>3. CASE pc # "idle"
  <2>1. PICK f : Placing(f) /\ MeantAt(f)
    BY DEF Meaning
  <2>2. Rooted /\ trouble \in BOOLEAN
    BY DEF Meaning, SInv, VolTypes
  <2>3. Placing(f)' /\ Rooted' /\ Tree' = Tree /\ Present' = Present /\ name'[Other] = name[Other]
    BY <1>1, <2>1, <2>2, PlacesStay
  <2>4. call.meant.op \in Promise!Ops /\ call'.meant = call.meant
    BY <1>1, <1>3, <2>1 DEF MeantAt
  <2>5. (Promise!Confirmed => Promise!Confirmed') /\ (Excused => Excused')
    BY <1>1, <2>3, <2>4, AnswerStays DEF Excused
  <2>6. [Promise!Next]_(Promise!vars)
    BY <1>1, <1>3, <2>2, <2>3, <2>4, Stutters
  <2>7. /\ parent' = parent /\ This' = This /\ RestOfWalk' = RestOfWalk /\ RestOfOpen' = RestOfOpen
        /\ (Walking <=> Walking') /\ (Opening <=> Opening')
    BY <1>1 DEF parent, Handle, This, RestOfWalk, RestOfOpen, Walking, Opening
  <2>8. Here' = Here
    <3>1. kind' = kind /\ name' = name /\ slots' = slots
      BY <1>1 DEF treeVars
    <3>2. \A d : IsDir(d)' <=> IsDir(d)
      BY <3>1 DEF IsDir
    <3>3. PICK h, n : h = parent /\ n = This
      OBVIOUS
    <3>4. Ends(h, n)' = Ends(h, n)
      BY <3>1 DEF Ends, HasName
    <3>5. Lookup(h, n)' = Lookup(h, n)
      BY <3>1, <3>2, <3>4 DEF Lookup, Searched
    <3>6. h = parent' /\ n = This'
      BY <2>7, <3>3
    <3>7. Here = Lookup(h, n) /\ Here' = Lookup(h, n)'
      BY <3>3, <3>6 DEF Here, Lookup, Searched, Ends, HasName, IsDir
    <3>8. QED
      BY <3>5, <3>7
  <2>9. WalkMeans(f) => WalkMeans(f)'
    BY <1>1, <2>3, <2>7, <2>8 DEF WalkMeans
  <2>10. ParentsMean(f) => ParentsMean(f)'
    BY <1>1, <2>3, <2>7 DEF ParentsMean
  <2>11. OpenMeans(f) => OpenMeans(f)'
    BY <1>1, <2>3, <2>5, <2>7 DEF OpenMeans
  <2>12. MeantAt(f)'
    BY <1>1, <2>1, <2>5, <2>7, <2>9, <2>10, <2>11 DEF MeantAt
  <2>13. QED
    BY <2>3, <2>6, <2>12 DEF Meaning
<1>4. QED
  BY <1>2, <1>3

\* What the application writes to a file changes no directory.
LEMMA WriteMeans ==
  ASSUME Meaning, Write
  PROVE  Meaning' /\ [Promise!Next]_(Promise!vars)
BY ListMeans DEF Write

\* Every step of the calls is one of the promise, or none.
LEMMA StepMeans ==
  SInv /\ Meaning /\ [Next]_vars => Meaning' /\ [Promise!Next]_(Promise!vars)
<1> SUFFICES ASSUME SInv, Meaning, [Next]_vars PROVE Meaning' /\ [Promise!Next]_(Promise!vars)
  OBVIOUS
<1>1. CASE pc = "idle" /\ \E c \in Calls : Ask(c[1], c[2])
  <2>1. PICK c \in Calls : Ask(c[1], c[2])
    BY <1>1
  <2>2. c[1] \in Walks \cup {"openRead", "openWrite"} /\ c[2] \in Seq(Char)
    BY SpiSDAssumption
  <2>3. c[2] \in Text
    BY <2>2, SeqMonotonic DEF Text
  <2>4. QED
    BY <2>1, <2>2, <2>3, AskMeans
<1>2. CASE \E n \in 0 .. TextMax : \E text \in [1 .. n -> TextChar] : Ask("exists", text)
  <2>1. PICK n \in 0 .. TextMax : \E text \in [1 .. n -> TextChar] : Ask("exists", text)
    BY <1>2
  <2>2. PICK text \in [1 .. n -> TextChar] : Ask("exists", text)
    BY <2>1
  <2>3. n \in Nat
    BY SpiSDAssumption
  <2>4. text \in Seq(TextChar)
    BY <2>3
  <2>5. text \in Text
    BY <2>4, SeqMonotonic DEF Text
  <2>6. "exists" \in Walks \cup {"openRead", "openWrite"}
    BY DEF Walks
  <2>7. QED
    BY <2>2, <2>5, <2>6, AskMeans
<1>3. CASE OpenNextFile \/ ListEnds \/ RewindDirectory \/ CloseLister
  <2>1. pc = "idle" /\ UNCHANGED <<kind, name, slots, callVars>>
    BY <1>3 DEF OpenNextFile, ListEnds, RewindDirectory, CloseLister, Listing, treeVars
  <2>2. QED
    BY <2>1, ListMeans
<1>4. CASE UNCHANGED vars
  BY <1>4, StillMeans
<1>5. QED
  BY <1>1, <1>2, <1>3, <1>4, MountMeans, WriteMeans, ExistsMeans, MkdirFindsMeans, MkdirFailsMeans,
     MkdirMakesMeans, WaitsMeans, RefusesMeans, RemovesMeans, DescendMeans, ParentsNextMeans,
     ParentsEndMeans, LostMeans, OpenSameMeans, OpenFindsMeans, OpenCreatesMeans, OpenFailsMeans,
     ReturnMeans
     DEF Next

\* The calls begin where the promise does.
LEMMA InitMeans == Init => Meaning /\ Promise!Init
<1> SUFFICES ASSUME Init PROVE Meaning /\ Promise!Init
  OBVIOUS
<1>1. Rooted /\ Tree = [p \in {<< >>} |-> "dir"]
  BY InitTree
<1>2. pc = "idle" /\ call = NoCall /\ done = FALSE /\ reply = FALSE
  BY DEF Init
<1>3. PICK f : Placing(f)
  BY <1>1 DEF Rooted
<1>4. ~Walking /\ ~Opening
  BY <1>2 DEF Walking, Walks, Opening
<1>5. MeantAt(f)
  BY <1>2, <1>4 DEF MeantAt
<1>6. Meaning
  BY <1>1, <1>3, <1>5 DEF Meaning
<1> DEFINE T == Tree
<1>7. T = [p \in {<< >>} |-> "dir"]
  BY <1>1
<1>8. call.meant = Promise!NoCall
  BY <1>2 DEF NoCall, Promise!NoCall
<1>9. (trouble /\ pc # "idle") = FALSE /\ (reply /\ pc = "idle") = FALSE
  BY <1>2
<1> HIDE DEF T
<1>10. name[Other] = NoName
  BY DEF Init
<1>11. Promise!Init
  BY <1>2, <1>7, <1>8, <1>9, <1>10 DEF Promise!Init, T
<1>12. QED
  BY <1>6, <1>11

\* exists, mkdir, remove, rmdir and open do what a tree of names promises, for
\* all calls, paths, cards and labels, wherever an access is refused: each answer
\* is the truth about the path the text means, and the tree changes only as the
\* call says; no entry gets the name of the card's volume label, which a search
\* finds like any other (SPISD.cpp:85-192, 218-342, SpiSdFile.cpp:394, 525).  A
\* call that would make an entry below a file that is still empty is not made.
THEOREM CallsKeepPromise == Spec => ImplementsFileTree
<1>1. Init => Meaning /\ Promise!Init
  BY InitMeans
<1>2. SInv /\ Meaning /\ [Next]_vars => Meaning' /\ [Promise!Next]_(Promise!vars)
  BY StepMeans
<1>3. Spec => []SInv
  BY CallInvariant
<1>4. QED
  BY <1>1, <1>2, <1>3, PTL DEF Spec, ImplementsFileTree, Promise!Spec

=============================================================================
