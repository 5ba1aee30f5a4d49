-------------------------------- MODULE Names --------------------------------
(***************************************************************************)
(* The texts a caller passes: names in 8.3 form and paths.                  *)
(*                                                                         *)
(* make83Name and dirName of SpiSdFile turn a text into the eleven bytes of *)
(* a directory entry and back; getNextPathComponent and the loop of         *)
(* getParentDir cut a path at its slashes, each in its own way.  A text is  *)
(* a sequence of characters; an entry's name has its two parts without      *)
(* the blanks that fill them, which no legal character is.                  *)
(***************************************************************************)
EXTENDS Integers, Sequences, FiniteSets, SequencesExt

CONSTANTS
  Slash, Dot,     \* the two characters that separate
  Letter,         \* the legal characters
  Illegal,        \* characters no name may have
  Upper,          \* Upper[c]: the letter c as an entry has it
  BaseMax,        \* length of the part before the dot: 8
  ExtMax          \* and of the part behind it: 3

Char == Letter \cup Illegal \cup {Slash, Dot}

ASSUME NamesAssumption ==
  /\ Letter \cap Illegal = {} /\ {Slash, Dot} \cap (Letter \cup Illegal) = {}
  /\ Slash # Dot
  /\ Upper \in [Letter -> Letter] /\ \A c \in Letter : Upper[Upper[c]] = Upper[c]
  /\ BaseMax \in Nat \ {0} /\ ExtMax \in Nat \ {0}

-----------------------------------------------------------------------------
(* Names of entries. *)

NoName == [base |-> << >>, ext |-> << >>]

AllLegal(text) == Range(text) \subseteq Letter

InUpper(text) == [i \in DOMAIN text |-> Upper[text[i]]]

\* The place of the first character c at or behind i, or just behind the text.
NextPlace(c, text, i) == Min({j \in i .. Len(text) : text[j] = c} \cup {Len(text) + 1})

\* Slip: the index may go one past the end of a part.
FitsByOne(base, ext) == Len(base) <= BaseMax + 1 /\ Len(ext) <= ExtMax

Fits(base, ext) == Len(base) <= BaseMax /\ Len(ext) <= ExtMax

\* The name an entry gets, or NoName: the first dot ends the base, a second
\* one is no more legal than a slash or a character too many.
make83Name(text) ==
  LET dot == NextPlace(Dot, text, 1)
      base == SubSeq(text, 1, dot - 1)
      ext == SubSeq(text, dot + 1, Len(text))
  IN IF AllLegal(base) /\ AllLegal(ext) /\ Fits(base, ext) /\ base # << >>
       THEN [base |-> InUpper(base), ext |-> InUpper(ext)]
       ELSE NoName

\* Slip: the dot is printed whether or not there is an extension.
dirNameDotted(name) == name.base \o <<Dot>> \o name.ext

\* The text of an entry's name.
dirName(name) == name.base \o IF name.ext = << >> THEN << >> ELSE <<Dot>> \o name.ext

\* What an 8.3 name is: legal characters, at most one dot, a part before it.
Is83(text) ==
  LET dots == {i \in DOMAIN text : text[i] = Dot}
      behind(i) == {j \in DOMAIN text : j > i}
  IN /\ Range(text) \subseteq Letter \cup {Dot}
     /\ Cardinality(dots) <= 1
     /\ \A i \in dots : Cardinality(behind(i)) <= ExtMax
     /\ Cardinality({j \in DOMAIN text \ dots : \A i \in dots : j < i}) \in 1 .. BaseMax

\* The text in upper case and without a dot that nothing follows.
Normal(text) ==
  LET shown == IF Last(text) = Dot THEN Front(text) ELSE text
  IN [i \in DOMAIN shown |-> IF shown[i] = Dot THEN Dot ELSE Upper[shown[i]]]

-----------------------------------------------------------------------------
(* Paths. *)

MaxComponent == BaseMax + 1 + ExtMax

SlashAt(path, i) == i <= Len(path) /\ path[i] = Slash

NextSlash(path, i) == NextPlace(Slash, path, i)

\* getNextPathComponent, from offset i on (counted from 1).
NextComponent(path, i) ==
  LET first == IF SlashAt(path, i) THEN i + 1 ELSE i
      past == Min({NextSlash(path, first), first + MaxComponent})
      next == IF SlashAt(path, past) THEN past + 1 ELSE past
  IN [text |-> SubSeq(path, first, past - 1), next |-> next, more |-> next <= Len(path)]

\* The components walkPath comes to.
WalkParts(path) ==
  LET from[i \in 1 .. Len(path) + 1] ==
        LET c == NextComponent(path, i)
        IN IF c.more THEN <<c.text>> \o from[c.next] ELSE <<c.text>>
  IN from[1]

\* getParentDir: the offset behind the slashes at i, while any slash remains.
SkipSlashes(path, i) == Min({j \in i .. Len(path) : path[j] # Slash} \cup {Len(path) + 1})

\* The directory it enters next from i on, a component cut at twelve
\* characters; "more" says whether a slash remains.
NextDirectory(path, i) ==
  LET first == SkipSlashes(path, i)
      slash == NextSlash(path, first)
      past == Min({slash, first + MaxComponent})
  IN [text |-> SubSeq(path, first, past - 1), next |-> past,
      more |-> slash <= Len(path), rest |-> SubSeq(path, first, Len(path))]

\* The components SpiSDClass::open comes to; the last is empty when a
\* directory is named with a slash behind it.
OpenParts(path) ==
  LET from[i \in 1 .. Len(path) + 1] ==
        LET d == NextDirectory(path, i)
        IN IF d.more THEN <<d.text>> \o from[d.next] ELSE <<d.rest>>
  IN from[1]

\* What a path means: the pieces between its slashes.
Parts(path) ==
  LET firsts == {i \in DOMAIN path : path[i] # Slash /\ (i = 1 \/ path[i - 1] = Slash)}
  IN [k \in 1 .. Cardinality(firsts) |->
       LET i == CHOOSE f \in firsts : Cardinality({g \in firsts : g <= f}) = k IN SubSeq(path, i, NextSlash(path, i) - 1)]

\* Paths both ways of cutting were made for: no two slashes together, no
\* component longer than a name can be.
Plain(path) ==
  /\ \A i \in 1 .. Len(path) - 1 : ~(path[i] = Slash /\ path[i + 1] = Slash)
  /\ Parts(path) # << >>
  /\ \A k \in DOMAIN Parts(path) : Len(Parts(path)[k]) <= MaxComponent

=============================================================================
