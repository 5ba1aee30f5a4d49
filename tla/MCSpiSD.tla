------------------------------- MODULE MCSpiSD -------------------------------
(***************************************************************************)
(* SpiSD with two letters, one of them in both cases, and names of at most  *)
(* 2 + 1 characters, on two of the cards of MCVolume.                       *)
(***************************************************************************)
EXTENDS SpiSD, MCVolume, TLC

CONSTANTS n1, n2, n3

Letters == {"a", "A", "b"}

UpperCase == [c \in Letters |-> IF c = "a" THEN "A" ELSE c]

MCWorked == {Fat16Card, Fat32Card}

\* Each of the two cards has a label with a name that is asked for.
Name83(base) == [base |-> base, ext |-> << >>]

MCLabel ==
  [card \in MCCards |-> IF card = Fat16Card THEN Name83(<<"A", "A">>)
                        ELSE IF card = Fat32Card THEN Name83(<<"b">>)
                        ELSE NoName]

MCCalls ==
  {"exists"} \X {<<"a">>, <<"/", "a", "/", "b">>, <<"a", "*">>}
  \cup {"openRead"} \X {<<"a">>, <<"a", "/", "b">>, <<"b", "/">>, <<"/">>}
  \cup {"mkdir"} \X {<<"a">>, <<"/", "b", "/", "A", "/", "a">>}
  \cup {"remove", "rmdir"} \X {<<"b">>, <<"b", "/", "a">>}
  \cup {"openWrite"} \X {<<"b">>, <<"/", "a", "/", "b">>, <<"a", "A">>}

Symmetry == Permutations({n1, n2, n3})

=============================================================================
