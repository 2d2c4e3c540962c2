-------------------------------- MODULE Lists --------------------------------
(***************************************************************************)
(* What the configuration modules use of Rust's slices and iterators, on    *)
(* sequences.  SequencesExt has most of it, and with it Bags, which makes   *)
(* every proof obligation of a module that extends it several times dearer. *)
(***************************************************************************)
EXTENDS Integers, Sequences, FiniteSets, FiniteSetsExt, Functions, TLC

Contains(s, e) == e \in Range(s)
Last(s) == s[Len(s)]
Front(s) == SubSeq(s, 1, Len(s) - 1)

IsPrefix(s, t) == Len(s) <= Len(t) /\ \A i \in DOMAIN s : s[i] = t[i]
IsSuffix(s, t) ==
    LET skip == Len(t) - Len(s)
    IN  skip >= 0 /\ \A i \in DOMAIN s : s[i] = t[skip + i]

\* The position of the first element that passes the test, 0 when none does.
SelectInSeq(s, Test(_)) ==
    LET hits == {i \in DOMAIN s : Test(s[i])}
    IN  IF hits = {} THEN 0 ELSE Min(hits)

\* Iterator::fold, from the front and from the back.
FoldLeft(op(_, _), init, s) ==
    LET upTo[n \in 0..Len(s)] == IF n = 0 THEN init ELSE op(upTo[n - 1], s[n])
    IN  upTo[Len(s)]
FoldRight(op(_, _), s, init) ==
    LET from[n \in 1..Len(s) + 1] ==
            IF n > Len(s) THEN init ELSE op(s[n], from[n + 1])
    IN  from[1]

\* Iterator::flatten.
FlattenSeq(ss) == FoldLeft(LAMBDA all, s : all \o s, <<>>, ss)
==============================================================================
