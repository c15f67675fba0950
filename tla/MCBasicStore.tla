------------------------------ MODULE MCBasicStore ------------------------------
(* Values of BasicStore's constants for TLC.                                    *)
EXTENDS BasicStore, TLC

CONSTANTS ns1, fileUrl, x, p, lit, b

\* Two documents whose blank nodes have the same label; one refers to its own
\* base and defines the empty prefix.
Blank == [label |-> b, stamps |-> <<>>]
MCDocuments ==
    {[lines |-> {<<Relative(x), Predicate, lit>>, <<Blank, Predicate, lit>>},
      prefixes |-> [q \in {Empty} |-> ns1]],
     [lines |-> {<<Blank, Predicate, Relative(x)>>},
      prefixes |-> [q \in {p} |-> ns1]]}

\* Change sets that add and remove the same triple, and an incomplete one.
ThisTriple == <<[ns |-> ns1, local |-> x], Predicate, lit>>
OtherTriple == <<[ns |-> fileUrl, local |-> x], Predicate, lit>>
MCChangeSets ==
    {<<[op |-> f, t |-> ThisTriple], [op |-> g, t |-> u]>> :
         f, g \in {"add", "remove"}, u \in {ThisTriple, OtherTriple, <<lit, Predicate, lit>>}}
================================================================================
