---------------------------- MODULE MCObjectMapper ----------------------------
EXTENDS ObjectMapper

O(lit, ref, list, parent, children) ==
    [alive |-> TRUE, uri |-> Nothing, parent |-> parent, children |-> children,
     lit |-> lit, ref |-> ref, list |-> list]
Pool(living) == [o \in Object |-> IF o \in DOMAIN living THEN living[o] ELSE Dead]
Lit(k) == <<"literal", k>>

\* A parent that refers to its child, and a child with a list.
MCGraphs ==
    {Pool(<< O(0, 2, <<>>, Null, <<2>>), O(1, Null, <<Lit(1), Lit(0)>>, 1, <<>>) >>)}
MCLists == {<<>>, <<Lit(1)>>, <<ToObject(2), ToObject(1)>>}
================================================================================
