---------------------------- MODULE MCStoredObjects ----------------------------
EXTENDS StoredObjects

O(lit, ref, list, parent, children) ==
    [alive |-> TRUE, uri |-> Nothing, parent |-> parent, children |-> children,
     lit |-> lit, ref |-> ref, list |-> list]
Pool(living) == [o \in Object |-> IF o \in DOMAIN living THEN living[o] ELSE Dead]
Lit(k) == <<"literal", k>>

MCGraphs ==
    {Pool(g) : g \in {
        \* Objects that refer to each other, one of them twice.
        << O(0, 2, <<ToObject(2), ToObject(3)>>, Null, <<>>), O(1, 1, <<Lit(1)>>, Null, <<>>),
           O(0, 3, <<>>, Null, <<>>) >>,
        \* A parent and two children, a list in common.
        << O(1, 3, <<Lit(0), Lit(0)>>, Null, <<2, 3>>), O(1, Null, <<ToObject(3)>>, 1, <<>>),
           O(0, 2, <<ToObject(3), ToObject(2)>>, 1, <<>>) >>}}
MCLists == {<<>>, <<Lit(1), Lit(0)>>, <<ToObject(2), ToObject(1)>>}

All == {"parent", "children", "siblings", "properties"}
Setting(bp, fp, psp, ap) == [bp |-> bp, fp |-> fp, psp |-> psp, ap |-> ap]
MCPolicies ==
    {Setting("PermitBlankObjectNodes", {"properties"}, "StoreAlways", "IgnoreAbsentProperties"),
     Setting("NoBlankObjectNodes", {"properties"}, "StoreIfChanged", "ResetAbsentProperties"),
     Setting("NoBlankObjectNodes", All, "StoreIfChanged", "ResetAbsentProperties"),
     Setting("NeverUseBlankNodes", {}, "StoreAlways", "ResetAbsentProperties")}

\* A list, and the same without its first element.
MCOneList ==
    {Pool(<< O(1, Null, <<ToObject(2), ToObject(3)>>, Null, <<>>),
             O(0, Null, <<>>, Null, <<>>), O(0, Null, <<>>, Null, <<>>) >>)}
MCTails == {<<ToObject(3)>>}
MCNoBlankNodes == {Setting("NeverUseBlankNodes", {}, "StoreAlways", "ResetAbsentProperties")}
================================================================================
