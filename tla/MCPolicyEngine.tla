--------------------------- MODULE MCPolicyEngine ---------------------------
(***************************************************************************)
(* Two lists, two groups, one of them with a schedule over midnight at the *)
(* end of the week and one within a day, three configurations (the last    *)
(* does not compile) and one query at a time, while lists, configuration   *)
(* and groups change.                                                      *)
(***************************************************************************)
EXTENDS PolicyEngine, TLC

CONSTANTS com, shop, www,   \* labels
          ads, social, kids, c1

MCLabels == {com, shop, www}
Shop == <<com, shop>>
WwwShop == <<com, shop, www>>

MCNames == {Shop, WwwShop}
MCPatterns == {Pattern(Shop), Pattern(WwwShop)}
MCFeeds == {{Pattern(Shop)}, {Wildcard(WwwShop)}}

Group(base, allow, schedules) == [base |-> base, allow |-> allow, schedules |-> schedules]
Night == [window |-> [days |-> {2}, from |-> 2, to |-> 1], block |-> <<social>>]
Noon == [window |-> [days |-> {0}, from |-> 1, to |-> 2], block |-> <<ads>>]
Kids == Group(<<>>, {}, <<Night, Noon>>)
Full == [groups |-> (Default :> Group(<<ads>>, {}, <<>>)) @@ (kids :> Kids),
         allow |-> {}, enabled |-> {ads, social}]
Some == [groups |-> Default :> Group(<<ads, social>>, {Wildcard(WwwShop)}, <<>>),
         allow |-> {}, enabled |-> {ads}]
Twice == [groups |-> Default :> Group(<<>>, {}, <<>>),
          allow |-> {Pattern(Shop), Wildcard(Shop)}, enabled |-> {}]
MCConfigs == {Full, Some, Twice}

MCTimes == {<<2, 2>>, <<0, 0>>, <<0, 1>>}
=============================================================================
