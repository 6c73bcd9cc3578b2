--------------------------- MODULE MCSpreadGroups ---------------------------
(* Three daemons, four clients and two groups.  The starts: one ring that      *)
(* partitions while clients join and leave, or are killed; two rings that      *)
(* merge; three rings whose exchange of groups is cut by the next membership,  *)
(* which loses a daemon or keeps them all.                                     *)
EXTENDS SpreadGroups

MCSegOf == [p \in Procs |-> 1]
MCHomeOf == [m \in Members |-> CASE m = "a" -> 1 [] m = "b" -> 2 [] m = "c" -> 3 [] m = "e" -> 1]

Op(t, m, g) == [type |-> t, from |-> m, group |-> g, memb |-> <<0, 0>>]
All == {{1, 2, 3}}

MCStarts == {
    [rings |-> <<{1, 2, 3}>>, groups |-> <<{"a", "b", "c"}, {"b"}>>,
     script |-> <<<<Op("LEAVE", "a", 1)>>, <<>>, <<Op("JOIN", "c", 2)>>>>,
     forms |-> <<{{1, 2}, {2, 3}}, All>>],
    [rings |-> <<{1, 2, 3}>>, groups |-> <<{"a", "b"}, {"c"}>>,
     script |-> <<<<Op("KILL", "a", 1)>>, <<Op("DATA", "b", 1)>>, <<>>>>,
     forms |-> <<{{2, 3}}, All>>],
    [rings |-> <<{1}, {2, 3}>>, groups |-> <<{"a", "b"}, {"c", "e"}>>,
     script |-> <<<<>>, <<>>, <<Op("JOIN", "c", 1)>>>>,
     forms |-> <<All, {{1, 2}, {1, 2, 3}}>>],
    [rings |-> <<{1}, {2}, {3}>>, groups |-> <<{"a", "b", "c"}, {"e"}>>,
     script |-> <<<<>>, <<>>, <<>>>>,
     forms |-> <<{{1, 2}}, {{1, 2}}, {{2, 3}}>>],
    [rings |-> <<{1}, {2}, {3}>>, groups |-> <<{"a", "b", "c"}, {"a", "e"}>>,
     script |-> <<<<>>, <<>>, <<>>>>,
     forms |-> <<All, All>>]}
=============================================================================
