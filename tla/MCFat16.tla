------------------------------ MODULE MCFat16 ------------------------------
(* Fat16 on a small instance. *)
EXTENDS Fat16

\* A file with an extension and a name of full length; a directory in one
\* cluster, and one that is longer. Root directories of three entries of a
\* sector each.
MCFiles   == {"f"}
MCSubdirs == {"d", "e"}
MCHeader  == [reserved |-> 1, fats |-> 1, per_fat |-> 1, root_entries |-> 3]
MCFilename == [n \in {"f", "d", "e"} |->
                 CASE n = "f" -> <<"F", "F">> [] n = "d" -> <<"D", " ">> [] OTHER -> <<"E", " ">>]
MCExt      == [n \in {"f", "d", "e"} |-> IF n = "f" THEN <<"X">> ELSE <<" ">>]
MCSubdirSize == [n \in {"d", "e"} |-> IF n = "d" THEN 8 ELSE 12]
MCLower    == [c \in {"F", "X", "D", "E"} |->
                 CASE c = "F" -> "f" [] c = "X" -> "x" [] c = "D" -> "d" [] OTHER -> "e"]

\* Paths of up to two components with up to two slashes before the first and
\* one behind it, names in both cases, and one that no item has.
MCPaths ==
  {slash \o name \o mid \o last :
     slash \in {<<>>, <<"/">>, <<"/", "/">>},
     name  \in {<<>>, <<"f", "F", ".", "x">>, <<"d">>, <<"E">>, <<"f">>},
     mid   \in {<<>>, <<"/">>},
     last  \in {<<>>, <<"D">>}}
MCModes == {<<"r">>, <<"w">>, <<>>}

\* Sectors of four bytes, clusters of two sectors, a file of two clusters that
\* are not adjacent; reads that start on and off a sector, end on, before and
\* after the end of a sector and of a cluster, and go up to the third cluster; and
\* those from positions that are negative as an int of six bits.
MCChainOf == [f \in MCFiles |-> <<3, 5>>]
MCWords    == {0, 5, 4088}
MCEndWords == {0, 4088}
MCOffsets == {0, 4, 7, 8, 57, 60}
MCSizes   == {1, 4, 5, 8, 9}
MCCounts  == {1, 2}
=============================================================================
