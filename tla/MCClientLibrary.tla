-------------------------- MODULE MCClientLibrary --------------------------
(* A bounded instance of ClientLibrary: one client uses files, another one  *)
(* changes the directories under it.                                        *)
EXTENDS ClientLibrary

CONSTANTS user, admin, nameD, nameF, cell

UserDoes == {"open", "read", "write", "close", "listdir"}
AdminDoes == {"mkdir", "remove", "copy", "append", "defrag", "diskusage", "dumpcache"}
ClientDoes == [c \in {user, admin} |-> IF c = user THEN UserDoes ELSE AdminDoes]

ClientPaths == {<<nameD>>, <<nameF>>, <<nameD, nameF>>}
ClientPairs == {<<<<nameD>>, <<nameF>>>>}
ClientBudget == [c \in {user, admin} |-> IF c = user THEN 5 ELSE 3]
ClientBuffers == {<<cell, cell>>}

\* The state without the last answers, which no guard looks at.
WithoutAnswers == <<fs, list, Open_files, call, begun>>
=============================================================================
