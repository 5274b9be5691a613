----------------------------- MODULE MCCoreSync -----------------------------
(* Instances of CoreSync.                                                  *)
EXTENDS CoreSync

MCPath == <<<<"d">>, <<"d", "e", "y">>, <<"d", "x">>, <<"p", "prov">>>>

\* "second" extends and changes "first"; "foreign" is another repository's;
\* "clash" wants d to be a file and a directory; "fewer" drops d/x.
MCCommit == {"first", "second", "foreign", "clash", "fewer"}
MCRepository == [c \in MCCommit |-> IF c = "foreign" THEN "other" ELSE "main"]
MCManifest ==
    [first   |-> [i \in {3} |-> "x1"],
     second  |-> [i \in {2, 3} |-> IF i = 2 THEN "y2" ELSE "x2"],
     foreign |-> [i \in {1} |-> "d3"],
     clash   |-> [i \in {1, 3} |-> "x1"],
     fewer   |-> [i \in {2} |-> "y2"]]
=============================================================================
