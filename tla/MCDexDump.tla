------------------------------ MODULE MCDexDump ------------------------------
(***************************************************************************)
(* Instances of DexDump for TLC.                                           *)
(***************************************************************************)
EXTENDS DexDump, TLC

CONSTANTS p1, p2, t1, t2

Line(options, files, temp) == [options |-> options, files |-> files, temp |-> temp]

Lines == {Line({"d"}, <<"other", "other">>, t1), Line({"d"}, <<"dex", "other">>, t1)}

OtherLines == {Line({"c"}, <<"other">>, t1), Line({"m"}, <<"other">>, t2),
               Line({"d"}, <<"dex">>, t2), Line({"c"}, <<"short">>, t2),
               Line({"c", "i"}, <<"dex">>, t2), Line({"D"}, <<"dex">>, t2)}

\* Two processes, the second with the temporary file of the first or another.
MCCommands == {p1 :> a @@ p2 :> b : a \in Lines, b \in OtherLines}
=============================================================================
