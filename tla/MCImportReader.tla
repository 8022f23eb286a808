--------------------------- MODULE MCImportReader ---------------------------
(***************************************************************************)
(* Three templates parsed in turn.  "main" reaches a location that imports *)
(* itself, a foreign one and one imported by two, and finds                *)
(* definitions of one path in several places; "other" imports what the     *)
(* first has left in the cache; "ring" is in a circle, and may itself be   *)
(* impossible to read.                                                     *)
(***************************************************************************)
EXTENDS MergedImports, TLC

CONSTANTS w1, w2

MCLocations == {"a", "b", "c", "d", "e", "f", "main", "other", "ring"}

MCMains == <<"main", "other", "ring">>

MCImports ==
  "main" :> <<"a", "b">> @@ "a" :> <<"c", "a">> @@ "b" :> <<"c", "d">> @@ "c" :> <<"e">>
    @@ "d" :> <<>> @@ "e" :> <<>> @@ "other" :> <<"e", "c">>
    @@ "ring" :> <<"f", "e">> @@ "f" :> <<"ring">>

MCDefines ==
  "main" :> {"x", "y"} @@ "a" :> {"x", "a"} @@ "b" :> {"x", "y", "b"} @@ "c" :> {"y", "c"}
    @@ "d" :> {"x", "d"} @@ "e" :> {"y", "e"} @@ "other" :> {"y", "other"}
    @@ "ring" :> {"x", "ring"} @@ "f" :> {"x", "f"}
=============================================================================
