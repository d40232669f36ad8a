------------------------------- MODULE MCUpload -------------------------------
(* Upload with two clients and two paths, for TLC. *)
EXTENDS Upload, TLC

\* A whole upload in one message, and every item in a message of its own, which
\* gives every longer upload and every mix of two.
MCShapes == {<<"name", "data", "end">>, <<"name">>, <<"data">>, <<"end">>}

Symmetry == Permutations(Clients) \cup Permutations(Names)
===============================================================================
