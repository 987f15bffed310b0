---------------------------- MODULE MC_FileSystem ----------------------------
(* Small instances of FileSystem. *)
EXTENDS FileSystem

\* two words of text, and texts of one, two and three of them
MC_Textos == {<<100>>, <<101>>, <<101, 100>>, <<100, 101, 101>>}
MC_Accesos == {<<0, 1>>, <<1, 2>>, <<2, 3>>, <<3, 2>>}
MC_Heap == {0, -1}
=============================================================================
