---------------------------- MODULE MCFileTests -----------------------------
(* The instance of FileTests for TLC: nine sectors of two bytes, four of  *)
(* them taken by the file system itself, and a header with room for two    *)
(* sector numbers.                                                         *)
EXTENDS FileTests

(* "abcdefghi1" and "abcdefghi2" agree in their first nine characters.     *)
MCFileName == {"TestFile", "abcdefghi1", "abcdefghi2"}

MCPrefix == [n \in MCFileName |-> IF n = "TestFile" THEN n ELSE "abcdefghi"]

MCTestContents == <<1, 0>>

(* An empty file, one that ends inside a sector, one that fills its header.*)
MCUnixFile == {<<>>, <<1, 1, 0>>, <<0, 1, 1, 0>>}
=============================================================================
