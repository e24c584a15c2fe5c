---------------------------- MODULE MCTestImport ----------------------------
(* Two tests of one title, one of another, one that is not valid, and a file  *)
(* that is not text.                                                          *)
EXTENDS TestImport, TLC

CONSTANTS algebra, algebra2, geometry, broken, binary, A, G

TitleOfC == algebra :> A @@ algebra2 :> A @@ geometry :> G @@ broken :> A @@ binary :> A
SizeC == algebra :> 2 @@ algebra2 :> 1 @@ geometry :> 1 @@ broken :> 1 @@ binary :> 1
BatchesC ==
    {<<algebra>>, <<algebra2, algebra>>, <<algebra2, broken>>, <<geometry, binary>>}
=============================================================================
