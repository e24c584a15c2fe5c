---------------------------- MODULE MCMaterialImport ----------------------------
(* A root with a folder, and a file of the same name in each. *)
EXTENDS MaterialImport, TLC

Interchangeable == Permutations(Importers)

FoldersC == {"root", "algebra"}
FilesC == {"intro", "sets"}
WalkC == <<"root", "algebra", "intro", "sets">>
ParentC == "algebra" :> "root" @@ "intro" :> "root" @@ "sets" :> "algebra"
BaseC == "root" :> "root" @@ "algebra" :> "algebra"
         @@ "intro" :> "notes" @@ "sets" :> "notes"
=============================================================================
