--------------------------- MODULE MCFileVersions ---------------------------
(* Constants of FileVersions for TLC. *)
EXTENDS FileVersions, TLC
PdfAndDxf == [c \in Contents |-> IF c = "plan" THEN "dxf" ELSE "pdf"]
Symmetry == Permutations(Files) \cup Permutations(Requests)
=============================================================================
