----------------------------- MODULE MCDocuments -----------------------------
(* An instance of Documents for TLC. *)
EXTENDS DocumentsProperties, TLC

File(name, type, size) == [name |-> name, pdf |-> TRUE, type |-> type, size |-> size]

\* Two files that are refused, one by the name of the file that is uploaded last;
\* a second drop exceeds the four entries shown and repeats every name.
SomeDrops ==
    {<<File("a.pdf", "", 0), File("b.pdf", "", 5), File("a.pdf", "application/pdf", 1)>>}
SomeIds == <<"u-1", "u-2">>
SomeReported == {"COMPLETED"}
Nothing == <<>>
=============================================================================
