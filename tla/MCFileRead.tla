----------------------------- MODULE MCFileRead -----------------------------
(***************************************************************************)
(* FileRead with the readers of one image: the first process and a child   *)
(* forked after the file was opened, which share it and the address of     *)
(* their buffer; and a child with a file and a buffer of its own.          *)
(***************************************************************************)
EXTENDS FileRead

CONSTANTS p1, p2, p3, f1, f2

MCFileOf == [p \in Readers |-> IF p = p3 THEN f2 ELSE f1]

MCPhys == [p \in Readers |-> IF p = p1 THEN 0 ELSE 10]

MCBuffers == [p \in Readers |-> CASE p = p1 -> {1, SegEnd} [] p = p3 -> {3} [] OTHER -> {1}]

MCRequests == {<<1, 1>>, <<3, 1>>}
=============================================================================
