------------------------------ MODULE MCPaging ------------------------------
(* Small instances of the job list for TLC.                                *)
EXTENDS Paging

(* From the first page on, and a page whose entries start at -2.           *)
SomeQueries == {<<0, 1>>, <<0, 2>>, <<7, 2>>}

Symmetry == Permutations(Keys) \cup Permutations(Clients)
=============================================================================
