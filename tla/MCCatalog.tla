------------------------------- MODULE MCCatalog -------------------------------
(***************************************************************************)
(* Small instances of Catalog.  Queries, models and tables are             *)
(* interchangeable.                                                        *)
(***************************************************************************)
EXTENDS Catalog, TLC
Symmetry == Permutations(Queries) \cup Permutations(Models) \cup Permutations(Tables)
=============================================================================
