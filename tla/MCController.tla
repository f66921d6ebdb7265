---------------------------- MODULE MCController ----------------------------
(* The clients are interchangeable in the safety properties of MCRounds. *)
EXTENDS Controller, TLC
CONSTANT o1

NoGenerators == << >>
OneGenerator == << {{o1}} >>
Interchangeable == Permutations(Clients)
=============================================================================
