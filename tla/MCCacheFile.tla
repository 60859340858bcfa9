----------------------------- MODULE MCCacheFile -----------------------------
(* Two processes and three commands, so that two of them overlap on a file the  *)
(* third one made; one JSON file, as each is imported by itself; and three      *)
(* database files: the first, its successor, and one made by mistake.           *)
EXTENDS CacheFile, TLC

Symmetry == Permutations(Procs) \union Permutations(Keys)
=============================================================================
