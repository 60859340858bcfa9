-------------------------- MODULE MCEstimateCache --------------------------
(* Two processes, three keys and two networks: commands overlap, reuse a key   *)
(* for another network, and exceed both kinds of quota.  A deletion is of one  *)
(* network's older rows, of a day's rows of one key, or of everything.         *)
EXTENDS EstimateCache, TLC

\* Two estimates; and one estimate with no room for its history
MCQuotas == {[entries |-> 2, bytes |-> 0], [entries |-> 1, bytes |-> 2]}

Deletion(args, all, dry_run, yes) ==
    [command |-> "delete", args |-> args, all |-> all, dry_run |-> dry_run, yes |-> yes,
     filter |-> Everything]

NoArgs == [network |-> None, keys |-> None, since |-> None, to |-> None, older_than |-> None]

MCDeletions ==
    {Deletion([NoArgs EXCEPT !.network = n, !.older_than = 1], FALSE, FALSE, FALSE) : n \in Networks}
    \union {Deletion([NoArgs EXCEPT !.keys = {k}, !.since = [instant |-> 1], !.to = [day |-> 0]],
                     FALSE, FALSE, TRUE) : k \in Keys}
    \union {Deletion(NoArgs, TRUE, d, TRUE) : d \in BOOLEAN}

Symmetry == Permutations(Procs) \union Permutations(Keys) \union Permutations(Networks)
=============================================================================
