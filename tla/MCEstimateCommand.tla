------------------------- MODULE MCEstimateCommand --------------------------
(* Every combination of the flags that are not ruled out by another, runs of  *)
(* one and of three simulations, and answers in each of their shapes.         *)
EXTENDS EstimateCommand

Plain == [diff |-> FALSE, wasm_new |-> FALSE, watch |-> FALSE, repeat |-> 1, no_cache |-> FALSE,
          clear_cache |-> FALSE, compare |-> FALSE, history |-> FALSE, dry_run |-> FALSE,
          auto_snapshot |-> FALSE, project |-> "none", wasm |-> "valid", args |-> "valid"]

MCOptions ==
    {[Plain EXCEPT !.no_cache = nc, !.clear_cache = cc, !.compare = c, !.history = h, !.dry_run = d,
                   !.auto_snapshot = s, !.args = a, !.repeat = r] :
        nc, cc, c, h, d, s \in BOOLEAN, a \in {"valid", "invalid"}, r \in {1, 3}}
    \union {[Plain EXCEPT !.project = p, !.wasm = w, !.wasm_new = n, !.watch = b, !.dry_run = d] :
        p \in {"valid", "invalid"}, w \in {"valid", "invalid"}, n, b, d \in BOOLEAN}
    \union {[Plain EXCEPT !.diff = TRUE, !.wasm_new = TRUE, !.dry_run = d, !.args = a, !.no_cache = c] :
        d, c \in BOOLEAN, a \in {"valid", "invalid", "invalid for the new"}}

Data(cpu, fee) == [cpu |-> cpu, io |-> 1, fee |-> fee]

MCAnswers ==
    {Answer(Absent, Absent, Data(1, 2), 1, 2),              \* a modern answer
     Answer(Absent, Absent, Data(2, 2), 1, Unreadable),     \* whose fee is only in its data
     Answer(Absent, 1, Absent, 1, 3),                       \* an older one
     Answer(Absent, Absent, Absent, 1, Absent),             \* nothing but the ledger
     Answer(Absent, Absent, Data(1, 2), 1, 0),              \* two fees, the first of them none
     Answer(Absent, Absent, Absent, Absent, 2),
     Answer(Absent, Absent, Unreadable, 1, 2),
     Answer(Absent, Absent, Data(1, 2), 1, Short),
     Answer(Unreadable, Absent, Data(1, 2), 1, 2)}
=============================================================================
