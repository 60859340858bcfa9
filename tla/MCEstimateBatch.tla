-------------------------- MODULE MCEstimateBatch ---------------------------
(* Two files, contracts of one and of two functions, and a file that is no    *)
(* contract; answers that are estimates, errors, or neither.                  *)
EXTENDS EstimateBatch

Fn(name, params, declared) == [name |-> name, params |-> params, declared |-> declared]
Counter == <<Fn("get", 0, FALSE), Fn("set", 1, TRUE)>>
Bare == <<Fn("get", 0, FALSE), Fn("add", 1, FALSE)>>

MCFiles == {Counter, Bare, Unloadable}
Worlds == {[a |-> x, b |-> y] : x, y \in MCFiles}

Plain == [command |-> "batch", paths |-> <<"a", "b">>, files |-> [a |-> Counter, b |-> Bare], fns |-> {},
          fn |-> Absent, args |-> 0, id |-> "valid", no_cache |-> FALSE, dry_run |-> FALSE,
          format |-> "table", quiet |-> FALSE, entries |-> <<>>]

Invoke(path, fn, args, id, endpoint) == [path |-> path, fn |-> fn, args |-> args, id |-> id, endpoint |-> endpoint]

MCCommands ==
    {[Plain EXCEPT !.files = w, !.fn = f, !.args = n, !.id = i, !.paths = p] :
        w \in {[a |-> Counter, b |-> Bare], [a |-> Unloadable, b |-> Counter]},
        f \in {Absent, "set", "none"}, n \in {0, 1}, i \in {"none", "valid"},
        p \in {<<"a", "b">>, <<"a", "a">>, <<>>}}
    \union {[Plain EXCEPT !.command = c, !.paths = <<"a">>, !.files = w, !.fns = s, !.id = i,
                          !.no_cache = n, !.format = f, !.quiet = q] :
        c \in {"estimate-all"}, w \in {[a |-> x] : x \in MCFiles},
        s \in {{}, {"get"}, {"get", "none"}}, i \in {"none", "valid"}, n, q \in BOOLEAN,
        f \in {"table", "json", "csv", "markdown"}}
    \union {[Plain EXCEPT !.command = "cache warm", !.paths = <<"a">>, !.files = w, !.id = i] :
        w \in {[a |-> x] : x \in MCFiles}, i \in {"none", "valid", "invalid"}}
    \union {[Plain EXCEPT !.command = "manifest", !.dry_run = d,
                          !.entries = <<Invoke("a", "get", 0, "valid", TRUE), Invoke("b", f, n, i, e)>>] :
        d, e \in BOOLEAN, i \in {"valid", "invalid"}, f \in {"add", "none"}, n \in {0, 1}}

Data(cpu, fee) == [cpu |-> cpu, io |-> 1, fee |-> fee]

MCAnswers ==
    {Answer(Absent, Absent, Data(1, 2), 1, 2),
     Answer(Absent, 1, Absent, 1, 3),
     Answer(Absent, Absent, Absent, Absent, 2),
     Answer(Absent, Absent, Unreadable, 1, 2),
     Answer(Absent, Absent, Data(1, 2), 1, Short),
     Answer(Unreadable, Absent, Data(1, 2), 1, 2)}
=============================================================================
