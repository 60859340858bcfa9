---------------------------- MODULE MCCostReport -----------------------------
(* Amounts of two decimals and an i64 that ends between two tenths, so that    *)
(* sums, shares and products saturate and the largest amount is rounded up;    *)
(* totals below, at and above what the rates imply.                            *)
EXTENDS CostReport

Use(cpu, reads, writes, read_bytes, write_bytes, size, wasm, recorded) ==
    [cpu |-> cpu, read_entries |-> reads, write_entries |-> writes, read_bytes |-> read_bytes,
     write_bytes |-> write_bytes, tx_size |-> size, wasm_size |-> wasm, recorded |-> recorded]

MCUses == {Use(0, 0, 0, 0, 0, 0, 0, FALSE), Use(10000, 3, 1, 1024, 100, 300, 30720, TRUE),
           Use(9999, 1, 4, 600, 300, 1024, 40000, TRUE)}

Configuration(cpu_fee, kb_fee, read_fee, write_fee, read_kb_fee, cpu, writes) ==
    [compute   |-> [per_10k_insns |-> cpu_fee, cpu |-> cpu],
     cost      |-> [per_read_entry |-> read_fee, per_write_entry |-> write_fee, per_read_1kb |-> read_kb_fee,
                    read_entries |-> 9, write_entries |-> writes, read_bytes |-> 0, write_bytes |-> 300],
     bandwidth |-> [per_1kb |-> kb_fee, tx_size |-> 1300],
     archival  |-> <<>>]

MCSettings == <<"compute", "cost", "bandwidth", "archival">>
MCConfigs == << Configuration(7, 11, 5, 13, 3, 12500, 5), Configuration(900, 70, 3000, 6000, 10, 20000, 4) >>

MCTotals == {-250, 1, 4, 10049}
MCCounts == {<<1, 100>>, <<2, 2>>, <<0>>}
=============================================================================
