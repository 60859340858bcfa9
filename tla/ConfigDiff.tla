------------------------------ MODULE ConfigDiff ------------------------------
(***************************************************************************)
(* The difference of two configuration snapshots and the exit status       *)
(* config diff gives it (src/src/config_snapshot/diff.rs).  A snapshot has *)
(* the sections the network sent, each with its fields, and remembers when *)
(* each setting was last modified.  Read again from a file, it may bring   *)
(* top-level fields the build does not know.  Percentages are exact here.  *)
(***************************************************************************)
EXTENDS Integers, FiniteSets

CONSTANTS Sections,
          Fields,
          SectionOf,   \* the section of each field
          Priced,      \* the fields that count as pricing
          None

ASSUME ConfigDiffAssumption ==
    /\ SectionOf \in [Fields -> Sections]
    /\ Priced \subseteq Fields

\* FieldDiff
Change(path, kind, old, new, pricing) ==
    [path |-> path, kind |-> kind, old |-> old, new |-> new, pricing |-> pricing]

\* check, of each field of a section
ValueChanges(old, new, s) ==
    {Change(f, "value", old.value[f], new.value[f], f \in Priced) :
       f \in {g \in Fields : SectionOf[g] = s /\ old.value[g] # new.value[g]}}

\* push_presence_change: "(missing)" and "(present)" are no numbers, and count as pricing
PresenceChange(s, kind) == Change(s, kind, 0, 0, TRUE)

\* compare_contract_compute, and alike for each section
SectionChanges(old, new, s) ==
    CASE s \in old.present /\ s \in new.present -> ValueChanges(old, new, s)
      [] s \in old.present /\ s \notin new.present -> {PresenceChange(s, "removed")}
      [] s \notin old.present /\ s \in new.present -> {PresenceChange(s, "added")}
      [] OTHER -> {}

\* diff_snapshots
DiffSnapshots(old, new) == UNION {SectionChanges(old, new, s) : s \in Sections}

\* What SnapshotPayload::parse does not find among the known fields.  settings_last_modified is a
\* field of ConfigSnapshot, but KNOWN_SNAPSHOT_FIELDS does not have it.
UnknownFields(snapshot) ==
    [settings_last_modified |-> snapshot.modified, extra |-> snapshot.extra]

\* SnapshotPayload::from_snapshot
NoUnknownFields == [settings_last_modified |-> None, extra |-> None]

\* diff_payloads
DiffPayloads(old, oldUnknown, new, newUnknown) ==
    DiffSnapshots(old, new)
    \union {Change(n, "unknown", 0, 0, TRUE) : n \in {m \in DOMAIN oldUnknown : oldUnknown[m] # newUnknown[m]}}

PricingOnly(changes) == {c \in changes : c.pricing}

HasPricing(changes) == PricingOnly(changes) # {}

Distance(a, b) == IF a < b THEN b - a ELSE a - b

\* has_significant_pricing_changes: what is not a number is significant, and so is what was zero
HasSignificantPricing(changes, percent) ==
    \E c \in PricingOnly(changes) :
        c.kind = "value" => c.old = 0 \/ Distance(c.old, c.new) * 100 >= percent * Distance(c.old, 0)

\* resolve_exit_code
ExitCode(changes, flags) ==
    LET priced == IF flags.threshold = None THEN HasPricing(changes)
                  ELSE HasSignificantPricing(changes, flags.threshold)
    IN CASE flags.ignore_pricing_exit -> 0
         [] ~flags.ignore_pricing_exit /\ flags.fail_on_any_change -> IF changes # {} THEN 1 ELSE 0
         [] OTHER -> IF priced THEN 1 ELSE 0
=============================================================================
