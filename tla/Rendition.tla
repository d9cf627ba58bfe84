----------------------------- MODULE Rendition -----------------------------
(***************************************************************************)
(* domain/rendition.rs: the optional metadata of a rendition.  Once a      *)
(* field is established a conflicting value is refused; an empty field is  *)
(* filled in by the first PUT that carries it.                             *)
(***************************************************************************)
CONSTANTS Bandwidths, Resolutions,  \* values a query string may carry
          Absent                    \* Option::None

Metadata == [bandwidth : Bandwidths \cup {Absent},
             resolution : Resolutions \cup {Absent}]

NoMetadata == [bandwidth |-> Absent, resolution |-> Absent]

FieldConflict(a, b) == a # Absent /\ b # Absent /\ a # b

ConflictsWith(a, b) ==
    \/ FieldConflict(a.bandwidth, b.bandwidth)
    \/ FieldConflict(a.resolution, b.resolution)

\* Wrong on purpose: the last PUT wins, even one without the field.
Fill_LastWins(established, incoming) == incoming

Fill(established, incoming) ==
    IF established = Absent THEN incoming ELSE established

\* merge, when the two do not conflict.
Merge(a, b) == [bandwidth |-> Fill(a.bandwidth, b.bandwidth),
                resolution |-> Fill(a.resolution, b.resolution)]
============================================================================
