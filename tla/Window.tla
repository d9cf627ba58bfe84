------------------------------- MODULE Window -------------------------------
(***************************************************************************)
(* domain/window.rs: the live window that follows the live edge of a       *)
(* rendition, and the retention distance behind it.                        *)
(***************************************************************************)
EXTENDS U64

CONSTANT WindowSize     \* WindowConfig::window_size (--live-window)

\* WindowConfig::validate refuses a zero window before the core starts.
ASSUME WindowAssumption == WindowSize \in Nat \ {0}

LiveStart(edge) == SatSub(edge, SatSub(WindowSize, 1))

LiveRange(edge) == LiveStart(edge)..edge
=============================================================================
