------------------------------ MODULE MCSources ------------------------------
(* Instances of Sources for model checking. *)
EXTENDS Sources
MCKinds == {"proxy", "hosted", "sdk", "public"}

\* One source of either vocabulary is pinned, and one listens to anybody
MCPinned == {"proxy", "hosted"}
=============================================================================
