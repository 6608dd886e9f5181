----------------------------- MODULE MCCloudRun -----------------------------
(***************************************************************************)
(* Instances of CloudRun for TLC.                                          *)
(***************************************************************************)
EXTENDS CloudRun, TLC

CONSTANTS web, c1, c2, p1, p2, auto, named, none

Template(revision, launch) == [revision |-> revision, launch |-> launch]

\* A local process under a generated revision name, an image under a given one, an invalid
\* resource, and a traffic list that does not add up.
MCInputs ==
  {[template |-> Template(auto, "process"), traffic |-> none, public |-> none],
   [template |-> Template(named, "image"), traffic |-> <<60, 40>>, public |-> none],
   [template |-> none, traffic |-> <<50>>, public |-> none]}

MCMasks == {none, {"template"}, {"traffic", "public"}}

Symmetry == Permutations(Conns) \cup Permutations(Ports)

=============================================================================
