---------------------------- MODULE JobTemplate ----------------------------
(***************************************************************************)
(* MongoshakeJobSpec: the pod template a pass makes of the completed spec. *)
(*                                                                         *)
(* The annotations of the spec are a map that the template shares: the     *)
(* hash of the configuration, written into the template, is written into   *)
(* the working copy as well, which the fallback of writeStatus may store.  *)
(***************************************************************************)
EXTENDS Defaults

CONSTANTS
  Malformed        \* quantities that ParseQuantity rejects

\* The annotation mongoshake/configuration-hash.
HashKey == "configuration-hash"

----------------------------------------------------------------------------
(* CreateResources and CreateResourcesList.                                *)

Amounts == {"cpu", "memory"}

\* An amount that is not given.
NotGiven == ""

Given(r) == {a \in Amounts : r[a] # NotGiven}

WellFormed(r) == \A a \in Amounts : r[a] \notin Malformed

\* The list, or nil with an error.
CreateResourcesList(r) == IF WellFormed(r) THEN [a \in Given(r) |-> r[a]] ELSE Absent

\* An error ends CreateResources with what it has so far, and is not returned.
CreateResources(r) ==
  LET list(field) == IF r[field] = Absent THEN Absent ELSE CreateResourcesList(r[field])
      failed      == r.requests # Absent /\ list("requests") = Absent
  IN  IF r = Absent THEN [requests |-> Absent, limits |-> Absent]
      ELSE [requests |-> list("requests"),
            limits   |-> IF failed THEN Absent ELSE list("limits")]

----------------------------------------------------------------------------
(* MongoshakeJobSpec.                                                      *)

Hashed(annotations, hash) ==
  LET own == IF annotations = Absent THEN {} ELSE DOMAIN annotations
  IN  [k \in own \cup {HashKey} |-> IF k = HashKey THEN hash ELSE annotations[k]]

\* Faulty variants of TemplateAnnotations: a hash that is there is kept, or one that is
\* there goes into the hash.
KeptAnnotations(spec) ==
  IF spec.annotations = Absent THEN Hashed(Absent, spec.configuration)
  ELSE IF HashKey \in DOMAIN spec.annotations THEN spec.annotations
  ELSE Hashed(spec.annotations, spec.configuration)
DeepAnnotations(spec) ==
  LET own == IF spec.annotations = Absent THEN {} ELSE DOMAIN spec.annotations
  IN  Hashed(spec.annotations, IF HashKey \in own THEN spec.annotations ELSE spec.configuration)

\* Distinct configurations have distinct hashes: a configuration stands for its own.  It is
\* never empty here, CheckNSetDefaults has completed it.
TemplateAnnotations(spec) == Hashed(spec.annotations, spec.configuration)

\* What a template takes from the spec.  Its node selector and tolerations are one
\* placement; names, ports, mounts and the command are the same in every template.
Template(spec) ==
  [annotations |-> TemplateAnnotations(spec), resources |-> CreateResources(spec.resources),
   image |-> spec.image, pullPolicy |-> spec.pullPolicy, placement |-> spec.placement]

\* A nil map is not shared: make gives the template one of its own.
SharedWith(spec) ==
  IF spec.annotations = Absent THEN spec
  ELSE [spec EXCEPT !.annotations = TemplateAnnotations(spec)]
============================================================================
