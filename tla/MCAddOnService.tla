----------------------------- MODULE MCAddOnService -----------------------------
(***************************************************************************)
(* AddOnService for TLC: the contents of the manifests.                    *)
(***************************************************************************)
EXTENDS AddOnService, TLC

\* An add-on in two versions.  An update adds an image and drops a volume; the other
\* image, the other volume and the route are kept.  The codesys add-on
\* beside it is there from the beginning and uses the image that the update adds.
Beside(shared, own(_)) ==
    [a \in AddOns |-> [v \in Versions |-> IF a \in Codesys THEN shared ELSE own(v)]]
MCImagesOf == Beside({"2"}, LAMBDA v : {"base"} \cup {ToString(i) : i \in 2 .. v})
MCVolumesOf == Beside({}, LAMBDA v : {"data"} \cup {ToString(i) : i \in v .. 1})
MCRoutesOf == Beside({}, LAMBDA v : {"ui"})
MCDelivered == [a \in AddOns |-> IF a \in Codesys THEN 1 ELSE Absent]

Symmetry == Permutations(Clients)
================================================================================
