----------------------------- MODULE AddOnResources -----------------------------
(***************************************************************************)
(* What an installed add-on consists of, outside the process: its manifest *)
(* in the local catalogue (internal/aom/catalogue), its compose stack,     *)
(* images and volumes (internal/aom/docker), its permission file           *)
(* (internal/aom/iam) and its proxy routes (internal/aom/routes), and what *)
(* the calls of those packages do to them when they succeed.               *)
(***************************************************************************)
EXTENDS Naturals, Sequences

CONSTANTS
    AddOns,         \* names of add-ons
    MaxVersion,     \* versions of an add-on, ordered as GreaterThanOrEqual does
    Images,         \* image references
    VolumeNames,    \* volumes, scoped by the name of the stack
    RouteIds,       \* ids of proxy routes, scoped by the name of the add-on
    ImagesOf,       \* ImagesOf[a][v]: images of the services in the manifest
    VolumesOf,      \* VolumesOf[a][v]: volumes of its environments
    RoutesOf,       \* RoutesOf[a][v]: ids of its publish section
    Delivered       \* Delivered[a]: version the device is delivered with, or Absent

Versions == 1 .. MaxVersion
Absent == 0                     \* no manifest, or no container
Corrupt == MaxVersion + 1       \* a manifest file that cannot be parsed

ASSUME AddOnResourcesAssumption ==
    /\ MaxVersion \in Nat
    /\ ImagesOf \in [AddOns -> [Versions -> SUBSET Images]]
    /\ VolumesOf \in [AddOns -> [Versions -> SUBSET VolumeNames]]
    /\ RoutesOf \in [AddOns -> [Versions -> SUBSET RouteIds]]
    /\ Delivered \in [AddOns -> 0 .. MaxVersion]

VARIABLES
    manifest,       \* manifest[a]: version on disk in the local catalogue
    stack,          \* stack[a]: version whose containers docker has
    images,         \* image references docker has
    volumes,        \* volumes[a]: volumes docker has for the stack
    iam,            \* add-ons with a permission file
    routes          \* routes[a]: ids with a configuration and its link

resources == <<manifest, stack, images, volumes, iam, routes>>

ResourcesTypeOK ==
    /\ manifest \in [AddOns -> 0 .. MaxVersion + 1]
    /\ stack \in [AddOns -> 0 .. MaxVersion]
    /\ images \in SUBSET Images
    /\ volumes \in [AddOns -> SUBSET VolumeNames]
    /\ iam \in SUBSET AddOns
    /\ routes \in [AddOns -> SUBSET RouteIds]

\* What an add-on of the factory has of images, volumes or routes.
Of(what, a) == IF Delivered[a] = Absent THEN {} ELSE what[a][Delivered[a]]

\* The device as it is delivered: with these add-ons, complete, and no others.
ResourcesInit ==
    /\ manifest = Delivered
    /\ stack = Delivered
    /\ images = UNION {Of(ImagesOf, a) : a \in AddOns}
    /\ volumes = [a \in AddOns |-> Of(VolumesOf, a)]
    /\ iam = {a \in AddOns : Delivered[a] # Absent}
    /\ routes = [a \in AddOns |-> Of(RoutesOf, a)]

\* localCatalogue.GetAddOn finds a manifest and can parse it.
Readable(a) == manifest[a] \in Versions

-------------------------------------------------------------------------------
(* The stack service.  Down keeps volumes and images; Up creates the       *)
(* declared volumes and fetches the images that were not imported.  Docker *)
(* refuses to remove an image or a volume that a container uses.           *)

Uses(a, i) == stack[a] # Absent /\ i \in ImagesOf[a][stack[a]]
InUse(i) == \E a \in AddOns : Uses(a, i)
Mounts(a, v) == IF v = Absent THEN {} ELSE VolumesOf[a][v]

DeleteAddOnStack(a) == stack' = [stack EXCEPT ![a] = Absent]

CreateStackWithDockerCompose(a, v) ==
    /\ stack' = [stack EXCEPT ![a] = v]
    /\ volumes' = [volumes EXCEPT ![a] = @ \cup VolumesOf[a][v]]
    /\ images' = images \cup ImagesOf[a][v]

\* An Up that fails has done any part of its work.
FailToCreateStack(a, v) ==
    /\ stack' \in {stack, [stack EXCEPT ![a] = v]}
    /\ \E made \in SUBSET VolumesOf[a][v] :
          volumes' = [volumes EXCEPT ![a] = @ \cup made]
    /\ \E pulled \in SUBSET ImagesOf[a][v] : images' = images \cup pulled

ImportDockerImage(i) == images' = images \cup {i}

\* One reference of the loop in DeleteDockerImages: one that docker does not
\* know is skipped, one that is in use is an error.
DeleteDockerImage(i) ==
    /\ i \in images => ~InUse(i)
    /\ images' = images \ {i}

\* Volumes that the stack, as it is after the step, mounts stay.
RemoveVolumes(a, names) ==
    volumes' = [volumes EXCEPT ![a] = @ \ (names \ Mounts(a, stack'[a]))]

RemoveUnusedVolumes(a, v) == RemoveVolumes(a, VolumesOf[a][v])

\* It returns at the first volume that cannot be removed.
FailToRemoveVolumes(a, v) ==
    \E names \in SUBSET VolumesOf[a][v] : RemoveVolumes(a, names)

-------------------------------------------------------------------------------
(* Local catalogue, permission file and proxy routes *)

SetManifest(a, m) == manifest' = [manifest EXCEPT ![a] = m]
DeleteAddOnDir(a) == SetManifest(a, Absent)

WritePermission(a) == iam' = iam \cup {a}
DeletePermission(a) == iam' = iam \ {a}

\* os.Symlink refuses a link that is already there.
CreateRoute(a, id) ==
    /\ id \notin routes[a]
    /\ routes' = [routes EXCEPT ![a] = @ \cup {id}]

DeleteRoute(a, id) == routes' = [routes EXCEPT ![a] = @ \ {id}]
================================================================================
