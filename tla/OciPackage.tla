------------------------------- MODULE OciPackage -------------------------------
(***************************************************************************)
(* The package of an add-on in an OCI registry: how the packager builds it *)
(* (internal/aop/packager, internal/pkg/oras-wrapper) and how the device   *)
(* reads it (internal/aom/registry).                                       *)
(*                                                                         *)
(* A blob is the record of its content, which stands for its digest.  An   *)
(* index has an image manifest per platform; an image manifest has a       *)
(* configuration, the layer with the manifest of the add-on (uc) and a     *)
(* layer per docker image.  A package of version 0 is an image manifest    *)
(* without an index.                                                       *)
(***************************************************************************)
EXTENDS Manifest, FiniteSets
LOCAL INSTANCE FiniteSetsExt
LOCAL INSTANCE Functions

CONSTANTS
    DockerImages,   \* DockerImages[ref]: the platforms in the index of a docker image
    ImageSize,      \* ImageSize[ref]: the size of its layer in a package
    Platform        \* the platform of the device

PackageVersionV1_0 == "1.0"

\* What a function returns with an error, and a nil that comes without one.
Error == [media |-> "error"]
Nil == [media |-> "nil"]

--------------------------------------------------------------------------------
\* Building a package

AppendUcManifest(m, schemaVersion) ==
    [media |-> "uc", schemaVersion |-> schemaVersion, manifest |-> m, size |-> 1]

AppendDockerImage(ref, platform) ==
    [media |-> "image", title |-> ref, platform |-> platform, size |-> ImageSize[ref]]

CreateImageConfigTuple(platform) == [media |-> "config", platform |-> platform]

CreateImageManifestTuple(platform, uc, images) ==
    [media |-> "manifest", config |-> CreateImageConfigTuple(platform), uc |-> uc, images |-> images]

CreateImageIndexTuple(manifests) ==
    [media |-> "index", version |-> PackageVersionV1_0, manifests |-> manifests]

\* Pushing a blob that the store already has is an error: no two services may have
\* the same layer.  images[p] is a function from the services.
BuildAndTag(uc, images) ==
    IF \E p \in DOMAIN images : ~ IsInjective(images[p])
    THEN Error
    ELSE CreateImageIndexTuple([p \in DOMAIN images |->
            CreateImageManifestTuple(p, uc, Range(images[p]))])

\* Attestations that buildkit attaches are not platforms.
isAttestationManifest(platform) == platform = "unknown"
getSupportedPlatforms(ref) == {p \in DockerImages[ref] : ~ isAttestationManifest(p)}

\* refs[s] is the image of service s; a platform has the images that support it.
appendDockerImages(refs) ==
    [p \in UNION {getSupportedPlatforms(refs[s]) : s \in DOMAIN refs} |->
        [s \in {t \in DOMAIN refs : p \in getSupportedPlatforms(refs[t])} |->
            AppendDockerImage(refs[s], p)]]

\* The error of BuildAndTag is assigned to a variable of an inner scope, and what
\* is returned is the one of the call before: none.
CreateOciArtifact(m) ==
    LET refs == GetDockerImageReferences(m.services)
        built == BuildAndTag(AppendUcManifest(m, m.manifestVersion), appendDockerImages(refs))
    IN  IF \E s \in DOMAIN refs : getSupportedPlatforms(refs[s]) = {} THEN Error
        ELSE IF built = Error THEN Nil ELSE built

--------------------------------------------------------------------------------
\* Reading a package: orasAddonMigrateRepository

IsDummy(layer) == "of" \in DOMAIN layer

\* The docker images stay where they are; a small layer stands for each.
createAndAppendDummyDockerImage(layer) == [media |-> "image", of |-> layer, size |-> 1]

migrateImageManifestDescV0_to_V1_0(manifest) ==
    LET m == MigrateUcManifest(manifest.uc.manifest)
        platform == manifest.config.platform
    IN  IF manifest.uc = Nil \/ m = NoManifest THEN Error
        ELSE CreateImageIndexTuple([p \in {platform} |->
                CreateImageManifestTuple(p, AppendUcManifest(m, ValidManifestVersion),
                    {createAndAppendDummyDockerImage(l) : l \in manifest.images})])

migrateImageIndexDesc(index) == IF index.version = PackageVersionV1_0 THEN index ELSE Error

migrate(root) ==
    CASE root.media = "manifest" -> migrateImageManifestDescV0_to_V1_0(root)
      [] root.media = "index" -> migrateImageIndexDesc(root)
      [] OTHER -> Error

\* What Fetch gets from the registry for a layer, and the size of that.
Original(layer) == IF IsDummy(layer) THEN layer.of ELSE layer

\* Faulty variant: the size of the stand-in.
DescriptorSize(layer) == layer.size

MapDescriptorSize(layer) == Original(layer).size

--------------------------------------------------------------------------------
\* Reading a package: ORASAddOnRegistry

findSupportedManifest(root) ==
    IF root.media = "index" /\ Platform \in DOMAIN root.manifests
    THEN root.manifests[Platform] ELSE Error

hasUcImageLayer(manifest) == manifest # Error /\ manifest.uc # Nil

\* ucImageLayerProcessor.Filter
Filter(uc) == uc # Nil /\ uc.schemaVersion = ValidManifestVersion

cumulativeLayerSize(manifest) ==
    MapThenSumSet(MapDescriptorSize, manifest.images \cup {manifest.uc})

\* 2.5 times the size, rounded up.
estimatedInstallSizeBytes(size) == (5 * size + 1) \div 2
================================================================================
