----------------------------- MODULE MCDistribution -----------------------------
EXTENDS Distribution

\* 1.9-1 and 1.10-1, of which the registry lists the greater one first.
V9 == Version(9, 1)
V10 == Version(10, 1)
MCTagOrder == <<V10, V9>>

\* The latest version, and 1.9-1.
MCWanted == {NoVersion, V9}

Service(image) ==
    [type |-> ComposeType, image |-> image, restart |-> "always", networkMode |-> "",
     networks |-> {}, volumes |-> {}, environment |-> <<>>, user |-> ""]
ManifestFor(version, refs) ==
    [version |-> version] @@
    Manifests([s \in DOMAIN refs |-> Service(refs[s])], <<>>, <<>>, {}, TRUE)

\* big does not fit with 2.5 times its size; single is not a multi-platform image.
MCDockerImages ==
    [small |-> {"arm", "amd64", "unknown"}, other |-> {"arm"}, big |-> {"arm"}, single |-> {}]
MCImageSize == [small |-> 2, other |-> 2, big |-> 8, single |-> 1]

MCLegacy ==
    [old |-> [tag |-> V9, root |-> CreateImageManifestTuple("arm",
        AppendUcManifest(ManifestFor(V9, [a |-> "big"]), ""), {AppendDockerImage("big", "arm")})],
     odd |-> [tag |-> V10, root |-> CreateOciArtifact(
        MigrateUcManifest(ManifestFor(V10, [a |-> "other"])))]]

\* odd was published by another release of the packager; push refuses wrong.
MCMalformed == {"odd", "wrong"}

MCPreinstalled == {None, "old"}

Given == [username |-> TRUE, password |-> TRUE, repository |-> TRUE]
Submit(m) == [manifest |-> m, logo |-> TRUE, credentials |-> Given]
MCSubmissions ==
    [fixed  |-> Submit(ManifestFor(V9, [a |-> "small", b |-> "other"])),
     new    |-> Submit(MigrateUcManifest(ManifestFor(V10, [a |-> "small"]))),
     needy  |-> Submit([MigrateUcManifest(ManifestFor(V10, [a |-> "other"])) EXCEPT
                          !.features = {"root_access"}]),
     single |-> Submit(ManifestFor(V9, [a |-> "single"])),
     twice  |-> Submit(ManifestFor(V9, [a |-> "small", b |-> "small"])),
     wrong  |-> Submit(ManifestFor(V9, [a |-> "small"])),
     bare   |-> Submit([ManifestFor(V9, [a |-> "small"]) EXCEPT !.vendor = FALSE]),
     nologo |-> [Submit(ManifestFor(V9, [a |-> "small"])) EXCEPT !.logo = FALSE],
     nouser |-> [Submit(ManifestFor(V9, [a |-> "small"])) EXCEPT !.credentials.username = FALSE]]
================================================================================
