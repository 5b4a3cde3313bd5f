-------------------------------- MODULE Manifest --------------------------------
(***************************************************************************)
(* The functions of internal/pkg/manifest and of internal/aom that compute *)
(* with manifests: migration from version 0.1, volumes and images, the     *)
(* settings of the user, and what of it all reaches docker in the compose  *)
(* file.                                                                   *)
(*                                                                         *)
(* A manifest is a record with the fields of Root that a computation looks *)
(* at.  Maps of Go are functions; the settings are a sequence, as in the   *)
(* code.  "" is the empty string, also for a property that is not there.   *)
(***************************************************************************)
EXTENDS Naturals, Sequences

ValidManifestVersion == "0.2"
InternalAddOnNetworkName == "internal-bridge"
ComposeType == "docker-compose"

\* A service has the fields of its Config; volumes are the names of volumes that
\* occur in the strings of its volumes property, networks those it is attached to.

\* NewEnvironment(...).WithVolumes(...).WithNetworks(...): volumes is a set of
\* records with the key of the volume and, of its settings, driver and name.
NewEnvironment(type, volumes, networks) ==
    [type |-> type, volumes |-> volumes, networks |-> networks]

\* NewSettings with WithTextBoxValue or WithSelectItems; an item is its value
\* and whether it is selected.
NewSettings(name, value, select) ==
    [name |-> name, value |-> value, select |-> select]

Manifests(services, environments, settings, publish, vendor) ==
    [manifestVersion |-> "0.1", services |-> services, environments |-> environments,
     settings |-> settings, publish |-> publish, vendor |-> vendor, features |-> {}]

\* Where the functions of the code return an error.
NoManifest == [manifestVersion |-> "none"]

--------------------------------------------------------------------------------
\* Volumes and images

\* A service may name a volume that has a name of its own.
returnTopLevelNameOrFromSettings(v) == IF v.name # "" THEN v.name ELSE v.key

isLocalPublicVolume(v) == v.driver \in {"local-public", "local-public-access"}

filterVolumes(environments, Filter(_)) ==
    {v \in UNION {environments[e].volumes : e \in DOMAIN environments} : Filter(v)}

GetVolumeNames(environments) ==
    {returnTopLevelNameOrFromSettings(v) : v \in filterVolumes(environments, LAMBDA v : TRUE)}

HasLocalPublicVolumes(environments) == filterVolumes(environments, isLocalPublicVolume) # {}

UsesLocalPublicVolume(service, environments) ==
    \E v \in filterVolumes(environments, isLocalPublicVolume) :
        returnTopLevelNameOrFromSettings(v) \in service.volumes

\* One entry per service that has an image, also where two have the same.
GetDockerImageReferences(services) ==
    [s \in {n \in DOMAIN services : services[n].image # ""} |-> services[s].image]

\* adaptFeaturesToSystem: who uses a public volume runs as the admin user.
assignAdminUserToLocalPublicVolumeServices(m) ==
    [m EXCEPT !.services = [s \in DOMAIN @ |->
        IF UsesLocalPublicVolume(@[s], m.environments)
        THEN [@[s] EXCEPT !.user = "admin"] ELSE @[s]]]

adaptFeaturesToSystem(m) ==
    IF HasLocalPublicVolumes(m.environments)
    THEN assignAdminUserToLocalPublicVolumeServices(m) ELSE m

--------------------------------------------------------------------------------
\* Migration of a manifest

useInternalBridge(services) ==
    \E s \in DOMAIN services : services[s].networkMode = InternalAddOnNetworkName

\* "always" would restart a failing service for ever.
LimitRestart(service) == IF service.restart = "always" THEN [service EXCEPT !.restart = "no"] ELSE service

addEnvironmentforExternalAddOnNetwork(environments) ==
    [e \in DOMAIN environments \cup {"migration-environment-v0-1-to-v0-2"} |->
        IF e = "migration-environment-v0-1-to-v0-2"
        THEN NewEnvironment(ComposeType, {}, {InternalAddOnNetworkName})
        ELSE environments[e]]

attachServicesToExternalAddOnNetwork(service) ==
    IF service.networkMode = InternalAddOnNetworkName
    THEN [service EXCEPT !.networkMode = "", !.networks = {InternalAddOnNetworkName}]
    ELSE service

migrateFromV0_1ToV0_2(m) ==
    IF ~ m.vendor THEN NoManifest
    ELSE [m EXCEPT
        !.manifestVersion = ValidManifestVersion,
        !.features = {},
        !.services = [s \in DOMAIN @ |->
            attachServicesToExternalAddOnNetwork(LimitRestart(@[s]))],
        !.environments = IF useInternalBridge(m.services)
                         THEN addEnvironmentforExternalAddOnNetwork(@) ELSE @]

MigrateUcManifest(m) ==
    CASE m.manifestVersion = "0.1" -> migrateFromV0_1ToV0_2(m)
      [] m.manifestVersion = ValidManifestVersion -> m
      [] OTHER -> NoManifest

\* internalBridgeNetworkConnector.IsConnected
IsConnected(m) ==
    \E e \in DOMAIN m.environments : InternalAddOnNetworkName \in m.environments[e].networks

--------------------------------------------------------------------------------
\* Settings

\* A text box without a default value does not count as one.
IsTextBox(setting) == setting.value # "" /\ setting.select = <<>>

SelectValue(setting, value) ==
    [setting EXCEPT !.select = [i \in DOMAIN @ |->
        [value |-> @[i].value, selected |-> @[i].value = value]]]

CombineManifestSettingsWithSettingsMap(settings, env) ==
    [i \in DOMAIN settings |->
        IF settings[i].name \notin DOMAIN env THEN settings[i]
        ELSE IF IsTextBox(settings[i]) THEN [settings[i] EXCEPT !.value = env[settings[i].name]]
        ELSE SelectValue(settings[i], env[settings[i].name])]

\* The first selected item; a drop-down list without one has no variable.
Selected(setting) == {i \in DOMAIN setting.select : setting.select[i].selected}
First(S) == CHOOSE i \in S : \A j \in S : i <= j

getDockerComposeEnvironmentMapFrom(settings) ==
    LET given == {i \in DOMAIN settings : settings[i].select = <<>> \/ Selected(settings[i]) # {}}
        ValueOf(i) == IF settings[i].select = <<>> THEN settings[i].value
                      ELSE settings[i].select[First(Selected(settings[i]))].value
    IN  [n \in {settings[i].name : i \in given} |->
            ValueOf(CHOOSE i \in given : /\ settings[i].name = n
                                         /\ \A j \in given : settings[j].name = n => j <= i)]

\* The variables of the settings override those of the service.
mergeEnvironmentVariables(environment, settings) ==
    LET chosen == getDockerComposeEnvironmentMapFrom(settings)
    IN  [k \in DOMAIN environment \cup DOMAIN chosen |->
            IF k \in DOMAIN chosen THEN chosen[k] ELSE environment[k]]

--------------------------------------------------------------------------------
\* The compose file

getDockerComposeEnvironmentsFrom(environments) ==
    {e \in DOMAIN environments : environments[e].type = ComposeType}

getDockerComposeVolumesFrom(environments) ==
    UNION {environments[e].volumes : e \in getDockerComposeEnvironmentsFrom(environments)}

getDockerComposeNetworksFrom(environments) ==
    UNION {environments[e].networks : e \in getDockerComposeEnvironmentsFrom(environments)}

getDockerComposeServicesFrom(services, settings) ==
    [s \in {n \in DOMAIN services : services[n].type = ComposeType} |->
        [services[s] EXCEPT !.environment = mergeEnvironmentVariables(@, settings)]]

GetDockerComposeFromManifest(m) ==
    [services |-> getDockerComposeServicesFrom(m.services, m.settings),
     volumes  |-> {returnTopLevelNameOrFromSettings(v) : v \in getDockerComposeVolumesFrom(m.environments)},
     networks |-> getDockerComposeNetworksFrom(m.environments)]
================================================================================
