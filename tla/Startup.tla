--------------------------------- MODULE Startup --------------------------------
(***************************************************************************)
(* The start of the service (cmd/aom.go, service/addon_stopper.go,         *)
(* service/addon_starter.go, network/external_network.go) around the       *)
(* Migration: stop what still runs, migrate, make the internal bridge      *)
(* anew, connect and start the add-ons, install drop-ins, serve.  An error *)
(* of most of these calls ends the process, and it is started again.       *)
(***************************************************************************)
EXTENDS Migration, AddOnView

CONSTANTS
    Origins     \* what the device may have been running before

\* A manifest of version 0.1 that release 0.3.2 can have installed: docker-compose is
\* the only type there was (v0_1/models.go), compose wants services and refuses those
\* that use an undeclared network, no environment has the name the migration chooses,
\* and a setting is known by its name.
IsManifestV0_1(m) ==
    /\ m = Manifests(m.services, m.environments, m.settings, m.publish, TRUE)
    /\ DOMAIN m.services # {}
    /\ \A s \in DOMAIN m.services :
           /\ m.services[s] = [type |-> ComposeType, image |-> m.services[s].image,
                  restart |-> m.services[s].restart, networkMode |-> m.services[s].networkMode,
                  networks |-> m.services[s].networks, volumes |-> m.services[s].volumes,
                  environment |-> m.services[s].environment, user |-> m.services[s].user]
           /\ m.services[s].networks \subseteq getDockerComposeNetworksFrom(m.environments)
    /\ "migration-environment-v0-1-to-v0-2" \notin DOMAIN m.environments
    /\ \A e \in DOMAIN m.environments : m.environments[e].type = ComposeType
    /\ m.settings \in Seq(Range(m.settings))
    /\ \A i \in DOMAIN m.settings :
           /\ m.settings[i] = NewSettings(m.settings[i].name, m.settings[i].value, m.settings[i].select)
           /\ m.settings[i].select \in Seq(Range(m.settings[i].select))
           /\ \A item \in Range(m.settings[i].select) :
                  item = [value |-> item.value, selected |-> item.selected] /\ item.selected \in BOOLEAN
           /\ \A j \in DOMAIN m.settings : m.settings[i].name = m.settings[j].name => i = j

ASSUME StartupAssumption ==
    /\ MaxFaults \in Nat
    /\ AddOnOrder \in Seq(AddOns)
    /\ \A a \in AddOns : IsManifestV0_1(ManifestOf[a])
    /\ SameName \subseteq AddOns
    /\ DOMAIN ManifestOf = AddOns /\ DOMAIN UserEnv = AddOns
    /\ Origins \subseteq {"factory", "portainer", "no_vendor", "compose", "0.5.2", "newer"}

VARIABLE
    logged      \* history: a failure since the process began was only logged

vars == <<bootVars, logged>>

--------------------------------------------------------------------------------
\* The device as an older release left it.

\* What a client sends that was shown these settings with the values of an environment.
SettingsSent(settings, env) ==
    mapGrpcSettingToSetting(setCurrentEnvironmentValues(mapSettingToGrpcSetting(settings), env))

\* Containers with the settings of the user, as they were created back then.
RunningWith(a, m) ==
    [Containers(getDockerComposeServicesFrom(m.services, SettingsSent(m.settings, UserEnv[a])),
        IF IsConnected(MigrateUcManifest(m)) THEN "current" ELSE "none") EXCEPT !.state = "up"]

ByPortainer(origin) == origin \in {"portainer", "no_vendor"}

OldManifest(a, origin) ==
    CASE origin = "factory" -> NoManifest
      [] origin = "portainer" -> ManifestOf[a]
      [] origin = "no_vendor" -> [ManifestOf[a] EXCEPT !.vendor = a # AddOnOrder[Len(AddOnOrder)]]
      [] OTHER -> MigrateUcManifest(ManifestOf[a])

Init ==
    \E origin \in Origins :
        /\ release = CASE origin = "0.5.2" -> "0.5.2" [] origin = "newer" -> "newer" [] OTHER -> "none"
        /\ manifest = [a \in AddOns |-> OldManifest(a, origin)]
        /\ portainer = IF ByPortainer(origin) THEN AddOns ELSE {}
        /\ stack = [p \in Projects |->
             IF origin # "factory" /\ p = (IF ByPortainer(origin) THEN Old(p[1]) ELSE New(p[1]))
             THEN RunningWith(p[1], ManifestOf[p[1]]) ELSE NoContainers]
        /\ volume = [p \in Projects |-> [v \in VolumeNames |->
             IF stack[p].exists /\ v \in VolumesOf(p[1]) THEN "data" ELSE "absent"]]
        /\ routes = [a \in AddOns |-> [id \in ManifestOf[a].publish |->
             IF origin = "factory" THEN "none" ELSE "old"]]
        /\ net = (origin # "factory")
        /\ pc = "down" /\ todo = {} /\ version = "none" /\ migrated = NoManifest
        /\ vols = {} /\ cache = <<>>
        /\ faults = 0 /\ interrupted = {} /\ logged = FALSE

--------------------------------------------------------------------------------
\* Before the migration

\* The service is started, and started again.  No local variable survives.
Boot ==
    /\ pc = "down"
    /\ Goto("setup")
    /\ todo' = {} /\ version' = "none" /\ migrated' = NoManifest /\ vols' = {} /\ cache' = <<>>
    /\ logged' = FALSE
    /\ UNCHANGED <<disk, faults, interrupted>>

Setup ==
    /\ pc = "setup"
    /\ Goto("credentials")
    /\ UNCHANGED <<disk, locals, faults, interrupted, logged>>

\* Those of the registry, which are overridden or the device's own.
GetRegistryCredentials ==
    /\ pc = "credentials"
    /\ Enter("stop", "drivers")
    /\ UNCHANGED <<disk, version, migrated, vols, cache, faults, interrupted, logged>>

\* StopInstalledAddOns knows the names of compose only; its errors are logged.
StopStack ==
    /\ pc = "stop"
    /\ stack' = [stack EXCEPT ![New(Head1)] = Stopped(@)]
    /\ Loop("stop", "drivers")
    /\ UNCHANGED <<release, manifest, portainer, volume, routes, net,
                   version, migrated, vols, cache, faults, interrupted, logged>>

StopStackFails ==
    /\ pc = "stop" /\ faults < MaxFaults
    /\ faults' = faults + 1
    /\ logged' = TRUE
    /\ Loop("stop", "drivers")
    /\ UNCHANGED <<disk, version, migrated, vols, cache, interrupted>>

\* The volume drivers must serve before a container with such a volume starts.
ServeVolumeDrivers ==
    /\ pc = "drivers"
    /\ Goto("version")
    /\ UNCHANGED <<disk, locals, faults, interrupted, logged>>

--------------------------------------------------------------------------------
\* StartInstalledAddOns

\* removeInternalBridgeNetworkIfExist: containers that run on it are stopped.
RemoveInternalBridge ==
    /\ pc = "network"
    /\ net' = FALSE
    /\ stack' = [p \in Projects |->
        IF stack[p].exists /\ stack[p].bridge = "current"
        THEN [Stopped(stack[p]) EXCEPT !.bridge = "removed"] ELSE stack[p]]
    /\ Goto("create_network")
    /\ UNCHANGED <<release, manifest, portainer, volume, routes, locals, faults, interrupted, logged>>

CreateInternalBridge ==
    /\ pc = "create_network"
    /\ net' = TRUE
    /\ Enter("reconnect", "dropins")
    /\ UNCHANGED <<release, manifest, portainer, stack, volume, routes,
                   version, migrated, vols, cache, faults, interrupted, logged>>

\* Reconnect: a container that was attached by name is attached by the new id.
Reconnected(c) == IF c.exists /\ c.bridge # "none" THEN [c EXCEPT !.bridge = "current"] ELSE c

\* Faulty variant: the stack whose manifest is not yet migrated is looked at.
ReconnectIfOld ==
    /\ pc = "reconnect"
    /\ stack' = IF manifest[Head1].manifestVersion = "0.1"
                THEN [stack EXCEPT ![New(Head1)] = Reconnected(@)] ELSE stack
    /\ Loop("reconnect", "start")
    /\ UNCHANGED <<release, manifest, portainer, volume, routes, net,
                   version, migrated, vols, cache, faults, interrupted, logged>>

Reconnect ==
    /\ pc = "reconnect"
    /\ stack' = IF IsConnected(manifest[Head1])
                THEN [stack EXCEPT ![New(Head1)] = Reconnected(@)] ELSE stack
    /\ Loop("reconnect", "start")
    /\ UNCHANGED <<release, manifest, portainer, volume, routes, net,
                   version, migrated, vols, cache, faults, interrupted, logged>>

ReconnectFails ==
    /\ pc = "reconnect" /\ faults < MaxFaults
    /\ IsConnected(manifest[Head1])
    /\ faults' = faults + 1
    /\ logged' = TRUE
    /\ Loop("reconnect", "start")
    /\ UNCHANGED <<disk, version, migrated, vols, cache, interrupted>>

\* Docker does not start a container that is attached to a removed network.
CanStart(c) == c.exists /\ c.bridge # "removed"

Start ==
    /\ pc = "start"
    /\ CanStart(stack[New(Head1)])
    /\ stack' = [stack EXCEPT ![New(Head1)].state = "up"]
    /\ Loop("start", "dropins")
    /\ UNCHANGED <<release, manifest, portainer, volume, routes, net,
                   version, migrated, vols, cache, faults, interrupted, logged>>

\* The error is logged, and the next add-on is started.
StartFails ==
    /\ pc = "start"
    /\ \/ ~ CanStart(stack[New(Head1)]) /\ UNCHANGED faults
       \/ faults < MaxFaults /\ faults' = faults + 1
    /\ logged' = (logged \/ faults' # faults)
    /\ Loop("start", "dropins")
    /\ UNCHANGED <<disk, version, migrated, vols, cache, interrupted>>

\* InstallAllDropInAddOns, of which only the outcome matters here: an add-on that
\* was not there has been installed, and configured by the user, or not.
InstallDropIns ==
    /\ pc = "dropins"
    /\ \/ UNCHANGED disk
       \/ \E a \in AddOns :
            /\ manifest[a] = NoManifest
            /\ LET m == MigrateUcManifest(ManifestOf[a])
                   compose == GetDockerComposeFromManifest([adaptFeaturesToSystem(m) EXCEPT
                        !.settings = CombineManifestSettingsWithSettingsMap(@, UserEnv[a])])
               IN  /\ manifest' = [manifest EXCEPT ![a] = m]
                   /\ stack' = [stack EXCEPT ![New(a)] = [Containers(compose.services,
                        IF IsConnected(m) THEN "current" ELSE "none") EXCEPT !.state = "up"]]
                   /\ volume' = [volume EXCEPT ![New(a)] = [v \in DOMAIN @ |->
                        IF v \in compose.volumes THEN "data" ELSE @[v]]]
            /\ routes' = [routes EXCEPT ![a] = [id \in DOMAIN @ |-> "new"]]
            /\ UNCHANGED <<release, portainer, net>>
    /\ Goto("serving")
    /\ UNCHANGED <<locals, faults, interrupted, logged>>

--------------------------------------------------------------------------------
\* The end of the process

\* A reboot stops the containers, a restart of the service does not.
Halt(reboot) == stack' = IF reboot THEN [p \in Projects |-> Stopped(stack[p])] ELSE stack

Restart(reboot) ==
    /\ pc = "serving"
    /\ Goto("down")
    /\ Halt(reboot)
    /\ UNCHANGED <<release, manifest, portainer, volume, routes, net, locals, faults, interrupted, logged>>

\* The process ends at any point: it is killed, the device loses power, or a call
\* returns an error.  A volume may be half cleared or half written.
Die(reboot) ==
    /\ pc \notin {"down", "serving"} /\ faults < MaxFaults
    /\ faults' = faults + 1
    /\ Goto("down")
    /\ Halt(reboot)
    /\ interrupted' = interrupted \cup AtStake
    /\ volume' = CASE pc = "clear_old" -> [volume EXCEPT ![Old(Head1)][cache[1]] = "partial"]
                   [] pc = "copy" -> [volume EXCEPT ![New(Head1)][cache[1]] = "partial"]
                   [] OTHER -> volume
    /\ UNCHANGED <<release, manifest, portainer, routes, net, locals, logged>>

Step ==
    \/ Boot \/ Setup \/ GetRegistryCredentials \/ StopStack \/ ServeVolumeDrivers
    \/ MigrationNext /\ UNCHANGED logged
    \/ RemoveInternalBridge \/ CreateInternalBridge \/ Reconnect \/ Start \/ StartFails \/ InstallDropIns

Next ==
    \/ Step
    \/ StopStackFails \/ ReconnectFails \/ (UpdateVersionFails /\ UNCHANGED logged)
    \/ \E reboot \in BOOLEAN : Restart(reboot) \/ Die(reboot)

\* The process goes on, and systemd starts it when it has ended.
Spec == Init /\ [][Next]_vars /\ WF_vars(Step)

--------------------------------------------------------------------------------
Contents == {"absent", "empty", "image", "partial", "data"}
Labels == {"down", "setup", "credentials", "stop", "drivers", "version", "record", "dispatch", "fetch",
    "connect", "delete_stack", "create_stack", "inspect", "clear_old", "clear_new", "copy",
    "remove_volumes", "push", "delete_routes", "create_routes", "finish", "written",
    "network", "create_network", "reconnect", "start", "dropins", "serving"}

\* Type invariant of the start of the service and of the migration in it.
TypeOK ==
    /\ release \in Releases \cup {"none", "empty", "newer"}
    /\ \A a \in AddOns : manifest[a].manifestVersion \in {"none", "0.1", "0.2"}
    /\ portainer \in SUBSET AddOns
    /\ \A p \in Projects : stack[p].exists =>
           stack[p].state \in {"created", "up", "exited"} /\ stack[p].bridge \in {"none", "current", "removed"}
    /\ volume \in [Projects -> [VolumeNames -> Contents]]
    /\ \A a \in AddOns : routes[a] \in [ManifestOf[a].publish -> {"none", "old", "new"}]
    /\ pc \in Labels /\ todo \in SUBSET AddOns
    /\ vols \in SUBSET VolumeNames
    /\ {net, logged} \subseteq BOOLEAN /\ interrupted \subseteq {"settings", "data"}
    /\ faults \in 0 .. MaxFaults

\* When release.json names the current release, every add-on on the device has a
\* manifest of the current version whose services are attached to networks that it
\* declares and do not restart for ever, routes of the current template, and no stack
\* that portainer knows, wherever earlier starts were interrupted (the order of the
\* steps of Migrate and of getVersion).
CurrentMeansMigrated ==
    release = "current" =>
        \A a \in Installed :
            /\ manifest[a].manifestVersion = ValidManifestVersion
            /\ \A s \in Range(manifest[a].services) :
                   /\ s.networks \subseteq getDockerComposeNetworksFrom(manifest[a].environments)
                   /\ s.networkMode # InternalAddOnNetworkName /\ s.restart # "always"
            /\ \A id \in DOMAIN routes[a] : routes[a][id] = "new"
            /\ a \notin portainer

\* The data of every volume of an add-on is in the old volume, the new volume or
\* the cache directory, as long as the process does not end while data is at stake
\* (migratePortainerVolumeData clears before it copies, and a second run
\* copies what the first one has left).
HasData(a, v) ==
    \/ volume[Old(a)][v] = "data" \/ volume[New(a)][v] = "data"
    \/ pc \in {"clear_new", "copy"} /\ Head1 = a /\ cache = <<v, "data">>
DataKept ==
    "data" \notin interrupted =>
        \A a \in Installed : \A v \in VolumesOf(a) : HasData(a, v)

\* When the service serves and no start ended while settings were at stake, the
\* containers have the values of the user for all settings that can take them: text
\* boxes that have a default and drop-down lists that have the value as an item.
CanTake(s, value) ==
    IsTextBox(s) \/ \E i \in DOMAIN s.select : s.select[i].value = value
SettingsKept ==
    pc = "serving" /\ "settings" \notin interrupted =>
        \A a \in Installed : \A s \in Range(manifest[a].settings) :
            s.name \in DOMAIN UserEnv[a] /\ CanTake(s, UserEnv[a][s.name]) =>
                EnvironmentOf(New(a))[s.name] = UserEnv[a][s.name]

\* A client that sends back the settings it was shown changes nothing: the services
\* would be created with the environment they have, wherever their values came from
\* (getInstalledAddOn and UpdateAddOn of server.go, over the first container).
Resent(a) == SettingsSent(manifest[a].settings, EnvironmentOf(New(a)))
UnchangedSettingsStay ==
    pc = "serving" =>
        \A a \in Installed : stack[New(a)].exists =>
            LET compose == GetDockerComposeFromManifest([manifest[a] EXCEPT !.settings = Resent(a)])
            IN  \A s \in DOMAIN compose.services :
                    compose.services[s].environment = stack[New(a)].services[s].environment

\* What it takes: the user has chosen items of drop-down lists, and where services have
\* a variable of their own by the name of a list without selected item, all have it alike.
ListsAreClear ==
    \A a \in AddOns : \A i \in DOMAIN ManifestOf[a].settings :
        LET setting == ManifestOf[a].settings[i]
            Own(s) == ManifestOf[a].services[s].environment
        IN  setting.select # <<>> =>
            /\ setting.name \in DOMAIN UserEnv[a] => CanTake(setting, UserEnv[a][setting.name])
            /\ \/ Selected(setting) # {}
               \/ \A s, t \in DOMAIN ManifestOf[a].services : setting.name \in DOMAIN Own(s) =>
                      setting.name \in DOMAIN Own(t) /\ Own(t)[setting.name] = Own(s)[setting.name]

\* When the service serves and no failure was passed over, every add-on runs, on
\* the internal bridge that exists if it uses one (StopInstalledAddOns, the
\* recreation of the network, Reconnect and start).  Whatever was passed over, an
\* add-on that has ended is listed as running to nobody; one whose containers were
\* only created is.
Listed(manage, access) ==
    listInstalledAddOns(Installed, manage, access, [a \in Installed |->
        IF stack[New(a)].exists THEN {stack[New(a)].state} ELSE {}])
ServingMeansStarted ==
    pc = "serving" =>
        /\ logged \/ \A a \in Installed :
               /\ Running(stack[New(a)])
               /\ IsConnected(manifest[a]) => stack[New(a)].bridge = "current"
        /\ \A manage \in BOOLEAN, access \in SUBSET AddOns :
               LET listed == Listed(manage, access)
               IN  \A a \in DOMAIN listed : listed[a] = "Running" => stack[New(a)].state # "exited"

\* What no further start gets over: a release file that was truncated or is of a
\* newer release, and in a migration from 0.3.2 a manifest without vendor, an old
\* volume that is not there any more, and a bridge that is not there.
Stuck ==
    \/ release \in {"empty", "newer"}
    \/ /\ release = "0.3.2" \/ (release = "none" /\ ResolvedVersion = "0.3.2")
       /\ \E a \in Installed :
            \/ MigrateUcManifest(manifest[a]) = NoManifest
            \/ \E v \in VolumesOf(a) : volume[Old(a)][v] = "absent"
            \/ ~ net /\ IsConnected(MigrateUcManifest(manifest[a]))

\* Every start ends with the service serving, or the device is in one of these
\* states; there is no other way not to come up.
ComesUpOrStuck == (pc = "down") ~> (pc = "serving" \/ Stuck)
================================================================================
