-------------------------------- MODULE Migration -------------------------------
(***************************************************************************)
(* The migration of what an older release installed (internal/aom/migrate, *)
(* internal/aom/docker/migrate.go, internal/aom/routes/migrate.go), as a   *)
(* process that may end after every step: on its own, for an error ends    *)
(* it, or because of the device.  Startup runs it when the process begins. *)
(*                                                                         *)
(* Release 0.3.2 had its stacks made by portainer, under a name without    *)
(* dashes and underscores.  Migrating an add-on deletes portainer's stack, *)
(* creates a compose stack, moves the data of each volume through a cache  *)
(* directory, removes the old volumes and replaces the manifest.           *)
(***************************************************************************)
EXTENDS Manifest, Functions

CONSTANTS
    AddOnOrder,     \* names of add-ons, in the order in which WalkDir finds them
    SameName,       \* those whose name is the same for portainer and for compose
    ManifestOf,     \* ManifestOf[a]: the manifest of version 0.1
    UserEnv,        \* UserEnv[a]: the values the user has configured
    MaxFaults       \* bound: steps that fail or at which the process ends

AddOns == Range(AddOnOrder)
Releases == {"0.3.2", "0.4.0", "0.5.0", "0.5.1", "0.5.2", "current"}

\* A compose project: the add-on, and under whose rule its name was formed.
Old(a) == <<a, IF a \in SameName THEN "compose" ELSE "portainer">>
New(a) == <<a, "compose">>
Projects == AddOns \X {"compose", "portainer"}
VolumesOf(a) == GetVolumeNames(ManifestOf[a].environments)
VolumeNames == UNION {VolumesOf(a) : a \in AddOns}

VARIABLES
    release,    \* content of release.json: "none", "empty" or a release
    manifest,   \* manifest[a]: the manifest in the local catalogue, or NoManifest
    portainer,  \* add-ons whose stack portainer knows
    stack,      \* stack[p]: the containers of project p, or NoContainers
    volume,     \* volume[p][v]: "absent", "empty", "image", "partial" or "data"
    routes,     \* routes[a][id]: template of the route: "none", "old" or "new"
    net,        \* whether there is an internal-bridge network
    pc,         \* the next call of the process; "down" if there is none
    todo,       \* what is left of the loop over add-ons
    version,    \* previousVersion
    migrated,   \* migratedManifest, with the settings of the user
    vols,       \* what is left of the loop over volumes
    cache,      \* content of the cache directory
    faults,     \* counts failures
    interrupted \* history: what was at stake when the process ended or forgot the release

disk == <<release, manifest, portainer, stack, volume, routes, net>>
locals == <<todo, version, migrated, vols, cache>>
bootVars == <<disk, pc, locals, faults, interrupted>>

\* Containers: their state, their environment, and whether they are attached
\* to no internal bridge, the one that exists or one that was removed.
NoContainers == [exists |-> FALSE]
Containers(services, bridge) ==
    [exists |-> TRUE, state |-> "created", services |-> services, bridge |-> bridge]
Running(c) == c.exists /\ c.state = "up"
Stopped(c) == IF Running(c) THEN [c EXCEPT !.state = "exited"] ELSE c

\* The catalogue lists directories in the order of WalkDir.
FirstOf(addOns) == AddOnOrder[First({i \in DOMAIN AddOnOrder : AddOnOrder[i] \in addOns})]

Installed == {a \in AddOns : manifest[a] # NoManifest}
Head1 == FirstOf(todo)
Rest == todo \ {Head1}

Goto(label) == pc' = label
\* Next add-on of the loop at this label, or on to the label after the loop.
Loop(label, after) ==
    /\ todo' = IF Rest # {} THEN Rest ELSE Installed
    /\ pc' = IF Rest # {} THEN label ELSE after
\* Enter a loop over the installed add-ons.
Enter(label, after) ==
    /\ todo' = Installed
    /\ pc' = IF Installed = {} THEN after ELSE label

--------------------------------------------------------------------------------
\* The version that was running before

\* resolveVersionBasedOn: the first add-on decides.
ResolvedVersion ==
    IF Installed = {} THEN "current"
    ELSE IF manifest[FirstOf(Installed)].manifestVersion = "0.1" THEN "0.3.2" ELSE "0.4.0"

\* getVersion without a file: the version is resolved, and the file truncated
\* before it is written.
ResolveVersion ==
    /\ pc = "version" /\ release = "none"
    /\ version' = ResolvedVersion
    /\ release' = "empty"
    /\ Goto("record")
    /\ UNCHANGED <<manifest, portainer, stack, volume, routes, net,
                   todo, migrated, vols, cache, faults, interrupted>>

RecordVersion ==
    /\ pc = "record"
    /\ release' = version
    /\ Goto("dispatch")
    /\ UNCHANGED <<manifest, portainer, stack, volume, routes, net, locals, faults, interrupted>>

GetVersion ==
    /\ pc = "version" /\ release \notin {"none", "empty"}
    /\ version' = release
    /\ Goto("dispatch")
    /\ UNCHANGED <<disk, todo, migrated, vols, cache, faults, interrupted>>

\* An empty file is not JSON, and a release that has no case in Migrate is an
\* error: the process ends, today and at every start to come.
RefuseVersion ==
    /\ \/ pc = "version" /\ release = "empty"
       \/ pc = "dispatch" /\ version \notin Releases
    /\ Goto("down")
    /\ UNCHANGED <<disk, locals, faults, interrupted>>

\* Migrate: every case falls through to the next one.
Migrate ==
    /\ pc = "dispatch" /\ version \in Releases
    /\ CASE version = "current" -> Goto("network") /\ UNCHANGED todo
         [] version = "0.3.2"   -> Enter("fetch", "finish")
         [] OTHER               -> Enter("delete_routes", "finish")
    /\ UNCHANGED <<disk, version, migrated, vols, cache, faults, interrupted>>

--------------------------------------------------------------------------------
\* migrateAddOnFromV0_3_2

\* GetAddOnEnvironment: that of the first container, none if there is none.
EnvironmentOf(p) ==
    IF stack[p].exists /\ stack[p].services # <<>>
    THEN stack[p].services[CHOOSE s \in DOMAIN stack[p].services : TRUE].environment
    ELSE <<>>

\* Faulty variant: the settings are read from the stack that is to be created.
SettingsOfNewStack(a, m) ==
    CombineManifestSettingsWithSettingsMap(m.settings, EnvironmentOf(New(a)))

getSettingsForReplaceRoutine(a, m) ==
    CombineManifestSettingsWithSettingsMap(m.settings, EnvironmentOf(Old(a)))

\* fetchManifestFrom, MigrateUcManifest, and the settings while the old
\* containers still exist.  A manifest that cannot be migrated ends the process.
FetchAndMigrateManifest ==
    /\ pc = "fetch"
    /\ LET m == MigrateUcManifest(manifest[Head1])
       IN  /\ m # NoManifest
           /\ migrated' = [m EXCEPT !.settings = getSettingsForReplaceRoutine(Head1, m)]
           /\ vols' = GetVolumeNames(m.environments)
    /\ Goto("connect")
    /\ UNCHANGED <<disk, todo, version, cache, faults, interrupted>>

FetchFails ==
    /\ pc = "fetch"
    /\ MigrateUcManifest(manifest[Head1]) = NoManifest
    /\ Goto("down")
    /\ UNCHANGED <<disk, locals, faults, interrupted>>

\* MigrateStack begins.  A portainer that does not answer ends the process: its
\* status is read although there is none.
ConnectToPortainer ==
    /\ pc = "connect"
    /\ Goto("delete_stack")
    /\ UNCHANGED <<disk, locals, faults, interrupted>>

\* Faulty variant: a stack that portainer does not know is an error.
DeleteKnownPortainerStack ==
    /\ pc = "delete_stack"
    /\ portainer' = portainer \ {Head1}
    /\ stack' = IF Head1 \in portainer THEN [stack EXCEPT ![Old(Head1)] = NoContainers] ELSE stack
    /\ Goto(IF Head1 \in portainer THEN "create_stack" ELSE "down")
    /\ UNCHANGED <<release, manifest, volume, routes, net, locals, faults, interrupted>>

\* DeleteAddOnStack of portainer's client does not mind a stack that portainer does
\* not know.  Volumes are kept.
DeletePortainerStack ==
    /\ pc = "delete_stack"
    /\ portainer' = portainer \ {Head1}
    /\ stack' = IF Head1 \in portainer THEN [stack EXCEPT ![Old(Head1)] = NoContainers] ELSE stack
    /\ Goto("create_stack")
    /\ UNCHANGED <<release, manifest, volume, routes, net, locals, faults, interrupted>>

\* CreateStackWithoutStartWithDockerCompose: compose refuses an external network
\* that is not there; docker fills new volumes with what the image has there.
CreateStackWithoutStart ==
    /\ pc = "create_stack"
    /\ LET compose == GetDockerComposeFromManifest(migrated)
           bridge == IF InternalAddOnNetworkName \in compose.networks THEN "current" ELSE "none"
       IN  /\ bridge = "current" => net
           /\ stack' = [stack EXCEPT ![New(Head1)] = Containers(compose.services, bridge)]
           /\ volume' = [volume EXCEPT ![New(Head1)] = [v \in DOMAIN @ |->
                IF v \in compose.volumes /\ @[v] \in {"absent", "empty"} THEN "image" ELSE @[v]]]
    /\ Goto(IF vols = {} THEN "remove_volumes" ELSE "inspect")
    /\ UNCHANGED <<release, manifest, portainer, routes, net, locals, faults, interrupted>>

CreateStackFails ==
    /\ pc = "create_stack" /\ ~ net
    /\ InternalAddOnNetworkName \in GetDockerComposeFromManifest(migrated).networks
    /\ Goto("down")
    /\ UNCHANGED <<disk, locals, faults, interrupted>>

\* migratePortainerVolumeData, a volume at a time.  The loop goes over the map in
\* any order; its variable is the volume whose data is in the cache.
InspectVolumes(v) ==
    /\ pc = "inspect" /\ v \in vols
    /\ volume[Old(Head1)][v] # "absent"
    /\ cache' = <<v, volume[Old(Head1)][v]>>
    /\ Goto("clear_old")
    /\ UNCHANGED <<disk, todo, version, migrated, vols, faults, interrupted>>

InspectFails(v) ==
    /\ pc = "inspect" /\ v \in vols
    /\ volume[Old(Head1)][v] = "absent"
    /\ Goto("down")
    /\ UNCHANGED <<disk, locals, faults, interrupted>>

SetVolume(p, content) == volume' = [volume EXCEPT ![p][cache[1]] = content]

RemoveContentOfOld ==
    /\ pc = "clear_old"
    /\ SetVolume(Old(Head1), "empty")
    /\ Goto("clear_new")
    /\ UNCHANGED <<release, manifest, portainer, stack, routes, net, locals, faults, interrupted>>

RemoveContentOfNew ==
    /\ pc = "clear_new"
    /\ SetVolume(New(Head1), "empty")
    /\ Goto("copy")
    /\ UNCHANGED <<release, manifest, portainer, stack, routes, net, locals, faults, interrupted>>

\* Faulty variant: the loop ends after the first volume.
CopyFirstVolume ==
    /\ pc = "copy"
    /\ SetVolume(New(Head1), cache[2])
    /\ vols' = {}
    /\ Goto("remove_volumes")
    /\ UNCHANGED <<release, manifest, portainer, stack, routes, net,
                   todo, version, migrated, cache, faults, interrupted>>

CopyFromCache ==
    /\ pc = "copy"
    /\ SetVolume(New(Head1), cache[2])
    /\ vols' = vols \ {cache[1]}
    /\ Goto(IF vols = {cache[1]} THEN "remove_volumes" ELSE "inspect")
    /\ UNCHANGED <<release, manifest, portainer, stack, routes, net,
                   todo, version, migrated, cache, faults, interrupted>>

\* RemoveUnusedVolumes of the old name: docker keeps what a container uses.
RemoveUnusedVolumes ==
    /\ pc = "remove_volumes"
    /\ volume' = IF stack[Old(Head1)].exists THEN volume
                 ELSE [volume EXCEPT ![Old(Head1)] =
                    [v \in DOMAIN @ |-> IF v \in VolumesOf(Head1) THEN "absent" ELSE @[v]]]
    /\ Goto("push")
    /\ UNCHANGED <<release, manifest, portainer, stack, routes, net, locals, faults, interrupted>>

\* Faulty variant: the case of 0.3.2 does not fall through.
PushWithoutFallthrough ==
    /\ pc = "push"
    /\ manifest' = [manifest EXCEPT ![Head1] =
                        [migrated EXCEPT !.settings = manifest[Head1].settings]]
    /\ Loop("fetch", "finish")
    /\ UNCHANGED <<release, portainer, stack, volume, routes, net,
                   version, migrated, vols, cache, faults, interrupted>>

\* Push renames a complete file over the old one.  The manifest on disk keeps its
\* own settings; those of the user are in the containers alone.
PushManifest ==
    /\ pc = "push"
    /\ manifest' = [manifest EXCEPT ![Head1] =
                        [migrated EXCEPT !.settings = manifest[Head1].settings]]
    /\ Loop("fetch", "delete_routes")
    /\ UNCHANGED <<release, portainer, stack, volume, routes, net,
                   version, migrated, vols, cache, faults, interrupted>>

--------------------------------------------------------------------------------
\* migrateAddOnFromV0_5_2

\* All routes of an add-on are deleted before the first is created.
DeleteRoutes ==
    /\ pc = "delete_routes"
    /\ routes' = [routes EXCEPT ![Head1] = [id \in DOMAIN @ |-> "none"]]
    /\ Goto("create_routes")
    /\ UNCHANGED <<release, manifest, portainer, stack, volume, net, locals, faults, interrupted>>

CreateRoutes ==
    /\ pc = "create_routes"
    /\ routes' = [routes EXCEPT ![Head1] = [id \in DOMAIN @ |-> "new"]]
    /\ Loop("delete_routes", "finish")
    /\ UNCHANGED <<release, manifest, portainer, stack, volume, net,
                   version, migrated, vols, cache, faults, interrupted>>

\* updateVersion truncates the file, then writes it; its error is ignored.
TruncateRelease ==
    /\ pc = "finish"
    /\ release' = "empty"
    /\ Goto("written")
    /\ UNCHANGED <<manifest, portainer, stack, volume, routes, net, locals, faults, interrupted>>

UpdateVersion ==
    /\ pc = "written"
    /\ release' = "current"
    /\ Goto("network")
    /\ UNCHANGED <<manifest, portainer, stack, volume, routes, net, locals, faults, interrupted>>

\* What an end of the process endangers: the settings of an add-on from the moment
\* portainer's containers are gone, its data from the first volume that is cleared,
\* both until the release is recorded.
AtStake ==
    {k \in {"settings", "data"} :
        /\ version = "0.3.2"
        /\ k = "settings" => portainer # AddOns
        /\ k = "data" => \/ pc \in {"clear_old", "clear_new", "copy"}
                         \/ \E a \in AddOns \ SameName : \E v \in VolumesOf(a) :
                               volume[Old(a)][v] # "data"}

UpdateVersionFails ==
    /\ pc \in {"finish", "written"} /\ faults < MaxFaults
    /\ faults' = faults + 1
    /\ interrupted' = interrupted \cup AtStake
    /\ Goto("network")
    /\ UNCHANGED <<disk, locals>>

MigrationNext ==
    \/ ResolveVersion \/ RecordVersion \/ GetVersion \/ RefuseVersion \/ Migrate
    \/ FetchAndMigrateManifest \/ FetchFails \/ ConnectToPortainer \/ DeletePortainerStack
    \/ CreateStackWithoutStart \/ CreateStackFails
    \/ \E v \in VolumeNames : InspectVolumes(v) \/ InspectFails(v)
    \/ RemoveContentOfOld \/ RemoveContentOfNew \/ CopyFromCache
    \/ RemoveUnusedVolumes \/ PushManifest
    \/ DeleteRoutes \/ CreateRoutes
    \/ TruncateRelease \/ UpdateVersion
================================================================================
