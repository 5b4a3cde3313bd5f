------------------------------ MODULE StartupProofs -----------------------------
(***************************************************************************)
(* What every start of the service keeps, for any add-ons, manifests and   *)
(* values of the user, any number of starts, and failures and ends of the  *)
(* process at every step: the release that is recorded says what has been  *)
(* migrated, the data of every volume is somewhere, the values of the user *)
(* are in the containers, and an add-on that should run does.              *)
(*                                                                         *)
(* The inductive invariant is built up in layers, each proved from the     *)
(* ones before it: CoreInv (manifests, release, routes and where in its    *)
(* loops the process is), StackInv and ServingInv (the containers),        *)
(* VolumeInv and DataInv (the volumes), SettingsInv and EnvironmentInv     *)
(* (what the containers were created with).                                *)
(***************************************************************************)
EXTENDS Startup, WellFoundedInduction, TLAPS

\* The next call belongs to the migration of one add-on from 0.3.2, to the one of its
\* routes, to either or the record of it, to what comes after the migration.
FetchLabels == {"fetch", "connect", "delete_stack", "create_stack", "inspect", "clear_old",
                "clear_new", "copy", "remove_volumes", "push"}
RouteLabels == {"delete_routes", "create_routes"}
MovingLabels == FetchLabels \cup RouteLabels \cup {"finish"}
AfterLabels == {"network", "create_network", "reconnect", "start", "dropins", "serving"}
\* Portainer's stack of the add-on at hand is gone; its new stack is there.
GoneLabels == {"create_stack", "inspect", "clear_old", "clear_new", "copy", "remove_volumes", "push"}
MadeLabels == GoneLabels \ {"create_stack"}
\* It is in a loop over add-ons; it has settings at hand; it has data in the cache.
LoopLabels == FetchLabels \cup RouteLabels \cup {"stop", "reconnect", "start"}
ChosenLabels == {"connect", "delete_stack", "create_stack"}
CopyLabels == {"clear_old", "clear_new", "copy"}
ServingLabels == {"reconnect", "start", "dropins", "serving"}

\* The manifest an add-on is migrated to, and whether it has been.
Migrated(a) == MigrateUcManifest(ManifestOf[a])
IsMigrated(a) == manifest[a] = Migrated(a)
AllMigrated == \A a \in Installed : IsMigrated(a)
NewRoutes(a) == \A id \in DOMAIN routes[a] : routes[a][id] = "new"

--------------------------------------------------------------------------------
\* Manifests, release and routes

\* The manifests that can be in the catalogue.
NoVendor(a) == [ManifestOf[a] EXCEPT !.vendor = FALSE]
OnDisk(a) == {NoManifest, ManifestOf[a], NoVendor(a), Migrated(a)}
ManifestInv ==
    /\ manifest = [a \in AddOns |-> manifest[a]]
    /\ \A a \in AddOns : manifest[a] \in OnDisk(a)

\* What is known of the release where the process reads or writes it.
VersionInv ==
    /\ pc = "record" =>
         /\ release = "empty"
         /\ version \in {"0.3.2", "0.4.0", "current"}
         /\ version # "0.3.2" => AllMigrated
         /\ version = "current" => Installed = {}
    /\ pc = "dispatch" => version = release /\ release \notin {"none", "empty"}
    /\ pc \in FetchLabels => version = "0.3.2"
    /\ pc \in FetchLabels \cup RouteLabels \cup {"finish"} =>
         version = release /\ release \in Releases \ {"current"}
    /\ pc = "written" => release = "empty"
    /\ pc \in AfterLabels => release # "none"

\* What each loop over the add-ons has done to those that are behind it.
LoopInv ==
    /\ todo \subseteq Installed
    /\ pc \in LoopLabels => todo # {}
    /\ pc \in FetchLabels => \A a \in Installed \ todo : IsMigrated(a)
    /\ pc \in RouteLabels \cup AfterLabels \cup {"finish", "written"} => AllMigrated
    /\ pc \in RouteLabels => \A a \in Installed \ todo : NewRoutes(a)
    /\ pc \in {"finish", "written"} => \A a \in Installed : NewRoutes(a)

\* What the recorded release says of all add-ons.  Without a record either nothing is
\* to be migrated or portainer still has everything.
ReleaseInv ==
    /\ release = "none" /\ Installed # {} => net
    /\ release = "none" =>
         AllMigrated \/ (portainer = AddOns /\ \A a \in AddOns : manifest[a].manifestVersion = "0.1")
    /\ release \notin {"none", "empty", "0.3.2"} => AllMigrated
    /\ release = "current" => \A a \in Installed : NewRoutes(a)

\* Portainer knows only what is not migrated.
PortainerInv ==
    /\ portainer \in SUBSET AddOns
    /\ \A a \in portainer : manifest[a].manifestVersion = "0.1"
    /\ pc \in GoneLabels => Head1 \notin portainer

\* The manifest at hand is the migrated one but for its settings.
MigratedInv ==
    /\ pc \in FetchLabels \ {"fetch"} => migrated = [Migrated(Head1) EXCEPT !.settings = migrated.settings]
    /\ pc \in {"connect", "delete_stack", "create_stack"} => vols = VolumesOf(Head1)
    /\ pc \in FetchLabels \ {"fetch"} => manifest[Head1] # NoVendor(Head1)

\* The first layer.
CoreInv ==
    /\ pc \in Labels /\ release \in Releases \cup {"none", "empty", "newer"}
    /\ routes = [a \in AddOns |-> routes[a]]
    /\ ManifestInv /\ VersionInv /\ LoopInv /\ ReleaseInv /\ PortainerInv /\ MigratedInv

--------------------------------------------------------------------------------
\* Containers

\* Containers of a project, in any state and on any bridge.
IsStack(c) ==
    \/ c = NoContainers
    \/ /\ c = [exists |-> TRUE, state |-> c.state, services |-> c.services, bridge |-> c.bridge]
       /\ c.state \in {"created", "up", "exited"} /\ c.bridge \in {"none", "current", "removed"}

\* A setting that can take the value of the user, an environment that has these values, and
\* containers that have them.
Takes(a, i) ==
    /\ ManifestOf[a].settings[i].name \in DOMAIN UserEnv[a]
    /\ CanTake(ManifestOf[a].settings[i], UserEnv[a][ManifestOf[a].settings[i].name])
KeepsValues(a, env) ==
    \A i \in DOMAIN ManifestOf[a].settings : Takes(a, i) =>
        /\ ManifestOf[a].settings[i].name \in DOMAIN env
        /\ env[ManifestOf[a].settings[i].name] = UserEnv[a][ManifestOf[a].settings[i].name]
KeepsUser(a, c) ==
    /\ c.exists /\ DOMAIN c.services # {}
    /\ \A s \in DOMAIN c.services : KeepsValues(a, c.services[s].environment)

\* Services that were created with these settings.
MadeWith(a, services, settings) ==
    /\ DOMAIN services = DOMAIN ManifestOf[a].services
    /\ \A s \in DOMAIN ManifestOf[a].services : services[s].environment =
           mergeEnvironmentVariables(ManifestOf[a].services[s].environment, settings)

\* An add-on that is migrated has its compose stack, attached to a bridge if its manifest
\* says so, and what portainer still knows is as the older release left it.
Attached(a, c) == c.exists /\ (c.bridge = "none" <=> ~ IsConnected(Migrated(a)))
StackInv ==
    /\ stack = [p \in Projects |-> stack[p]]
    /\ \A p \in Projects : IsStack(stack[p])
    /\ \A a \in AddOns : IsMigrated(a) => Attached(a, stack[New(a)])
    /\ pc \in MadeLabels => Attached(Head1, stack[New(Head1)])
    /\ \A a \in portainer : KeepsUser(a, stack[Old(a)])
    /\ \A a \in AddOns \ SameName : stack[Old(a)].exists => a \in portainer

\* Unless a failure was passed over, an add-on is on no removed bridge once it has been
\* reconnected, and up once it has been started.
ServingInv ==
    /\ faults \in 0 .. MaxFaults /\ logged \in BOOLEAN
    /\ ~ logged =>
        /\ pc = "reconnect" => \A a \in Installed \ todo : stack[New(a)].bridge # "removed"
        /\ pc \in ServingLabels \ {"reconnect"} => \A a \in Installed : stack[New(a)].bridge # "removed"
        /\ pc = "start" => \A a \in Installed \ todo : stack[New(a)].state = "up"
        /\ pc \in {"dropins", "serving"} => \A a \in Installed : stack[New(a)].state = "up"

--------------------------------------------------------------------------------
\* Volumes

\* The loop over volumes is about those of the add-on at hand.
VolumeInv ==
    /\ volume \in [Projects -> [VolumeNames -> Contents]]
    /\ vols \in SUBSET VolumeNames
    /\ pc \in FetchLabels \ {"fetch"} => vols \subseteq VolumesOf(Head1)
    /\ pc \in CopyLabels => cache = <<cache[1], cache[2]>> /\ cache[1] \in vols /\ cache[2] \in Contents
    /\ pc \in {"remove_volumes", "push"} => vols = {}

\* The old volumes of an add-on are all there with their data or all gone, but while they
\* are moved: then each is in the old volume if it is still to be moved, and else in the
\* new one, but for the one that is in the cache.
OldHave(a, content) == \A v \in VolumesOf(a) : volume[Old(a)][v] = content
Whole(a) == OldHave(a, "data") \/ OldHave(a, "absent")
MovedBut(a, moving) ==
    \A v \in VolumesOf(a) \ moving :
        IF v \in vols THEN volume[Old(a)][v] = "data" ELSE volume[New(a)][v] = "data"
DataInv ==
    "data" \notin interrupted =>
        /\ \A a \in Installed : \A v \in VolumesOf(a) : HasData(a, v)
        /\ \A a \in AddOns : Whole(a) \/ (pc \in MadeLabels /\ a = Head1)
        /\ pc = "inspect" => MovedBut(Head1, {}) \/ OldHave(Head1, "absent")
        /\ pc \in CopyLabels => cache[2] = "data" /\ MovedBut(Head1, {cache[1]})
        /\ pc = "remove_volumes" => MovedBut(Head1, {})
        /\ pc = "push" => Whole(Head1)

--------------------------------------------------------------------------------
\* Settings

\* Settings that were read from an environment that has the values of the user.
KeptIn(a, settings) ==
    \E env : /\ KeepsValues(a, env)
              /\ settings = CombineManifestSettingsWithSettingsMap(ManifestOf[a].settings, env)
\* A manifest without vendor ends every migration; the start never gets past it.
Undisturbed == "settings" \notin interrupted /\ \A a \in AddOns : manifest[a] # NoVendor(a)
\* An add-on that is migrated has the values of the user in its containers; one that is not
\* has them in those of portainer until the new ones are created from what was read there.
\* Nothing makes the loop end in between: the bridge and the old volumes are there.
SettingsInv ==
    Undisturbed =>
        /\ \A a \in portainer : \A v \in VolumesOf(a) : volume[Old(a)][v] # "absent"
        /\ \A a \in AddOns : IsMigrated(a) => KeepsUser(a, stack[New(a)])
        /\ (pc = "record" /\ version = "0.3.2") \/ release = "0.3.2" => net /\ AddOns # {}
        /\ pc = "record" /\ version = "0.3.2" => portainer = AddOns
        /\ release = "0.3.2" /\ pc \notin MovingLabels => portainer = AddOns
        /\ pc \in {"create_stack", "inspect", "clear_old", "clear_new", "copy"} =>
             \A v \in vols : volume[Old(Head1)][v] # "absent"
        /\ pc \in FetchLabels => Rest \subseteq portainer
        /\ pc \in {"fetch", "connect", "delete_stack"} => Head1 \in portainer
        /\ pc \in {"connect", "delete_stack", "create_stack"} =>
             KeptIn(Head1, migrated.settings)
        /\ pc \in MadeLabels => KeepsUser(Head1, stack[New(Head1)])

--------------------------------------------------------------------------------
\* Projects and manifests

\* First finds the least of a set of indices.
LEMMA FirstIsLeast ==
    ASSUME NEW S \in SUBSET Nat, S # {}
    PROVE  First(S) \in S /\ \A j \in S : First(S) <= j
PROOF
  <1>1. PICK i \in S : \A j \in S : ~ (<<j, i>> \in OpToRel(<, Nat))
    BY WFMin, NatLessThanWellFounded
  <1>2. ASSUME NEW j \in S PROVE i <= j
    <2>1. i \in Nat /\ j \in Nat
      OBVIOUS
    <2>2. ~ (j < i)
      BY <1>1, <2>1 DEF OpToRel
    <2> QED
      BY <2>1, <2>2
  <1> QED
    BY <1>2 DEF First

\* The first add-on in the order of WalkDir is one of them.
LEMMA FirstOfIn ==
    ASSUME NEW S \in SUBSET AddOns, S # {}
    PROVE  FirstOf(S) \in S
PROOF
  <1> DEFINE I == {i \in DOMAIN AddOnOrder : AddOnOrder[i] \in S}
  <1>1. DOMAIN AddOnOrder \subseteq Nat
    BY StartupAssumption
  <1>2. I # {}
    BY DEF AddOns, Range
  <1>3. First(I) \in I
    BY <1>1, <1>2, FirstIsLeast
  <1> QED
    BY <1>3 DEF FirstOf

\* Two projects are the same only if they belong to one add-on, whose name is the
\* same for portainer and for compose.
LEMMA ProjectNames ==
    ASSUME NEW a \in AddOns, NEW b \in AddOns
    PROVE  /\ Old(a) \in Projects /\ New(a) \in Projects
           /\ Old(a)[1] = a /\ New(a)[1] = a
           /\ Old(a) = Old(b) => a = b
           /\ New(a) = New(b) => a = b
           /\ Old(a) = New(b) => a = b
           /\ Old(a) = New(a) <=> a \in SameName
PROOF
    BY DEF Old, New, Projects

\* A project belongs to an add-on.
LEMMA ProjectOf ==
    ASSUME NEW p \in Projects
    PROVE  p[1] \in AddOns
PROOF
    BY DEF Projects

--------------------------------------------------------------------------------
\* The fields of a manifest.
ManifestFields == {"manifestVersion", "services", "environments", "settings", "publish", "vendor", "features"}

\* What is needed of the manifests on a device.
LEMMA ManifestForm ==
    ASSUME NEW a \in AddOns
    PROVE  /\ ManifestOf[a] = [f \in ManifestFields |-> ManifestOf[a][f]]
           /\ ManifestOf[a].manifestVersion = "0.1" /\ ManifestOf[a].vendor = TRUE
           /\ NoVendor(a) = [f \in ManifestFields |-> NoVendor(a)[f]]
           /\ NoVendor(a).manifestVersion = "0.1" /\ NoVendor(a).vendor = FALSE
           /\ NoVendor(a).settings = ManifestOf[a].settings
PROOF
  <1> DEFINE m == ManifestOf[a]
  <1>1. m = Manifests(m.services, m.environments, m.settings, m.publish, TRUE)
    BY StartupAssumption DEF IsManifestV0_1
  <1>2. m = [f \in ManifestFields |-> m[f]] /\ m.manifestVersion = "0.1" /\ m.vendor = TRUE
    <2> HIDE DEF m
    <2> QED
      BY <1>1 DEF Manifests, ManifestFields
  <1> HIDE DEF m
  <1>3. /\ NoVendor(a) = [m EXCEPT !.vendor = FALSE]
    BY DEF NoVendor, m
  <1> QED
    BY <1>2, <1>3 DEF ManifestFields, m

\* What the migration makes of the services and environments of a manifest of version 0.1.
Services01(a) == [s \in DOMAIN ManifestOf[a].services |->
        attachServicesToExternalAddOnNetwork(LimitRestart(ManifestOf[a].services[s]))]
Environments01(a) ==
    IF useInternalBridge(ManifestOf[a].services)
    THEN addEnvironmentforExternalAddOnNetwork(ManifestOf[a].environments)
    ELSE ManifestOf[a].environments

\* The manifest an add-on is migrated to, field by field.
LEMMA MigratedForm ==
    ASSUME NEW a \in AddOns
    PROVE  /\ Migrated(a) = [f \in ManifestFields |-> Migrated(a)[f]]
           /\ Migrated(a).manifestVersion = "0.2"
           /\ Migrated(a).settings = ManifestOf[a].settings
           /\ Migrated(a).services = Services01(a)
           /\ Migrated(a).environments = Environments01(a)
PROOF
  <1> DEFINE m == ManifestOf[a]
  <1>1. m = [f \in ManifestFields |-> m[f]] /\ m.manifestVersion = "0.1" /\ m.vendor = TRUE
    BY ManifestForm
  <1>2. Migrated(a) = migrateFromV0_1ToV0_2(m)
    <2>1. Migrated(a) = MigrateUcManifest(m)
      BY DEF Migrated
    <2> HIDE DEF m
    <2> QED
      BY <1>1, <2>1 DEF MigrateUcManifest, ValidManifestVersion
  <1>3. migrateFromV0_1ToV0_2(m) = [m EXCEPT !.manifestVersion = "0.2", !.features = {},
            !.services = Services01(a), !.environments = Environments01(a)]
    <2>1. Services01(a) = [s \in DOMAIN m.services |-> 
                attachServicesToExternalAddOnNetwork(LimitRestart(m.services[s]))]
      BY DEF Services01
    <2>2. Environments01(a) = IF useInternalBridge(m.services)
            THEN addEnvironmentforExternalAddOnNetwork(m.environments) ELSE m.environments
      BY DEF Environments01
    <2> HIDE DEF m
    <2> QED
      BY <1>1, <2>1, <2>2 DEF migrateFromV0_1ToV0_2, ValidManifestVersion
  <1> DEFINE s == Services01(a)
             e == Environments01(a)
             q == Migrated(a)
  <1>4. q = [m EXCEPT !.manifestVersion = "0.2", !.features = {}, !.services = s, !.environments = e]
    BY <1>2, <1>3
  <1> HIDE DEF m, s, e, q
  <1>5. /\ q = [f \in ManifestFields |-> q[f]] /\ q.manifestVersion = "0.2" /\ q.settings = m.settings
        /\ q.services = s /\ q.environments = e
    BY <1>1, <1>4 DEF ManifestFields
  <1> QED
    BY <1>5 DEF m, s, e, q

\* What MigrateUcManifest makes of each manifest that can be in the catalogue.
LEMMA Migrating ==
    ASSUME NEW a \in AddOns
    PROVE  /\ MigrateUcManifest(ManifestOf[a]) = Migrated(a)
           /\ MigrateUcManifest(NoVendor(a)) = NoManifest
           /\ MigrateUcManifest(Migrated(a)) = Migrated(a)
           /\ NoManifest.manifestVersion = "none"
PROOF
  <1> DEFINE n == NoVendor(a)
             q == Migrated(a)
  <1>1. n.manifestVersion = "0.1" /\ n.vendor = FALSE /\ q.manifestVersion = "0.2"
    BY ManifestForm, MigratedForm
  <1> HIDE DEF n, q
  <1>2. MigrateUcManifest(n) = NoManifest
    BY <1>1 DEF MigrateUcManifest, migrateFromV0_1ToV0_2, ValidManifestVersion
  <1>3. MigrateUcManifest(q) = q
    BY <1>1 DEF MigrateUcManifest, ValidManifestVersion
  <1>4. MigrateUcManifest(ManifestOf[a]) = Migrated(a)
    BY DEF Migrated
  <1>5. NoManifest.manifestVersion = "none"
    BY DEF NoManifest
  <1> QED
    BY <1>2, <1>3, <1>4, <1>5 DEF n, q

\* The fields of a service.
ServiceFields == {"type", "image", "restart", "networkMode", "networks", "volumes", "environment", "user"}

\* A service after the migration.
LEMMA MigratedService ==
    ASSUME NEW a \in AddOns, NEW s \in DOMAIN ManifestOf[a].services
    PROVE  LET o == ManifestOf[a].services[s]
               p == attachServicesToExternalAddOnNetwork(LimitRestart(o))
           IN  /\ p = [f \in ServiceFields |-> p[f]]
               /\ p.type = ComposeType /\ p.environment = o.environment
               /\ p.restart # "always" /\ p.networkMode # InternalAddOnNetworkName
               /\ p.networks = IF o.networkMode = InternalAddOnNetworkName
                               THEN {InternalAddOnNetworkName} ELSE o.networks
               /\ o.networks \subseteq getDockerComposeNetworksFrom(ManifestOf[a].environments)
PROOF
  <1> DEFINE o == ManifestOf[a].services[s]
             l == LimitRestart(o)
             p == attachServicesToExternalAddOnNetwork(l)
  <1>1. /\ o = [type |-> ComposeType, image |-> o.image,
                  restart |-> o.restart, networkMode |-> o.networkMode,
                  networks |-> o.networks, volumes |-> o.volumes,
                  environment |-> o.environment, user |-> o.user]
        /\ o.networks \subseteq getDockerComposeNetworksFrom(ManifestOf[a].environments)
    BY StartupAssumption DEF IsManifestV0_1
  <1>2. l = IF o.restart = "always" THEN [o EXCEPT !.restart = "no"] ELSE o
    BY DEF LimitRestart
  <1>3. p = IF l.networkMode = InternalAddOnNetworkName
            THEN [l EXCEPT !.networkMode = "", !.networks = {InternalAddOnNetworkName}] ELSE l
    BY DEF attachServicesToExternalAddOnNetwork
  <1> HIDE DEF o, l, p
  <1>4. o = [f \in ServiceFields |-> o[f]] /\ o.type = ComposeType
    BY <1>1 DEF ServiceFields
  <1>5. /\ l = [f \in ServiceFields |-> l[f]] /\ l.type = ComposeType /\ l.environment = o.environment
        /\ l.restart # "always" /\ l.networks = o.networks /\ l.networkMode = o.networkMode
    BY <1>2, <1>4 DEF ServiceFields
  <1>6. /\ p = [f \in ServiceFields |-> p[f]] /\ p.type = ComposeType /\ p.environment = o.environment
        /\ p.restart # "always" /\ p.networkMode # InternalAddOnNetworkName
        /\ p.networks = IF o.networkMode = InternalAddOnNetworkName
                        THEN {InternalAddOnNetworkName} ELSE o.networks
    BY <1>3, <1>5 DEF ServiceFields, InternalAddOnNetworkName
  <1> QED
    BY <1>1, <1>6 DEF o, l, p

\* The environment that declares the bridge.
MigrationKey == "migration-environment-v0-1-to-v0-2"

\* The services after the migration: the same ones, restarting on failure at most.
LEMMA MigratedServices ==
    ASSUME NEW a \in AddOns
    PROVE  /\ DOMAIN Migrated(a).services = DOMAIN ManifestOf[a].services
           /\ DOMAIN ManifestOf[a].services # {}
           /\ \A s \in DOMAIN ManifestOf[a].services :
                /\ Migrated(a).services[s] = [f \in ServiceFields |-> Migrated(a).services[s][f]]
                /\ Migrated(a).services[s].type = ComposeType
                /\ Migrated(a).services[s].environment = ManifestOf[a].services[s].environment
                /\ Migrated(a).services[s].restart # "always"
                /\ Migrated(a).services[s].networkMode # InternalAddOnNetworkName
PROOF
  <1>1. Migrated(a).services = Services01(a)
    BY MigratedForm
  <1>2. DOMAIN ManifestOf[a].services # {}
    BY StartupAssumption DEF IsManifestV0_1
  <1>3. /\ DOMAIN Services01(a) = DOMAIN ManifestOf[a].services
        /\ \A s \in DOMAIN ManifestOf[a].services :
             Services01(a)[s] = attachServicesToExternalAddOnNetwork(LimitRestart(ManifestOf[a].services[s]))
    BY DEF Services01
  <1> QED
    BY <1>1, <1>2, <1>3, MigratedService

\* The environments after the migration: the same ones, and that of the bridge.
LEMMA MigratedEnvironments ==
    ASSUME NEW a \in AddOns
    PROVE  LET old == ManifestOf[a].environments
               new == Migrated(a).environments
           IN  /\ MigrationKey \notin DOMAIN old
               /\ \A e \in DOMAIN old : e \in DOMAIN new /\ new[e] = old[e]
               /\ \A e \in DOMAIN new : new[e].type = ComposeType
               /\ \A e \in DOMAIN new \ DOMAIN old : new[e].volumes = {}
               /\ useInternalBridge(ManifestOf[a].services) =>
                    /\ MigrationKey \in DOMAIN new
                    /\ new[MigrationKey].networks = {InternalAddOnNetworkName}
PROOF
  <1> DEFINE old == ManifestOf[a].environments
             new == Migrated(a).environments
             use == useInternalBridge(ManifestOf[a].services)
  <1>1. MigrationKey \notin DOMAIN old /\ \A e \in DOMAIN old : old[e].type = ComposeType
    BY StartupAssumption DEF IsManifestV0_1, MigrationKey
  <1>2. new = IF use THEN addEnvironmentforExternalAddOnNetwork(old) ELSE old
    BY MigratedForm DEF Environments01
  <1> HIDE DEF old, new, use
  <1>3. CASE ~ use
    <2>1. new = old
      BY <1>2, <1>3
    <2> QED
      BY <1>1, <1>3, <2>1 DEF old, new, use
  <1>4. CASE use
    <2>1. new = [e \in DOMAIN old \cup {MigrationKey} |->
                    IF e = MigrationKey THEN NewEnvironment(ComposeType, {}, {InternalAddOnNetworkName})
                    ELSE old[e]]
      BY <1>2, <1>4 DEF addEnvironmentforExternalAddOnNetwork, MigrationKey
    <2>2. /\ NewEnvironment(ComposeType, {}, {InternalAddOnNetworkName}).type = ComposeType
          /\ NewEnvironment(ComposeType, {}, {InternalAddOnNetworkName}).volumes = {}
          /\ NewEnvironment(ComposeType, {}, {InternalAddOnNetworkName}).networks = {InternalAddOnNetworkName}
      BY DEF NewEnvironment
    <2> HIDE DEF MigrationKey
    <2>3. /\ DOMAIN new = DOMAIN old \cup {MigrationKey}
          /\ new[MigrationKey] = NewEnvironment(ComposeType, {}, {InternalAddOnNetworkName})
          /\ \A e \in DOMAIN old : new[e] = old[e]
      BY <1>1, <2>1
    <2> QED
      BY <1>1, <2>2, <2>3 DEF old, new
  <1> QED
    BY <1>3, <1>4

--------------------------------------------------------------------------------
\* The compose file of a migrated manifest

\* GetVolumeNames takes the name of each volume of each environment.
LEMMA VolumesAreNamed ==
    ASSUME NEW environments
    PROVE  GetVolumeNames(environments) =
             {returnTopLevelNameOrFromSettings(v) :
                v \in UNION {environments[e].volumes : e \in DOMAIN environments}}
PROOF
  BY DEF GetVolumeNames, filterVolumes

\* The migration of a manifest changes none of its volumes.
LEMMA MigratedVolumes ==
    ASSUME NEW a \in AddOns
    PROVE  GetVolumeNames(Migrated(a).environments) = VolumesOf(a)
PROOF
  <1> DEFINE old == ManifestOf[a].environments
             new == Migrated(a).environments
  <1>1. UNION {new[e].volumes : e \in DOMAIN new} = UNION {old[e].volumes : e \in DOMAIN old}
    <2>1. /\ \A e \in DOMAIN old : e \in DOMAIN new /\ new[e] = old[e]
          /\ \A e \in DOMAIN new \ DOMAIN old : new[e].volumes = {}
      BY MigratedEnvironments
    <2> HIDE DEF old, new
    <2>2. ASSUME NEW v, NEW e \in DOMAIN new, v \in new[e].volumes
          PROVE  \E f \in DOMAIN old : v \in old[f].volumes
      BY <2>1, <2>2
    <2>3. ASSUME NEW v, NEW e \in DOMAIN old, v \in old[e].volumes
          PROVE  \E f \in DOMAIN new : v \in new[f].volumes
      BY <2>1, <2>3
    <2> QED
      BY <2>2, <2>3
  <1>2. VolumesOf(a) = GetVolumeNames(old)
    BY DEF VolumesOf
  <1> QED
    BY <1>1, <1>2, VolumesAreNamed

\* The compose file of a migrated manifest with some settings.
LEMMA MigratedCompose ==
    ASSUME NEW a \in AddOns, NEW m,
           m.environments = Migrated(a).environments,
           DOMAIN m.services = DOMAIN Migrated(a).services,
           \A s \in DOMAIN m.services : /\ m.services[s] = [f \in ServiceFields |-> m.services[s][f]]
                                        /\ m.services[s].type = ComposeType
    PROVE  LET compose == GetDockerComposeFromManifest(m)
           IN  /\ InternalAddOnNetworkName \in compose.networks <=> IsConnected(Migrated(a))
               /\ compose.volumes = VolumesOf(a)
               /\ DOMAIN compose.services = DOMAIN ManifestOf[a].services
               /\ DOMAIN compose.services # {}
               /\ \A s \in DOMAIN compose.services :
                    compose.services[s].environment =
                        mergeEnvironmentVariables(m.services[s].environment, m.settings)
PROOF
  <1> DEFINE compose == GetDockerComposeFromManifest(m)
             env == Migrated(a).environments
  <1>1. getDockerComposeEnvironmentsFrom(env) = DOMAIN env
    BY MigratedEnvironments DEF getDockerComposeEnvironmentsFrom
  <1>2. /\ compose.services = getDockerComposeServicesFrom(m.services, m.settings)
        /\ compose.volumes  = {returnTopLevelNameOrFromSettings(v) : v \in getDockerComposeVolumesFrom(env)}
        /\ compose.networks = getDockerComposeNetworksFrom(env)
    BY DEF GetDockerComposeFromManifest
  <1>3. getDockerComposeVolumesFrom(env) = UNION {env[e].volumes : e \in DOMAIN env}
    BY <1>1 DEF getDockerComposeVolumesFrom
  <1>4. getDockerComposeNetworksFrom(env) = UNION {env[e].networks : e \in DOMAIN env}
    BY <1>1 DEF getDockerComposeNetworksFrom
  <1>5. InternalAddOnNetworkName \in compose.networks <=> IsConnected(Migrated(a))
    BY <1>2, <1>4 DEF IsConnected
  <1>6. compose.volumes = VolumesOf(a)
    BY <1>2, <1>3, VolumesAreNamed, MigratedVolumes
  <1>7. DOMAIN compose.services = DOMAIN m.services
    BY <1>2 DEF getDockerComposeServicesFrom
  <1>8. ASSUME NEW s \in DOMAIN m.services
        PROVE  compose.services[s].environment =
                 mergeEnvironmentVariables(m.services[s].environment, m.settings)
    <2> DEFINE o == m.services[s]
               x == mergeEnvironmentVariables(o.environment, m.settings)
    <2>1. compose.services[s] = [o EXCEPT !.environment = x]
      BY <1>2 DEF getDockerComposeServicesFrom
    <2>2. o = [f \in ServiceFields |-> o[f]]
      OBVIOUS
    <2> HIDE DEF o, x, compose
    <2>3. compose.services[s].environment = x
      BY <2>1, <2>2 DEF ServiceFields
    <2> QED
      BY <2>3 DEF o, x, compose
  <1> QED
    BY <1>5, <1>6, <1>7, <1>8, MigratedServices

\* MigrateStack creates the new stack from the migrated manifest with other settings.
LEMMA WithSettings ==
    ASSUME NEW a \in AddOns, NEW settings
    PROVE  LET m == [Migrated(a) EXCEPT !.settings = settings]
           IN  /\ m = [Migrated(a) EXCEPT !.settings = m.settings] /\ m.settings = settings
               /\ [m EXCEPT !.settings = ManifestOf[a].settings] = Migrated(a)
               /\ m.environments = Migrated(a).environments /\ m.services = Migrated(a).services
PROOF
  <1> DEFINE q == Migrated(a)
             own == ManifestOf[a].settings
  <1>1. q = [f \in ManifestFields |-> q[f]] /\ q.settings = own
    BY MigratedForm
  <1> HIDE DEF q, own
  <1>2. LET m == [q EXCEPT !.settings = settings]
        IN  /\ m = [q EXCEPT !.settings = m.settings] /\ m.settings = settings
            /\ [m EXCEPT !.settings = own] = q
            /\ m.environments = q.environments /\ m.services = q.services
    BY <1>1 DEF ManifestFields
  <1> QED
    BY <1>2 DEF q, own

\* The compose file of a migrated manifest, whatever its settings.
LEMMA ComposeWithSettings ==
    ASSUME NEW a \in AddOns, NEW settings
    PROVE  LET compose == GetDockerComposeFromManifest([Migrated(a) EXCEPT !.settings = settings])
           IN  /\ InternalAddOnNetworkName \in compose.networks <=> IsConnected(Migrated(a))
               /\ compose.volumes = VolumesOf(a)
               /\ DOMAIN compose.services # {} /\ MadeWith(a, compose.services, settings)
PROOF
  <1> DEFINE q == Migrated(a)
             m == [q EXCEPT !.settings = settings]
             compose == GetDockerComposeFromManifest(m)
  <1>1. m.settings = settings /\ m.environments = q.environments /\ m.services = q.services
    BY WithSettings
  <1>2. \A s \in DOMAIN q.services : /\ q.services[s] = [f \in ServiceFields |-> q.services[s][f]]
                                     /\ q.services[s].type = ComposeType
    BY MigratedServices
  <1>3. /\ InternalAddOnNetworkName \in compose.networks <=> IsConnected(q)
        /\ compose.volumes = VolumesOf(a)
        /\ DOMAIN compose.services # {} /\ DOMAIN compose.services = DOMAIN ManifestOf[a].services
        /\ \A s \in DOMAIN compose.services :
             compose.services[s].environment =
               mergeEnvironmentVariables(m.services[s].environment, settings)
    <2> HIDE DEF m
    <2>1. /\ DOMAIN m.services = DOMAIN q.services
          /\ \A s \in DOMAIN m.services : /\ m.services[s] = [f \in ServiceFields |-> m.services[s][f]]
                                          /\ m.services[s].type = ComposeType
      <3> HIDE DEF q
      <3> QED
        BY <1>1, <1>2
    <2> QED
      BY <1>1, <2>1, MigratedCompose
  <1>4. MadeWith(a, compose.services, settings)
    <2>1. \A s \in DOMAIN ManifestOf[a].services :
            q.services[s].environment = ManifestOf[a].services[s].environment
      BY MigratedServices
    <2> HIDE DEF compose, m, q
    <2> QED
      BY <1>1, <1>3, <2>1 DEF MadeWith
  <1> HIDE DEF compose, m, q
  <1>5. /\ InternalAddOnNetworkName \in compose.networks <=> IsConnected(q)
        /\ compose.volumes = VolumesOf(a)
        /\ DOMAIN compose.services # {}
    BY <1>3
  <1> QED
    BY <1>4, <1>5 DEF compose, m, q

\* A drop-in is created from the manifest as it is adapted to the system.
LEMMA ComposeOfDropIn ==
    ASSUME NEW a \in AddOns, NEW env
    PROVE  LET settings == CombineManifestSettingsWithSettingsMap(ManifestOf[a].settings, env)
               compose == GetDockerComposeFromManifest([adaptFeaturesToSystem(Migrated(a)) EXCEPT
                            !.settings = CombineManifestSettingsWithSettingsMap(@, env)])
           IN  /\ compose.volumes = VolumesOf(a)
               /\ DOMAIN compose.services # {} /\ MadeWith(a, compose.services, settings)
PROOF
  <1> DEFINE q == Migrated(a)
             x == adaptFeaturesToSystem(q)
             own == ManifestOf[a].settings
             settings == CombineManifestSettingsWithSettingsMap(own, env)
             m == [x EXCEPT !.settings = CombineManifestSettingsWithSettingsMap(x.settings, env)]
             compose == GetDockerComposeFromManifest(m)
             admin == [s \in DOMAIN q.services |->
                         IF UsesLocalPublicVolume(q.services[s], q.environments)
                         THEN [q.services[s] EXCEPT !.user = "admin"] ELSE q.services[s]]
  <1>1. q = [f \in ManifestFields |-> q[f]] /\ q.settings = own
    BY MigratedForm
  <1>2. x = q \/ x = [q EXCEPT !.services = admin]
    BY DEF adaptFeaturesToSystem, assignAdminUserToLocalPublicVolumeServices
  <1>3. \A s \in DOMAIN q.services : /\ q.services[s] = [f \in ServiceFields |-> q.services[s][f]]
                                     /\ q.services[s].type = ComposeType
    BY MigratedServices
  <1>4. /\ DOMAIN admin = DOMAIN q.services
        /\ \A s \in DOMAIN q.services : /\ admin[s] = [f \in ServiceFields |-> admin[s][f]]
                                        /\ admin[s].type = ComposeType
                                        /\ admin[s].environment = q.services[s].environment
    <2>1. ASSUME NEW s \in DOMAIN q.services
          PROVE  /\ admin[s] = [f \in ServiceFields |-> admin[s][f]] /\ admin[s].type = ComposeType
                 /\ admin[s].environment = q.services[s].environment
      <3> DEFINE o == q.services[s]
                 p == admin[s]
      <3>1. p = [o EXCEPT !.user = "admin"] \/ p = o
        OBVIOUS
      <3>2. o = [f \in ServiceFields |-> o[f]] /\ o.type = ComposeType
        BY <1>3
      <3> HIDE DEF o, p
      <3>3. p = [f \in ServiceFields |-> p[f]] /\ p.type = ComposeType /\ p.environment = o.environment
        BY <3>1, <3>2 DEF ServiceFields
      <3> QED
        BY <3>3 DEF p, o
    <2> QED
      BY <2>1
  <1>5. /\ m.settings = settings /\ m.environments = q.environments
        /\ m.services = q.services \/ m.services = admin
    <2>1. x = [f \in ManifestFields |-> x[f]] /\ x.settings = own /\ x.environments = q.environments
          /\ (x.services = q.services \/ x.services = admin)
      <3> HIDE DEF q, own, admin, x
      <3> QED
        BY <1>1, <1>2 DEF ManifestFields
    <2> HIDE DEF x, q, admin, own
    <2> QED
      BY <2>1 DEF ManifestFields
  <1>6. /\ DOMAIN m.services = DOMAIN q.services
        /\ \A s \in DOMAIN m.services : /\ m.services[s] = [f \in ServiceFields |-> m.services[s][f]]
                                        /\ m.services[s].type = ComposeType
                                        /\ m.services[s].environment = q.services[s].environment
    <2> HIDE DEF m, admin, q
    <2> QED
      BY <1>3, <1>4, <1>5
  <1>7. /\ compose.volumes = VolumesOf(a)
        /\ DOMAIN compose.services # {} /\ DOMAIN compose.services = DOMAIN ManifestOf[a].services
        /\ \A s \in DOMAIN compose.services :
             compose.services[s].environment =
               mergeEnvironmentVariables(m.services[s].environment, m.settings)
    <2> HIDE DEF m
    <2> QED
      BY <1>5, <1>6, MigratedCompose
  <1>8. MadeWith(a, compose.services, settings)
    <2>1. /\ DOMAIN q.services = DOMAIN ManifestOf[a].services
          /\ \A s \in DOMAIN q.services : q.services[s].environment = ManifestOf[a].services[s].environment
      BY MigratedServices
    <2> HIDE DEF compose, m, q, settings, admin
    <2> QED
      BY <1>5, <1>6, <1>7, <2>1 DEF MadeWith
  <1> QED
    BY <1>7, <1>8

\* The networks of a migrated service are declared for compose.
LEMMA MigratedNetworks ==
    ASSUME NEW a \in AddOns, NEW s \in DOMAIN ManifestOf[a].services
    PROVE  Migrated(a).services[s].networks \subseteq getDockerComposeNetworksFrom(Migrated(a).environments)
PROOF
  <1> DEFINE old == ManifestOf[a].environments
             new == Migrated(a).environments
             o == ManifestOf[a].services[s]
             p == Migrated(a).services[s]
  <1>1. p = attachServicesToExternalAddOnNetwork(LimitRestart(o))
    BY MigratedForm DEF Services01
  <1>2. /\ p.networks = IF o.networkMode = InternalAddOnNetworkName
                        THEN {InternalAddOnNetworkName} ELSE o.networks
        /\ o.networks \subseteq getDockerComposeNetworksFrom(old)
    <2> HIDE DEF p
    <2> QED
      BY <1>1, MigratedService
  <1>3. /\ \A e \in DOMAIN old : e \in DOMAIN new /\ new[e] = old[e]
        /\ \A e \in DOMAIN new : new[e].type = ComposeType
        /\ useInternalBridge(ManifestOf[a].services) =>
             /\ MigrationKey \in DOMAIN new
             /\ new[MigrationKey].networks = {InternalAddOnNetworkName}
    BY MigratedEnvironments
  <1>4. o.networkMode = InternalAddOnNetworkName => useInternalBridge(ManifestOf[a].services)
    BY DEF useInternalBridge
  <1>5. ASSUME NEW n \in getDockerComposeNetworksFrom(old)
        PROVE  n \in getDockerComposeNetworksFrom(new)
    <2>1. PICK e \in DOMAIN old : n \in old[e].networks
      BY <1>5 DEF getDockerComposeNetworksFrom, getDockerComposeEnvironmentsFrom
    <2>2. e \in DOMAIN new /\ new[e].type = ComposeType /\ n \in new[e].networks
      BY <1>3, <2>1
    <2> HIDE DEF new
    <2> QED
      BY <2>2 DEF getDockerComposeNetworksFrom, getDockerComposeEnvironmentsFrom
  <1>6. useInternalBridge(ManifestOf[a].services) =>
          InternalAddOnNetworkName \in getDockerComposeNetworksFrom(new)
    <2> HIDE DEF new
    <2> QED
      BY <1>3 DEF getDockerComposeNetworksFrom, getDockerComposeEnvironmentsFrom
  <1> HIDE DEF p, o, new, old
  <1>7. p.networks \subseteq getDockerComposeNetworksFrom(new)
    BY <1>2, <1>4, <1>5, <1>6 DEF o
  <1> QED
    BY <1>7 DEF p, new

\* What of a setting reaches the compose file (getDockerComposeEnvironmentMapFrom).
Given(setting) == setting.select = <<>> \/ Selected(setting) # {}
ValueOf(setting) ==
    IF setting.select = <<>> THEN setting.value
    ELSE setting.select[First(Selected(setting))].value
HasItem(setting, value) == \E z \in DOMAIN setting.select : setting.select[z].value = value
SettingOf(a, i) == ManifestOf[a].settings[i]
SameNames(a, settings) ==
    /\ DOMAIN settings = DOMAIN ManifestOf[a].settings
    /\ \A i \in DOMAIN settings : settings[i].name = SettingOf(a, i).name

\* The settings of a manifest are records with names of their own.
LEMMA SettingForm ==
    ASSUME NEW a \in AddOns, NEW i \in DOMAIN ManifestOf[a].settings
    PROVE  LET o == SettingOf(a, i)
           IN  /\ i \in Nat
               /\ o = [name |-> o.name, value |-> o.value, select |-> o.select]
               /\ DOMAIN o.select \subseteq Nat
               /\ o.select # <<>> => DOMAIN o.select # {}
               /\ \A z \in DOMAIN o.select :
                    /\ o.select[z] = [value |-> o.select[z].value, selected |-> o.select[z].selected]
                    /\ o.select[z].selected \in BOOLEAN
               /\ \A j \in DOMAIN ManifestOf[a].settings : SettingOf(a, j).name = o.name => i = j
PROOF
  <1> DEFINE settings == ManifestOf[a].settings
             o == settings[i]
  <1>1. /\ settings \in Seq(Range(settings))
        /\ o = NewSettings(o.name, o.value, o.select)
        /\ o.select \in Seq(Range(o.select))
        /\ \A item \in Range(o.select) :
             item = [value |-> item.value, selected |-> item.selected] /\ item.selected \in BOOLEAN
        /\ \A j \in DOMAIN settings : o.name = settings[j].name => i = j
    BY StartupAssumption DEF IsManifestV0_1
  <1>2. i \in DOMAIN settings
    OBVIOUS
  <1> HIDE DEF settings
  <1>3. i \in Nat
    BY <1>1, <1>2
  <1> HIDE DEF o
  <1>4. /\ DOMAIN o.select \subseteq Nat /\ (o.select # <<>> => DOMAIN o.select # {})
        /\ \A z \in DOMAIN o.select : o.select[z] \in Range(o.select)
    BY <1>1 DEF Range
  <1>5. \A z \in DOMAIN o.select :
          /\ o.select[z] = [value |-> o.select[z].value, selected |-> o.select[z].selected]
          /\ o.select[z].selected \in BOOLEAN
    BY <1>1, <1>4
  <1>6. o = [name |-> o.name, value |-> o.value, select |-> o.select]
    BY <1>1 DEF NewSettings
  <1> QED
    BY <1>1, <1>3, <1>4, <1>5, <1>6 DEF SettingOf, o, settings

\* Selecting the items that have a value: there is a variable if there is such an item.
LEMMA Selecting ==
    ASSUME NEW a \in AddOns, NEW i \in DOMAIN ManifestOf[a].settings, SettingOf(a, i).select # <<>>,
           NEW value, NEW setting,
           DOMAIN setting.select = DOMAIN SettingOf(a, i).select,
           \A z \in DOMAIN setting.select :
               /\ setting.select[z].value = SettingOf(a, i).select[z].value
               /\ setting.select[z].selected <=> SettingOf(a, i).select[z].value = value
    PROVE  /\ setting.select # <<>>
           /\ Given(setting) <=> HasItem(SettingOf(a, i), value)
           /\ Given(setting) => ValueOf(setting) = value
PROOF
  <1> DEFINE o == SettingOf(a, i)
             y == setting.select
  <1>1. DOMAIN y = DOMAIN o.select
    OBVIOUS
  <1>2. \A z \in DOMAIN o.select : y[z].value = o.select[z].value /\ (y[z].selected <=> o.select[z].value = value)
    OBVIOUS
  <1>3. DOMAIN o.select \subseteq Nat /\ DOMAIN o.select # {}
    BY SettingForm
  <1> HIDE DEF o, y
  <1>4. y # <<>>
    BY <1>1, <1>3
  <1>5. Selected(setting) = {z \in DOMAIN y : y[z].selected}
    BY DEF Selected, y
  <1>6. Given(setting) <=> HasItem(o, value)
    BY <1>1, <1>2, <1>4, <1>5 DEF Given, HasItem, y
  <1>7. ASSUME Given(setting) PROVE ValueOf(setting) = value
    <2>1. Selected(setting) # {} /\ Selected(setting) \subseteq Nat
      BY <1>1, <1>3, <1>4, <1>5, <1>7 DEF Given, y
    <2>2. First(Selected(setting)) \in Selected(setting)
      BY <2>1, FirstIsLeast
    <2>3. y[First(Selected(setting))].value = value
      BY <1>1, <1>2, <1>5, <2>2
    <2> QED
      BY <1>4, <2>3 DEF ValueOf, y
  <1> QED
    BY <1>4, <1>6, <1>7 DEF o, y

\* What CombineManifestSettingsWithSettingsMap makes of a setting.
LEMMA Combined ==
    ASSUME NEW a \in AddOns, NEW i \in DOMAIN ManifestOf[a].settings, NEW env
    PROVE  LET o == SettingOf(a, i)
               q == CombineManifestSettingsWithSettingsMap(ManifestOf[a].settings, env)[i]
           IN  /\ q.name = o.name
               /\ o.name \notin DOMAIN env => q = o
               /\ o.select = <<>> => q.select = <<>>
               /\ o.name \in DOMAIN env /\ IsTextBox(o) => q.value = env[o.name]
               /\ o.name \in DOMAIN env /\ o.select # <<>> =>
                    /\ q.select # <<>>
                    /\ Given(q) <=> HasItem(o, env[o.name])
                    /\ Given(q) => ValueOf(q) = env[o.name]
PROOF
  <1> DEFINE o == SettingOf(a, i)
             w == env[o.name]
             q == CombineManifestSettingsWithSettingsMap(ManifestOf[a].settings, env)[i]
             y == [z \in DOMAIN o.select |-> [value |-> o.select[z].value, selected |-> o.select[z].value = w]]
  <1>1. o = [name |-> o.name, value |-> o.value, select |-> o.select]
    BY SettingForm
  <1>2. q = IF o.name \notin DOMAIN env THEN o
            ELSE IF IsTextBox(o) THEN [o EXCEPT !.value = w] ELSE [o EXCEPT !.select = y]
    <2>1. q = IF o.name \notin DOMAIN env THEN o
              ELSE IF IsTextBox(o) THEN [o EXCEPT !.value = w] ELSE SelectValue(o, w)
      BY DEF CombineManifestSettingsWithSettingsMap, SettingOf
    <2>2. SelectValue(o, w) = [o EXCEPT !.select = y]
      BY DEF SelectValue
    <2> HIDE DEF o, w, q, y
    <2> QED
      BY <2>1, <2>2
  <1>3. o.select = <<>> => y = <<>>
    OBVIOUS
  <1>4. IsTextBox(o) => o.select = <<>>
    BY DEF IsTextBox
  <1>5. ASSUME o.select # <<>>, o.name \in DOMAIN env
        PROVE  /\ q.select # <<>>
               /\ Given(q) <=> HasItem(o, w)
               /\ Given(q) => ValueOf(q) = w
    <2>1. q.select = y
      <3> HIDE DEF o, w, q, y
      <3> QED
        BY <1>1, <1>2, <1>4, <1>5
    <2>2. DOMAIN y = DOMAIN o.select
      OBVIOUS
    <2>3. \A z \in DOMAIN o.select :
            y[z].value = o.select[z].value /\ (y[z].selected <=> o.select[z].value = w)
      OBVIOUS
    <2> HIDE DEF q, w, y
    <2> QED
      BY <1>5, <2>1, <2>2, <2>3, Selecting
  <1> HIDE DEF o, w, q, y
  <1>6. /\ q.name = o.name
        /\ o.name \notin DOMAIN env => q = o
        /\ o.select = <<>> => q.select = <<>>
        /\ o.name \in DOMAIN env /\ IsTextBox(o) => q.value = w
    BY <1>1, <1>2, <1>3
  <1> QED
    BY <1>5, <1>6 DEF o, q, w

\* What a client sends of a setting that it was shown.
LEMMA SentBack ==
    ASSUME NEW a \in AddOns, NEW i \in DOMAIN ManifestOf[a].settings, NEW env
    PROVE  LET o == SettingOf(a, i)
               q == SettingsSent(ManifestOf[a].settings, env)[i]
           IN  /\ q.name = o.name
               /\ o.select = <<>> =>
                    q.select = <<>> /\ q.value = IF o.name \in DOMAIN env THEN env[o.name] ELSE o.value
               /\ o.name \notin DOMAIN env => q.select = o.select
               /\ o.name \in DOMAIN env /\ o.select # <<>> =>
                    /\ q.select # <<>>
                    /\ Given(q) <=> HasItem(o, env[o.name])
                    /\ Given(q) => ValueOf(q) = env[o.name]
PROOF
  <1> DEFINE settings == ManifestOf[a].settings
             o == SettingOf(a, i)
             w == env[o.name]
             q == SettingsSent(settings, env)[i]
             y == [z \in DOMAIN o.select |-> [value |-> o.select[z].value, selected |-> o.select[z].value = w]]
             x == mapSettingToGrpcSetting(settings)
             c == setCurrentEnvironmentValues(x, env)
             edited == [z \in DOMAIN o.select |-> [o.select[z] EXCEPT !.selected = (o.select[z].value = w)]]
  <1>1. /\ DOMAIN x = DOMAIN settings
        /\ x[i] = IF o.select = <<>> THEN [name |-> o.name, oneof |-> "TextBox", value |-> o.value]
                  ELSE [name |-> o.name, oneof |-> "DropDownList", elements |-> o.select]
    BY DEF mapSettingToGrpcSetting, SettingOf
  <1>2. edited = y
    <2>1. \A z \in DOMAIN o.select :
            o.select[z] = [value |-> o.select[z].value, selected |-> o.select[z].selected]
      BY SettingForm
    <2> HIDE DEF o, w
    <2>2. ASSUME NEW z \in DOMAIN o.select
          PROVE  [o.select[z] EXCEPT !.selected = (o.select[z].value = w)] =
                 [value |-> o.select[z].value, selected |-> o.select[z].value = w]
      <3> DEFINE e == o.select[z]
                 b == (e.value = w)
      <3>1. e = [value |-> e.value, selected |-> e.selected]
        BY <2>1
      <3> HIDE DEF e, b
      <3>2. [e EXCEPT !.selected = b] = [value |-> e.value, selected |-> b]
        BY <3>1
      <3> QED
        BY <3>2 DEF e, b
    <2> QED
      BY <2>2
  <1> HIDE DEF x
  <1>3. /\ DOMAIN c = DOMAIN settings
        /\ c[i] = IF x[i].name \notin DOMAIN env THEN x[i]
                  ELSE IF x[i].oneof = "TextBox" THEN [x[i] EXCEPT !.value = env[x[i].name]]
                  ELSE [x[i] EXCEPT !.elements = [e \in DOMAIN x[i].elements |->
                          [x[i].elements[e] EXCEPT !.selected = (x[i].elements[e].value = env[x[i].name])]]]
    <2> DEFINE value == env[x[i].name]
               elements == [e \in DOMAIN x[i].elements |->
                              [x[i].elements[e] EXCEPT !.selected = (x[i].elements[e].value = value)]]
    <2>1. i \in DOMAIN x
      BY <1>1
    <2>2. DOMAIN c = DOMAIN x
      BY DEF setCurrentEnvironmentValues
    <2>3. c[i] = IF x[i].name \notin DOMAIN env THEN x[i]
                 ELSE IF x[i].oneof = "TextBox" THEN [x[i] EXCEPT !.value = value]
                 ELSE [x[i] EXCEPT !.elements = elements]
      BY <2>1 DEF setCurrentEnvironmentValues
    <2> QED
      BY <1>1, <2>2, <2>3
  <1> HIDE DEF c
  <1>4. q = IF c[i].oneof = "TextBox" THEN [name |-> c[i].name, value |-> c[i].value, select |-> <<>>]
            ELSE [name |-> c[i].name, value |-> "", select |-> c[i].elements]
    BY <1>3 DEF SettingsSent, mapGrpcSettingToSetting, NewSettings, x, c
  <1> HIDE DEF settings, o, w, q, y, edited
  <1>5. CASE o.select = <<>>
    <2>1. x[i] = [name |-> o.name, oneof |-> "TextBox", value |-> o.value]
      BY <1>1, <1>5
    <2>2. c[i] = IF o.name \notin DOMAIN env THEN x[i] ELSE [x[i] EXCEPT !.value = w]
      BY <1>3, <2>1 DEF w
    <2>3. /\ c[i].oneof = "TextBox" /\ c[i].name = o.name
          /\ c[i].value = IF o.name \in DOMAIN env THEN w ELSE o.value
      BY <2>1, <2>2
    <2>4. q.name = o.name /\ q.select = <<>> /\ q.value = IF o.name \in DOMAIN env THEN w ELSE o.value
      BY <1>4, <2>3
    <2> QED
      BY <1>5, <2>4 DEF o, q, w, settings
  <1>6. CASE o.select # <<>>
    <2>1. x[i] = [name |-> o.name, oneof |-> "DropDownList", elements |-> o.select]
      BY <1>1, <1>6
    <2>2. x[i].name = o.name /\ x[i].oneof = "DropDownList" /\ x[i].elements = o.select
      BY <2>1
    <2>3. c[i] = IF o.name \notin DOMAIN env THEN x[i] ELSE [x[i] EXCEPT !.elements = edited]
      BY <1>3, <2>2 DEF w, edited
    <2>4. /\ c[i].oneof = "DropDownList" /\ c[i].name = o.name
          /\ c[i].elements = IF o.name \in DOMAIN env THEN edited ELSE o.select
      BY <2>1, <2>3
    <2>5. q.name = o.name /\ q.select = IF o.name \in DOMAIN env THEN y ELSE o.select
      BY <1>2, <1>4, <2>4
    <2>6. o.name \in DOMAIN env => /\ q.select # <<>>
                                   /\ Given(q) <=> HasItem(o, w)
                                   /\ Given(q) => ValueOf(q) = w
      <3>1. DOMAIN y = DOMAIN o.select
        BY DEF y
      <3>2. \A z \in DOMAIN o.select :
              y[z].value = o.select[z].value /\ (y[z].selected <=> o.select[z].value = w)
        BY DEF y
      <3> QED
        <4> SUFFICES ASSUME o.name \in DOMAIN env
                     PROVE  /\ q.select # <<>>
                            /\ Given(q) <=> HasItem(o, w)
                            /\ Given(q) => ValueOf(q) = w
          OBVIOUS
        <4>1. /\ DOMAIN q.select = DOMAIN SettingOf(a, i).select /\ SettingOf(a, i).select # <<>>
              /\ \A z \in DOMAIN q.select :
                   /\ q.select[z].value = SettingOf(a, i).select[z].value
                   /\ q.select[z].selected <=> SettingOf(a, i).select[z].value = w
          BY <1>6, <2>5, <3>1, <3>2 DEF o
        <4> QED
          BY <4>1, Selecting DEF o
    <2> QED
      BY <1>6, <2>5, <2>6 DEF o, q, w, settings
  <1> QED
    BY <1>5, <1>6

\* Settings that were combined or sent are those of the manifest, by name.
LEMMA NamesStay ==
    ASSUME NEW a \in AddOns, NEW env
    PROVE  /\ SameNames(a, CombineManifestSettingsWithSettingsMap(ManifestOf[a].settings, env))
           /\ SameNames(a, SettingsSent(ManifestOf[a].settings, env))
PROOF
  <1> DEFINE combined == CombineManifestSettingsWithSettingsMap(ManifestOf[a].settings, env)
             sent == SettingsSent(ManifestOf[a].settings, env)
  <1>1. DOMAIN combined = DOMAIN ManifestOf[a].settings /\ DOMAIN sent = DOMAIN ManifestOf[a].settings
    BY DEF CombineManifestSettingsWithSettingsMap, SettingsSent, mapGrpcSettingToSetting,
       setCurrentEnvironmentValues, mapSettingToGrpcSetting
  <1>2. \A i \in DOMAIN ManifestOf[a].settings :
          combined[i].name = SettingOf(a, i).name /\ sent[i].name = SettingOf(a, i).name
    <2> TAKE i \in DOMAIN ManifestOf[a].settings
    <2>1. combined[i].name = SettingOf(a, i).name
      BY Combined
    <2>2. sent[i].name = SettingOf(a, i).name
      BY SentBack
    <2> QED
      BY <2>1, <2>2
  <1> HIDE DEF combined, sent
  <1>3. SameNames(a, combined) /\ SameNames(a, sent)
    BY <1>1, <1>2 DEF SameNames
  <1> QED
    BY <1>3 DEF combined, sent

\* The variables of the compose file are those of the settings that are given, with their values.
LEMMA ComposeMap ==
    ASSUME NEW a \in AddOns, NEW settings, SameNames(a, settings)
    PROVE  LET chosen == getDockerComposeEnvironmentMapFrom(settings)
           IN  /\ DOMAIN chosen = {settings[i].name : i \in {j \in DOMAIN settings : Given(settings[j])}}
               /\ chosen = [n \in DOMAIN chosen |-> chosen[n]]
               /\ \A i \in DOMAIN settings :
                    /\ Given(settings[i]) <=> settings[i].name \in DOMAIN chosen
                    /\ Given(settings[i]) => chosen[settings[i].name] = ValueOf(settings[i])
PROOF
  <1> DEFINE chosen == getDockerComposeEnvironmentMapFrom(settings)
             given == {i \in DOMAIN settings : Given(settings[i])}
             names == {settings[i].name : i \in given}
             Last(i, n) == settings[i].name = n /\ \A j \in given : settings[j].name = n => j <= i
  <1>1. chosen = [n \in names |-> ValueOf(settings[CHOOSE i \in given : Last(i, n)])]
    BY DEF getDockerComposeEnvironmentMapFrom, Given, ValueOf
  <1>2. \A i, j \in DOMAIN settings : i \in Nat /\ (settings[i].name = settings[j].name => i = j)
    BY SettingForm DEF SameNames
  <1>3. DOMAIN chosen = names
    BY <1>1
  <1>4. ASSUME NEW i \in DOMAIN settings, Given(settings[i])
        PROVE  settings[i].name \in names /\ chosen[settings[i].name] = ValueOf(settings[i])
    <2> DEFINE n == settings[i].name
    <2>1. i \in given /\ n \in names
      BY <1>4
    <2>2. Last(i, n) /\ \A j \in given : Last(j, n) => j = i
      BY <1>2, <1>4
    <2> HIDE DEF given, Last, names
    <2>3. (CHOOSE j \in given : Last(j, n)) = i
      BY <2>1, <2>2
    <2> QED
      BY <1>1, <2>1, <2>3
  <1>5. ASSUME NEW i \in DOMAIN settings, settings[i].name \in names PROVE Given(settings[i])
    BY <1>2, <1>5
  <1>6. chosen = [n \in DOMAIN chosen |-> chosen[n]]
    <2> HIDE DEF names
    <2> QED
      BY <1>1
  <1> QED
    BY <1>3, <1>4, <1>5, <1>6

\* A value of the user that is in an environment reaches the containers that are created from it.
LEMMA ValuesReachContainers ==
    ASSUME NEW a \in AddOns, NEW env, KeepsValues(a, env), NEW settings, NEW environment,
           \/ settings = CombineManifestSettingsWithSettingsMap(ManifestOf[a].settings, env)
           \/ settings = SettingsSent(ManifestOf[a].settings, env)
    PROVE  KeepsValues(a, mergeEnvironmentVariables(environment, settings))
PROOF
  <1> DEFINE chosen == getDockerComposeEnvironmentMapFrom(settings)
             merged == mergeEnvironmentVariables(environment, settings)
  <1>1. SameNames(a, settings)
    BY NamesStay
  <1>2. /\ DOMAIN merged = DOMAIN environment \cup DOMAIN chosen
        /\ \A n \in DOMAIN chosen : merged[n] = chosen[n]
    BY DEF mergeEnvironmentVariables
  <1>3. \A i \in DOMAIN settings :
          /\ Given(settings[i]) <=> settings[i].name \in DOMAIN chosen
          /\ Given(settings[i]) => chosen[settings[i].name] = ValueOf(settings[i])
    BY <1>1, ComposeMap
  <1> HIDE DEF chosen, merged
  <1>4. ASSUME NEW i \in DOMAIN ManifestOf[a].settings, Takes(a, i)
        PROVE  /\ SettingOf(a, i).name \in DOMAIN merged
               /\ merged[SettingOf(a, i).name] = UserEnv[a][SettingOf(a, i).name]
    <2> DEFINE o == SettingOf(a, i)
               n == o.name
               q == settings[i]
    <2>1. n \in DOMAIN env /\ env[n] = UserEnv[a][n] /\ CanTake(o, env[n])
      BY <1>4 DEF KeepsValues, Takes, SettingOf
    <2>2. q.name = n /\ i \in DOMAIN settings
      BY <1>1 DEF SameNames
    <2>3. Given(q) /\ ValueOf(q) = env[n]
      <3>1. CASE IsTextBox(o)
        <4>1. o.select = <<>>
          BY <3>1 DEF IsTextBox
        <4>2. q.select = <<>> /\ q.value = env[n]
          <5>1. CASE settings = CombineManifestSettingsWithSettingsMap(ManifestOf[a].settings, env)
            BY <2>1, <3>1, <4>1, <5>1, Combined
          <5>2. CASE settings = SettingsSent(ManifestOf[a].settings, env)
            BY <2>1, <4>1, <5>2, SentBack
          <5> QED
            BY <5>1, <5>2
        <4> QED
          BY <4>2 DEF Given, ValueOf
      <3>2. CASE ~ IsTextBox(o)
        <4>1. HasItem(o, env[n])
          BY <2>1, <3>2 DEF CanTake, HasItem
        <4>2. o.select # <<>>
          BY <4>1 DEF HasItem
        <4> QED
          <5>1. CASE settings = CombineManifestSettingsWithSettingsMap(ManifestOf[a].settings, env)
            BY <2>1, <4>1, <4>2, <5>1, Combined
          <5>2. CASE settings = SettingsSent(ManifestOf[a].settings, env)
            BY <2>1, <4>1, <4>2, <5>2, SentBack
          <5> QED
            BY <5>1, <5>2
      <3> QED
        BY <3>1, <3>2
    <2> HIDE DEF q
    <2> QED
      BY <1>2, <1>3, <2>1, <2>2, <2>3 DEF q
  <1>5. KeepsValues(a, merged)
    BY <1>4 DEF KeepsValues, SettingOf
  <1> QED
    BY <1>5 DEF merged

\* So do containers that were made with such settings.
LEMMA MadeKeepsUser ==
    ASSUME NEW a \in AddOns, NEW c, c.exists, NEW env, KeepsValues(a, env), NEW settings,
           \/ settings = CombineManifestSettingsWithSettingsMap(ManifestOf[a].settings, env)
           \/ settings = SettingsSent(ManifestOf[a].settings, env),
           MadeWith(a, c.services, settings)
    PROVE  KeepsUser(a, c)
PROOF
  <1>1. DOMAIN c.services # {} /\ DOMAIN c.services = DOMAIN ManifestOf[a].services
    BY MigratedServices DEF MadeWith
  <1>2. ASSUME NEW s \in DOMAIN c.services PROVE KeepsValues(a, c.services[s].environment)
    <2>1. c.services[s].environment =
            mergeEnvironmentVariables(ManifestOf[a].services[s].environment, settings)
      BY <1>1 DEF MadeWith
    <2> QED
      BY <2>1, ValuesReachContainers
  <1> QED
    BY <1>1, <1>2 DEF KeepsUser

\* The values of the user are among the values of the user.
LEMMA UserKeepsValues ==
    ASSUME NEW a \in AddOns PROVE KeepsValues(a, UserEnv[a])
PROOF
  BY DEF KeepsValues, Takes

--------------------------------------------------------------------------------
\* The first layer: manifests, release and routes

\* What the invariant tells of the manifest of an add-on.
LEMMA ManifestsOnDisk ==
    ASSUME ManifestInv, NEW a \in AddOns
    PROVE  /\ a \in Installed <=> manifest[a] # NoManifest
           /\ IsMigrated(a) <=> manifest[a].manifestVersion = "0.2"
           /\ a \in Installed <=> manifest[a].manifestVersion # "none"
           /\ manifest[a].manifestVersion \in {"none", "0.1", "0.2"}
           /\ a \in Installed => manifest[a].settings = ManifestOf[a].settings
           /\ a \notin Installed \/ manifest[a] = NoVendor(a) => MigrateUcManifest(manifest[a]) = NoManifest
           /\ a \in Installed /\ manifest[a] # NoVendor(a) => MigrateUcManifest(manifest[a]) = Migrated(a)
           /\ Migrated(a) # NoManifest /\ Migrated(a) # NoVendor(a)
PROOF
  <1> DEFINE m == manifest[a]
             o == ManifestOf[a]
             n == NoVendor(a)
             q == Migrated(a)
  <1>1. m \in {NoManifest, o, n, q}
    BY DEF ManifestInv, OnDisk
  <1>2. /\ o.manifestVersion = "0.1" /\ n.manifestVersion = "0.1" /\ q.manifestVersion = "0.2"
        /\ NoManifest.manifestVersion = "none"
        /\ n.settings = o.settings /\ q.settings = o.settings
    BY ManifestForm, MigratedForm, Migrating
  <1>3. MigrateUcManifest(o) = q /\ MigrateUcManifest(n) = NoManifest /\ MigrateUcManifest(q) = q
    BY Migrating
  <1>4. MigrateUcManifest(NoManifest) = NoManifest
    BY <1>2 DEF MigrateUcManifest, ValidManifestVersion
  <1>5. a \in Installed <=> m # NoManifest
    BY DEF Installed
  <1>6. o.vendor = TRUE /\ n.vendor = FALSE
    BY ManifestForm
  <1> HIDE DEF m, o, n, q
  <1> QED
    BY <1>1, <1>2, <1>3, <1>4, <1>5, <1>6 DEF IsMigrated, m, o, n, q

\* Steps that touch no manifest, no route and not what portainer knows.
Quiet == UNCHANGED <<manifest, routes, portainer>>
\* Such steps leave all that is said of manifests and routes as it is.
LEMMA QuietFrame ==
    ASSUME CoreInv, Quiet
    PROVE  /\ ManifestInv' /\ routes' = [a \in AddOns |-> routes'[a]]
           /\ Installed' = Installed /\ AllMigrated' = AllMigrated
           /\ \A a \in AddOns : IsMigrated(a)' = IsMigrated(a)
           /\ \A a \in AddOns : NewRoutes(a)' = NewRoutes(a)
PROOF
  <1>1. manifest' = manifest /\ routes' = routes /\ portainer' = portainer
    BY DEF Quiet
  <1> QED
    BY <1>1 DEF CoreInv, ManifestInv, Installed, AllMigrated, IsMigrated, NewRoutes

\* Only add-ons are installed.
LEMMA InstalledAddOns == Installed \subseteq AddOns
PROOF
  BY DEF Installed

\* The head of the loop is one of what is left.
LEMMA HeadIn ==
    ASSUME LoopInv, pc \in LoopLabels
    PROVE  Head1 \in todo /\ Head1 \in Installed /\ Head1 \in AddOns
PROOF
  <1>1. todo \subseteq Installed /\ todo # {} /\ todo \in SUBSET AddOns
    BY InstalledAddOns DEF LoopInv
  <1>2. FirstOf(todo) \in todo
    BY <1>1, FirstOfIn
  <1> QED
    BY <1>1, <1>2 DEF Head1

\* The process may end wherever it is.
LEMMA EndCore ==
    ASSUME CoreInv, Quiet, Goto("down"), UNCHANGED <<release, todo, net>>
    PROVE  CoreInv'
PROOF
  <1>1. /\ ManifestInv' /\ routes' = [a \in AddOns |-> routes'[a]]
        /\ Installed' = Installed /\ AllMigrated' = AllMigrated
        /\ \A a \in AddOns : IsMigrated(a)' = IsMigrated(a)
        /\ \A a \in AddOns : NewRoutes(a)' = NewRoutes(a)
    BY QuietFrame
  <1>2. pc' = "down" /\ release' = release /\ todo' = todo /\ net' = net
    BY DEF Goto
  <1>3. manifest' = manifest /\ portainer' = portainer
    BY DEF Quiet
  <1>4. VersionInv'
    BY <1>2 DEF VersionInv, FetchLabels, RouteLabels, AfterLabels
  <1>5. LoopInv'
    BY <1>1, <1>2 DEF CoreInv, LoopInv, LoopLabels, FetchLabels, RouteLabels, AfterLabels
  <1>6. ReleaseInv'
    BY <1>1, <1>2, <1>3, InstalledAddOns DEF CoreInv, ReleaseInv
  <1>7. PortainerInv'
    BY <1>2, <1>3 DEF CoreInv, PortainerInv, GoneLabels
  <1>8. MigratedInv'
    BY <1>2 DEF MigratedInv, FetchLabels
  <1> QED
    BY <1>1, <1>2, <1>4, <1>5, <1>6, <1>7, <1>8 DEF CoreInv, Labels

\* resolveVersionBasedOn decides by the first add-on, which stands for all of them.
LEMMA Resolved ==
    ASSUME CoreInv, release = "none"
    PROVE  /\ ResolvedVersion \in {"0.3.2", "0.4.0", "current"}
           /\ ResolvedVersion # "0.3.2" => AllMigrated
           /\ ResolvedVersion = "current" => Installed = {}
           /\ ResolvedVersion = "0.3.2" => portainer = AddOns /\ net /\ AddOns # {}
PROOF
  <1>1. CASE Installed = {}
    BY <1>1 DEF ResolvedVersion, AllMigrated
  <1>2. CASE Installed # {}
    <2> DEFINE f == FirstOf(Installed)
    <2>1. f \in Installed /\ f \in AddOns
      BY <1>2, FirstOfIn, InstalledAddOns
    <2>2. ManifestInv /\ ReleaseInv
      BY DEF CoreInv
    <2>3. IsMigrated(f) <=> manifest[f].manifestVersion = "0.2"
      BY <2>1, <2>2, ManifestsOnDisk
    <2>4. ResolvedVersion = IF manifest[f].manifestVersion = "0.1" THEN "0.3.2" ELSE "0.4.0"
      BY <1>2 DEF ResolvedVersion
    <2> HIDE DEF f
    <2>5. AllMigrated => IsMigrated(f)
      BY <2>1 DEF AllMigrated
    <2>6. /\ net
          /\ AllMigrated \/ (portainer = AddOns /\ \A a \in AddOns : manifest[a].manifestVersion = "0.1")
      BY <1>2, <2>2 DEF ReleaseInv
    <2>7. CASE manifest[f].manifestVersion = "0.1"
      BY <2>1, <2>3, <2>4, <2>5, <2>6, <2>7
    <2>8. CASE manifest[f].manifestVersion # "0.1"
      BY <2>1, <2>4, <2>6, <2>8
    <2> QED
      BY <2>7, <2>8
  <1> QED
    BY <1>1, <1>2

\* Steps that read or write release.json.
LEMMA VersionCore ==
    ASSUME CoreInv,
           \/ ResolveVersion \/ RecordVersion \/ GetVersion \/ TruncateRelease \/ UpdateVersion
           \/ UpdateVersionFails
    PROVE  CoreInv'
PROOF
  <1>0. Quiet
    BY DEF Quiet, ResolveVersion, RecordVersion, GetVersion, TruncateRelease, UpdateVersion,
       UpdateVersionFails, disk, locals
  <1>1. /\ ManifestInv' /\ routes' = [a \in AddOns |-> routes'[a]]
        /\ Installed' = Installed /\ AllMigrated' = AllMigrated
        /\ \A a \in AddOns : IsMigrated(a)' = IsMigrated(a)
        /\ \A a \in AddOns : NewRoutes(a)' = NewRoutes(a)
    BY <1>0, QuietFrame
  <1>2. manifest' = manifest /\ portainer' = portainer
    BY <1>0 DEF Quiet
  <1>3. VersionInv' /\ pc' \in Labels /\ release' \in Releases \cup {"none", "empty", "newer"}
    BY <1>1, <1>2, Resolved DEF ResolveVersion, RecordVersion, GetVersion, TruncateRelease,
       UpdateVersion, UpdateVersionFails, CoreInv, VersionInv, LoopInv, Releases, FetchLabels,
       RouteLabels, AfterLabels, Goto, disk, locals, Labels, Loop, Enter
  <1>4. LoopInv'
    BY <1>1, InstalledAddOns DEF ResolveVersion, RecordVersion, GetVersion, TruncateRelease,
       UpdateVersion, UpdateVersionFails, CoreInv, LoopInv, LoopLabels, FetchLabels, RouteLabels,
       AfterLabels, Goto, disk, locals, Enter
  <1>5. ReleaseInv'
    BY <1>1, <1>2, InstalledAddOns DEF ResolveVersion, RecordVersion, GetVersion, TruncateRelease,
       UpdateVersion, UpdateVersionFails, CoreInv, ReleaseInv, VersionInv, LoopInv, AfterLabels,
       disk, locals
  <1>6. PortainerInv'
    BY <1>2 DEF ResolveVersion, RecordVersion, GetVersion, TruncateRelease, UpdateVersion,
       UpdateVersionFails, CoreInv, PortainerInv, GoneLabels, Goto, Loop, Enter, disk, locals,
       Head1, FirstOf
  <1>7. MigratedInv'
    BY <1>2 DEF ResolveVersion, RecordVersion, GetVersion, TruncateRelease, UpdateVersion,
       UpdateVersionFails, CoreInv, MigratedInv, FetchLabels, Goto, Loop, Enter, disk, locals,
       Head1, FirstOf
  <1> QED
    BY <1>1, <1>3, <1>4, <1>5, <1>6, <1>7 DEF CoreInv

\* Steps of the migration of one add-on between fetching and replacing its manifest.
LEMMA VolumesCore ==
    ASSUME CoreInv,
           \/ ConnectToPortainer \/ CreateStackWithoutStart \/ RemoveContentOfOld
           \/ RemoveContentOfNew \/ CopyFromCache \/ RemoveUnusedVolumes
           \/ \E v \in VolumeNames : InspectVolumes(v)
    PROVE  CoreInv'
PROOF
  <1>0. Quiet
    BY DEF Quiet, ConnectToPortainer, CreateStackWithoutStart, InspectVolumes, RemoveContentOfOld,
       RemoveContentOfNew, CopyFromCache, RemoveUnusedVolumes, disk, locals
  <1>1. /\ ManifestInv' /\ routes' = [a \in AddOns |-> routes'[a]]
        /\ Installed' = Installed /\ AllMigrated' = AllMigrated
        /\ \A a \in AddOns : IsMigrated(a)' = IsMigrated(a)
        /\ \A a \in AddOns : NewRoutes(a)' = NewRoutes(a)
    BY <1>0, QuietFrame
  <1>2. manifest' = manifest /\ portainer' = portainer
    BY <1>0 DEF Quiet
  <1>3. VersionInv' /\ pc' \in Labels /\ release' \in Releases \cup {"none", "empty", "newer"}
    BY <1>1, <1>2 DEF ConnectToPortainer, CreateStackWithoutStart, InspectVolumes,
       RemoveContentOfOld, RemoveContentOfNew, CopyFromCache, RemoveUnusedVolumes, CoreInv,
       VersionInv, LoopInv, Releases, FetchLabels, RouteLabels, AfterLabels, Goto, disk, locals,
       Labels, Loop, Enter
  <1>4. LoopInv'
    BY <1>1, InstalledAddOns DEF ConnectToPortainer, CreateStackWithoutStart, InspectVolumes,
       RemoveContentOfOld, RemoveContentOfNew, CopyFromCache, RemoveUnusedVolumes, CoreInv,
       LoopInv, LoopLabels, FetchLabels, RouteLabels, AfterLabels, Goto, disk, locals, Enter
  <1>5. ReleaseInv'
    BY <1>1, <1>2, InstalledAddOns DEF ConnectToPortainer, CreateStackWithoutStart, InspectVolumes,
       RemoveContentOfOld, RemoveContentOfNew, CopyFromCache, RemoveUnusedVolumes, CoreInv,
       ReleaseInv, VersionInv, LoopInv, AfterLabels, disk, locals
  <1>6. PortainerInv'
    BY <1>2 DEF ConnectToPortainer, CreateStackWithoutStart, InspectVolumes, RemoveContentOfOld,
       RemoveContentOfNew, CopyFromCache, RemoveUnusedVolumes, CoreInv, PortainerInv, GoneLabels,
       Goto, Loop, Enter, disk, locals, Head1, FirstOf
  <1>7. MigratedInv'
    BY <1>2 DEF ConnectToPortainer, CreateStackWithoutStart, InspectVolumes, RemoveContentOfOld,
       RemoveContentOfNew, CopyFromCache, RemoveUnusedVolumes, CoreInv, MigratedInv, FetchLabels,
       Goto, Loop, Enter, disk, locals, Head1, FirstOf
  <1> QED
    BY <1>1, <1>3, <1>4, <1>5, <1>6, <1>7 DEF CoreInv

\* Steps of the start of the service that are in no loop.
LEMMA SequenceCore ==
    ASSUME CoreInv,
           \/ Boot \/ Setup \/ GetRegistryCredentials \/ ServeVolumeDrivers \/ RemoveInternalBridge
           \/ CreateInternalBridge
    PROVE  CoreInv'
PROOF
  <1>0. Quiet
    BY DEF Quiet, Boot, Setup, GetRegistryCredentials, ServeVolumeDrivers, RemoveInternalBridge,
       CreateInternalBridge, disk, locals
  <1>1. /\ ManifestInv' /\ routes' = [a \in AddOns |-> routes'[a]]
        /\ Installed' = Installed /\ AllMigrated' = AllMigrated
        /\ \A a \in AddOns : IsMigrated(a)' = IsMigrated(a)
        /\ \A a \in AddOns : NewRoutes(a)' = NewRoutes(a)
    BY <1>0, QuietFrame
  <1>2. manifest' = manifest /\ portainer' = portainer
    BY <1>0 DEF Quiet
  <1>3. VersionInv' /\ pc' \in Labels /\ release' \in Releases \cup {"none", "empty", "newer"}
    BY <1>1, <1>2 DEF Boot, Setup, GetRegistryCredentials, ServeVolumeDrivers,
       RemoveInternalBridge, CreateInternalBridge, CoreInv, VersionInv, LoopInv, Releases,
       FetchLabels, RouteLabels, AfterLabels, Goto, disk, locals, Labels, Loop, Enter
  <1>4. LoopInv'
    BY <1>1, InstalledAddOns DEF Boot, Setup, GetRegistryCredentials, ServeVolumeDrivers,
       RemoveInternalBridge, CreateInternalBridge, CoreInv, LoopInv, LoopLabels, FetchLabels,
       RouteLabels, AfterLabels, Goto, disk, locals, Enter
  <1>5. ReleaseInv'
    BY <1>1, <1>2, InstalledAddOns DEF Boot, Setup, GetRegistryCredentials, ServeVolumeDrivers,
       RemoveInternalBridge, CreateInternalBridge, CoreInv, ReleaseInv, VersionInv, LoopInv,
       AfterLabels, disk, locals
  <1>6. PortainerInv'
    BY <1>2 DEF Boot, Setup, GetRegistryCredentials, ServeVolumeDrivers, RemoveInternalBridge,
       CreateInternalBridge, CoreInv, PortainerInv, GoneLabels, Goto, Loop, Enter, disk, locals,
       Head1, FirstOf
  <1>7. MigratedInv'
    BY <1>2 DEF Boot, Setup, GetRegistryCredentials, ServeVolumeDrivers, RemoveInternalBridge,
       CreateInternalBridge, CoreInv, MigratedInv, FetchLabels, Goto, Loop, Enter, disk, locals,
       Head1, FirstOf
  <1> QED
    BY <1>1, <1>3, <1>4, <1>5, <1>6, <1>7 DEF CoreInv

\* Steps of the loops that stop, reconnect and start the add-ons.
LEMMA LoopsCore ==
    ASSUME CoreInv,
           \/ StopStack \/ StopStackFails \/ Reconnect \/ ReconnectFails \/ Start \/ StartFails
    PROVE  CoreInv'
PROOF
  <1>0. Quiet
    BY DEF Quiet, StopStack, StopStackFails, Reconnect, ReconnectFails, Start, StartFails, disk,
       locals
  <1>1. /\ ManifestInv' /\ routes' = [a \in AddOns |-> routes'[a]]
        /\ Installed' = Installed /\ AllMigrated' = AllMigrated
        /\ \A a \in AddOns : IsMigrated(a)' = IsMigrated(a)
        /\ \A a \in AddOns : NewRoutes(a)' = NewRoutes(a)
    BY <1>0, QuietFrame
  <1>2. manifest' = manifest /\ portainer' = portainer
    BY <1>0 DEF Quiet
  <1>3. VersionInv' /\ pc' \in Labels /\ release' \in Releases \cup {"none", "empty", "newer"}
    BY <1>1, <1>2 DEF StopStack, StopStackFails, Reconnect, ReconnectFails, Start, StartFails,
       CoreInv, VersionInv, LoopInv, Releases, FetchLabels, RouteLabels, AfterLabels, Goto, disk,
       locals, Labels, Loop, Enter
  <1>4. LoopInv'
    BY <1>1, HeadIn DEF StopStack, StopStackFails, Reconnect, ReconnectFails, Start, StartFails,
       CoreInv, LoopInv, LoopLabels, FetchLabels, RouteLabels, AfterLabels, Goto, disk, locals,
       Rest, Loop, Enter
  <1>5. ReleaseInv'
    BY <1>1, <1>2, InstalledAddOns DEF StopStack, StopStackFails, Reconnect, ReconnectFails, Start,
       StartFails, CoreInv, ReleaseInv, VersionInv, LoopInv, AfterLabels, disk, locals
  <1>6. PortainerInv'
    BY <1>2 DEF StopStack, StopStackFails, Reconnect, ReconnectFails, Start, StartFails, CoreInv,
       PortainerInv, GoneLabels, Goto, Loop, Enter, disk, locals, Head1, FirstOf
  <1>7. MigratedInv'
    BY <1>2 DEF StopStack, StopStackFails, Reconnect, ReconnectFails, Start, StartFails, CoreInv,
       MigratedInv, FetchLabels, Goto, Loop, Enter, disk, locals, Head1, FirstOf
  <1> QED
    BY <1>1, <1>3, <1>4, <1>5, <1>6, <1>7 DEF CoreInv

\* Migrate enters the loops its release calls for, with all add-ons before it.
LEMMA MigrateCore ==
    ASSUME CoreInv, Migrate
    PROVE  CoreInv'
PROOF
  <1>0. Quiet
    BY DEF Quiet, Migrate, disk, locals
  <1>1. /\ ManifestInv' /\ routes' = [a \in AddOns |-> routes'[a]]
        /\ Installed' = Installed /\ AllMigrated' = AllMigrated
        /\ \A a \in AddOns : IsMigrated(a)' = IsMigrated(a)
        /\ \A a \in AddOns : NewRoutes(a)' = NewRoutes(a)
    BY <1>0, QuietFrame
  <1>3. manifest' = manifest /\ portainer' = portainer
    BY <1>0 DEF Quiet
  <1>4. VersionInv' /\ pc' \in Labels /\ release' \in Releases \cup {"none", "empty", "newer"}
    BY <1>1, <1>3 DEF Migrate, CoreInv, VersionInv, LoopInv, Releases, FetchLabels, RouteLabels,
       AfterLabels, Goto, disk, locals, Labels, Loop, Enter
  <1>5. LoopInv'
    <2>1. pc = "dispatch" /\ version \in Releases /\ version = release
      BY DEF Migrate, CoreInv, VersionInv
    <2>2. release \notin {"none", "empty", "0.3.2"} => AllMigrated
      BY DEF CoreInv, ReleaseInv
    <2>3. Installed = {} => AllMigrated
      BY DEF AllMigrated
    <2>4. todo \subseteq Installed
      BY DEF CoreInv, LoopInv
    <2>5. CASE version = "current"
      <3>1. pc' = "network" /\ todo' = todo
        BY <2>5 DEF Migrate, Goto
      <3> QED
        BY <1>1, <2>1, <2>2, <2>4, <2>5, <3>1 DEF LoopInv, LoopLabels, FetchLabels, RouteLabels,
           AfterLabels
    <2>6. CASE version = "0.3.2"
      <3>1. todo' = Installed /\ pc' = IF Installed = {} THEN "finish" ELSE "fetch"
        BY <2>6 DEF Migrate, Enter
      <3> QED
        BY <1>1, <2>3, <3>1 DEF LoopInv, LoopLabels, FetchLabels, RouteLabels, AfterLabels
    <2>7. CASE version \notin {"current", "0.3.2"}
      <3>1. todo' = Installed /\ pc' = IF Installed = {} THEN "finish" ELSE "delete_routes"
        BY <2>7 DEF Migrate, Enter
      <3>2. AllMigrated
        BY <2>1, <2>2, <2>7 DEF Releases
      <3> QED
        BY <1>1, <3>1, <3>2 DEF LoopInv, LoopLabels, FetchLabels, RouteLabels, AfterLabels
    <2> QED
      BY <2>5, <2>6, <2>7
  <1>6. ReleaseInv'
    BY <1>1, <1>3, InstalledAddOns DEF Migrate, CoreInv, ReleaseInv, VersionInv, LoopInv,
       AfterLabels, disk, locals
  <1>7. PortainerInv'
    BY <1>3 DEF Migrate, CoreInv, PortainerInv, GoneLabels, Goto, Loop, Enter, disk, locals, Head1,
       FirstOf
  <1>8. MigratedInv'
    BY <1>3 DEF Migrate, CoreInv, MigratedInv, FetchLabels, Goto, Loop, Enter, disk, locals, Head1,
       FirstOf
  <1> QED
    BY <1>1, <1>4, <1>5, <1>6, <1>7, <1>8 DEF CoreInv

\* A fetched manifest that can be migrated is the migrated one from then on.
LEMMA FetchAndMigrateManifestCore ==
    ASSUME CoreInv, FetchAndMigrateManifest
    PROVE  /\ CoreInv'
           /\ migrated' = [Migrated(Head1) EXCEPT !.settings =
                getSettingsForReplaceRoutine(Head1, Migrated(Head1))]
           /\ Migrated(Head1).settings = ManifestOf[Head1].settings
           /\ vols' = VolumesOf(Head1)
PROOF
  <1>0. Quiet /\ pc = "fetch" /\ pc' = "connect" /\ release' = release /\ todo' = todo
            /\ version' = version /\ net' = net
    BY DEF Quiet, FetchAndMigrateManifest, disk, Goto
  <1>1. /\ ManifestInv' /\ routes' = [a \in AddOns |-> routes'[a]]
        /\ Installed' = Installed /\ AllMigrated' = AllMigrated
        /\ \A a \in AddOns : IsMigrated(a)' = IsMigrated(a)
        /\ \A a \in AddOns : NewRoutes(a)' = NewRoutes(a)
    BY <1>0, QuietFrame
  <1>2. manifest' = manifest /\ portainer' = portainer
    BY <1>0 DEF Quiet
  <1>3. Head1 \in AddOns /\ Head1 \in Installed
    BY <1>0, HeadIn DEF CoreInv, LoopLabels, FetchLabels
  <1>4. MigrateUcManifest(manifest[Head1]) # NoManifest
    BY DEF FetchAndMigrateManifest
  <1>5. ManifestInv
    BY DEF CoreInv
  <1>6. manifest[Head1] # NoVendor(Head1) /\ MigrateUcManifest(manifest[Head1]) = Migrated(Head1)
    BY <1>3, <1>4, <1>5, ManifestsOnDisk
  <1> DEFINE m == MigrateUcManifest(manifest[Head1])
  <1>7. /\ migrated' = [m EXCEPT !.settings = getSettingsForReplaceRoutine(Head1, m)]
        /\ vols' = GetVolumeNames(m.environments)
    BY DEF FetchAndMigrateManifest
  <1>8. m = Migrated(Head1)
    BY <1>6
  <1> HIDE DEF m
  <1>9. /\ migrated' = [Migrated(Head1) EXCEPT !.settings =
                getSettingsForReplaceRoutine(Head1, Migrated(Head1))]
        /\ vols' = GetVolumeNames(Migrated(Head1).environments)
    BY <1>7, <1>8
  <1>10. vols' = VolumesOf(Head1)
    BY <1>3, <1>9, MigratedVolumes
  <1>11. Head1' = Head1
    BY <1>0 DEF Head1, FirstOf
  <1>12. MigratedInv'
    <2> DEFINE settings == getSettingsForReplaceRoutine(Head1, Migrated(Head1))
    <2>1. migrated' = [Migrated(Head1) EXCEPT !.settings = settings]
      BY <1>9
    <2> HIDE DEF settings
    <2>2. migrated' = [Migrated(Head1) EXCEPT !.settings = migrated'.settings]
      BY <1>3, <2>1, WithSettings
    <2> QED
      BY <1>0, <1>2, <1>6, <1>10, <1>11, <2>2 DEF MigratedInv
  <1>13. VersionInv' /\ pc' \in Labels /\ release' \in Releases \cup {"none", "empty", "newer"}
    BY <1>0 DEF CoreInv, VersionInv, FetchLabels, RouteLabels, AfterLabels, Labels
  <1>14. LoopInv'
    BY <1>0, <1>1, InstalledAddOns DEF CoreInv, LoopInv, LoopLabels, FetchLabels, RouteLabels,
       AfterLabels
  <1>15. ReleaseInv'
    BY <1>0, <1>1, <1>2, InstalledAddOns DEF CoreInv, ReleaseInv
  <1>16. PortainerInv'
    BY <1>0, <1>2 DEF CoreInv, PortainerInv, GoneLabels
  <1>17. Migrated(Head1).settings = ManifestOf[Head1].settings
    BY <1>3, MigratedForm
  <1> QED
    BY <1>1, <1>9, <1>10, <1>12, <1>13, <1>14, <1>15, <1>16, <1>17 DEF CoreInv

\* Errors, restarts and the end of the process at any step.
LEMMA EndsCore ==
    ASSUME CoreInv,
           \/ RefuseVersion \/ FetchFails \/ CreateStackFails
           \/ \E v \in VolumeNames : InspectFails(v)
           \/ \E reboot \in BOOLEAN : Restart(reboot) \/ Die(reboot)
    PROVE  CoreInv'
PROOF
  <1>1. CASE RefuseVersion
    BY <1>1, EndCore DEF RefuseVersion, Quiet, disk, locals
  <1>2. CASE FetchFails
    BY <1>2, EndCore DEF FetchFails, Quiet, disk, locals
  <1>3. CASE CreateStackFails
    BY <1>3, EndCore DEF CreateStackFails, Quiet, disk, locals
  <1>4. CASE \E v \in VolumeNames : InspectFails(v)
    BY <1>4, EndCore DEF InspectFails, Quiet, disk, locals
  <1>5. ASSUME NEW reboot \in BOOLEAN, Restart(reboot) PROVE CoreInv'
    BY <1>5, EndCore DEF Restart, Quiet, locals
  <1>6. ASSUME NEW reboot \in BOOLEAN, Die(reboot) PROVE CoreInv'
    BY <1>6, EndCore DEF Die, Quiet, locals
  <1> QED
    BY <1>1, <1>2, <1>3, <1>4, <1>5, <1>6

\* Portainer forgets the stack of the add-on at hand.
LEMMA DeletePortainerStackCore ==
    ASSUME CoreInv, DeletePortainerStack
    PROVE  CoreInv'
PROOF
  <1>1. /\ pc = "delete_stack" /\ pc' = "create_stack" /\ portainer' = portainer \ {Head1}
        /\ UNCHANGED <<release, manifest, routes, net, todo, version, migrated, vols>>
    BY DEF DeletePortainerStack, Goto, locals
  <1>2. /\ ManifestInv' /\ Installed' = Installed /\ AllMigrated' = AllMigrated
        /\ \A a \in AddOns : IsMigrated(a)' = IsMigrated(a)
        /\ \A a \in AddOns : NewRoutes(a)' = NewRoutes(a)
    BY <1>1 DEF CoreInv, ManifestInv, Installed, AllMigrated, IsMigrated, NewRoutes
  <1>3. Head1' = Head1
    BY <1>1 DEF Head1, FirstOf
  <1>4. VersionInv' /\ pc' \in Labels
    BY <1>1 DEF CoreInv, VersionInv, FetchLabels, RouteLabels, AfterLabels, Labels
  <1>5. LoopInv'
    BY <1>1, <1>2, InstalledAddOns DEF CoreInv, LoopInv, LoopLabels, FetchLabels, RouteLabels,
       AfterLabels
  <1>6. release # "none"
    BY <1>1 DEF CoreInv, VersionInv, FetchLabels, Releases
  <1>7. ReleaseInv'
    BY <1>1, <1>2, <1>6, InstalledAddOns DEF CoreInv, ReleaseInv
  <1>8. PortainerInv'
    BY <1>1, <1>3 DEF CoreInv, PortainerInv, GoneLabels
  <1>9. MigratedInv'
    BY <1>1, <1>3 DEF CoreInv, MigratedInv, FetchLabels
  <1> QED
    BY <1>1, <1>2, <1>4, <1>5, <1>7, <1>8, <1>9 DEF CoreInv

\* The manifest on disk becomes the migrated one.
LEMMA Pushed ==
    ASSUME CoreInv, PushManifest
    PROVE  /\ Head1 \in AddOns /\ Head1 \in Installed
           /\ manifest' = [manifest EXCEPT ![Head1] = Migrated(Head1)]
           /\ Installed' = Installed
           /\ ManifestInv'
           /\ \A a \in AddOns : a # Head1 => manifest'[a] = manifest[a]
           /\ \A a \in AddOns : IsMigrated(a)' <=> (a = Head1 \/ IsMigrated(a))
PROOF
  <1>1. pc = "push"
    BY DEF PushManifest
  <1>2. Head1 \in AddOns /\ Head1 \in Installed
    BY <1>1, HeadIn DEF CoreInv, LoopLabels, FetchLabels
  <1>3. migrated = [Migrated(Head1) EXCEPT !.settings = migrated.settings]
    BY <1>1 DEF CoreInv, MigratedInv, FetchLabels
  <1>4. manifest[Head1].settings = ManifestOf[Head1].settings /\ Migrated(Head1) # NoManifest
    BY <1>2, ManifestsOnDisk DEF CoreInv
  <1>5. manifest' = [manifest EXCEPT ![Head1] = [migrated EXCEPT !.settings = ManifestOf[Head1].settings]]
    BY <1>4 DEF PushManifest
  <1>6. [migrated EXCEPT !.settings = ManifestOf[Head1].settings] = Migrated(Head1)
    <2> DEFINE s == migrated.settings
               own == ManifestOf[Head1].settings
               q == Migrated(Head1)
               m == [q EXCEPT !.settings = s]
    <2>1. [m EXCEPT !.settings = own] = q
      BY <1>2, WithSettings
    <2>2. migrated = m
      BY <1>3
    <2> QED
      BY <2>1, <2>2, Zenon
  <1>7. manifest' = [manifest EXCEPT ![Head1] = Migrated(Head1)]
    BY <1>5, <1>6
  <1>8. manifest = [a \in AddOns |-> manifest[a]] /\ \A a \in AddOns : manifest[a] \in OnDisk(a)
    BY DEF CoreInv, ManifestInv
  <1>9. /\ manifest' = [a \in AddOns |-> manifest'[a]]
        /\ manifest'[Head1] = Migrated(Head1)
        /\ \A a \in AddOns : a # Head1 => manifest'[a] = manifest[a]
    BY <1>2, <1>7, <1>8
  <1>10. Installed' = Installed
    BY <1>2, <1>4, <1>9 DEF Installed
  <1>11. ManifestInv'
    BY <1>8, <1>9 DEF ManifestInv, OnDisk
  <1>12. \A a \in AddOns : IsMigrated(a)' <=> (a = Head1 \/ IsMigrated(a))
    <2> TAKE a \in AddOns
    <2>1. IsMigrated(a)' <=> manifest'[a] = Migrated(a)
      BY DEF IsMigrated
    <2>2. IsMigrated(a) <=> manifest[a] = Migrated(a)
      BY DEF IsMigrated
    <2> QED
      BY <1>9, <2>1, <2>2
  <1> QED
    BY <1>2, <1>7, <1>9, <1>10, <1>11, <1>12

\* The loop goes on with one more add-on migrated, or is done with all of them.
LEMMA PushManifestCore ==
    ASSUME CoreInv, PushManifest
    PROVE  CoreInv'
PROOF
  <1>1. /\ pc = "push" /\ Loop("fetch", "delete_routes")
        /\ UNCHANGED <<release, portainer, routes, net, version>>
    BY DEF PushManifest
  <1>2. /\ Head1 \in AddOns /\ Head1 \in Installed
        /\ Installed' = Installed
        /\ ManifestInv'
        /\ \A a \in AddOns : a # Head1 => manifest'[a] = manifest[a]
        /\ \A a \in AddOns : IsMigrated(a)' <=> (a = Head1 \/ IsMigrated(a))
    BY Pushed
  <1>3. \A a \in AddOns : NewRoutes(a)' = NewRoutes(a)
    BY <1>1 DEF NewRoutes
  <1>4. /\ todo' = IF Rest # {} THEN Rest ELSE Installed
        /\ pc' = IF Rest # {} THEN "fetch" ELSE "delete_routes"
    BY <1>1 DEF Loop
  <1>5. \A a \in Installed \ Rest : IsMigrated(a)'
    <2>1. \A a \in Installed \ todo : IsMigrated(a)
      BY <1>1 DEF CoreInv, LoopInv, FetchLabels
    <2> QED
      BY <1>2, <2>1, InstalledAddOns DEF Rest
  <1>6. Rest \subseteq Installed /\ Installed # {}
    BY <1>2 DEF CoreInv, LoopInv, Rest
  <1>7. VersionInv' /\ pc' \in Labels
    BY <1>1, <1>4 DEF CoreInv, VersionInv, FetchLabels, RouteLabels, AfterLabels, Labels
  <1>8. AllMigrated' = \A a \in Installed : IsMigrated(a)'
    BY <1>2 DEF AllMigrated
  <1>9. LoopInv'
    <2>1. CASE Rest # {}
      BY <1>2, <1>4, <1>5, <1>6, <2>1 DEF LoopInv, LoopLabels, FetchLabels, RouteLabels, AfterLabels
    <2>2. CASE Rest = {}
      BY <1>2, <1>4, <1>5, <1>6, <1>8, <2>2 DEF LoopInv, LoopLabels, FetchLabels, RouteLabels,
         AfterLabels
    <2> QED
      BY <2>1, <2>2
  <1>10. release = "0.3.2"
    BY <1>1 DEF CoreInv, VersionInv, FetchLabels
  <1>11. ReleaseInv'
    BY <1>1, <1>10 DEF ReleaseInv
  <1>12. PortainerInv'
    BY <1>1, <1>2, <1>4 DEF CoreInv, PortainerInv, GoneLabels
  <1>13. MigratedInv'
    BY <1>4 DEF MigratedInv, FetchLabels
  <1> QED
    BY <1>1, <1>2, <1>7, <1>9, <1>11, <1>12, <1>13 DEF CoreInv

\* All that is said of manifests depends on them alone.
LEMMA SameManifests ==
    ASSUME manifest' = manifest, ManifestInv
    PROVE  /\ ManifestInv' /\ Installed' = Installed /\ AllMigrated' = AllMigrated
           /\ \A a \in AddOns : IsMigrated(a)' = IsMigrated(a)
PROOF
  BY DEF ManifestInv, Installed, AllMigrated, IsMigrated

\* The routes of the add-on at hand are deleted.
LEMMA DeleteRoutesCore ==
    ASSUME CoreInv, DeleteRoutes
    PROVE  CoreInv'
PROOF
  <1>1. /\ pc = "delete_routes" /\ pc' = "create_routes"
        /\ routes' = [routes EXCEPT ![Head1] = [id \in DOMAIN routes[Head1] |-> "none"]]
        /\ UNCHANGED <<release, manifest, portainer, net, todo, version, migrated, vols>>
    BY DEF DeleteRoutes, Goto, locals
  <1>2. Head1 \in AddOns /\ Head1 \in todo
    BY <1>1, HeadIn DEF CoreInv, LoopLabels, RouteLabels
  <1>3. ManifestInv' /\ Installed' = Installed /\ AllMigrated' = AllMigrated
    BY <1>1, SameManifests DEF CoreInv
  <1>4. /\ routes' = [a \in AddOns |-> routes'[a]]
        /\ \A a \in AddOns : a # Head1 => routes'[a] = routes[a]
    BY <1>1, <1>2 DEF CoreInv
  <1>5. \A a \in AddOns : a # Head1 => NewRoutes(a)' = NewRoutes(a)
    BY <1>4 DEF NewRoutes
  <1>6. VersionInv' /\ pc' \in Labels
    BY <1>1 DEF CoreInv, VersionInv, FetchLabels, RouteLabels, AfterLabels, Labels
  <1>7. LoopInv'
    BY <1>1, <1>2, <1>3, <1>5, InstalledAddOns DEF CoreInv, LoopInv, LoopLabels, FetchLabels,
       RouteLabels, AfterLabels
  <1>8. release \notin {"none", "current"}
    BY <1>1 DEF CoreInv, VersionInv, RouteLabels, Releases
  <1>9. ReleaseInv'
    BY <1>1, <1>3, <1>8 DEF CoreInv, ReleaseInv
  <1>10. PortainerInv'
    BY <1>1 DEF CoreInv, PortainerInv, GoneLabels
  <1>11. MigratedInv'
    BY <1>1 DEF MigratedInv, FetchLabels
  <1> QED
    BY <1>1, <1>3, <1>4, <1>6, <1>7, <1>9, <1>10, <1>11 DEF CoreInv

\* The loop goes on with one more add-on that has new routes.
LEMMA CreateRoutesCore ==
    ASSUME CoreInv, CreateRoutes
    PROVE  CoreInv'
PROOF
  <1>1. /\ pc = "create_routes" /\ Loop("delete_routes", "finish")
        /\ routes' = [routes EXCEPT ![Head1] = [id \in DOMAIN routes[Head1] |-> "new"]]
        /\ UNCHANGED <<release, manifest, portainer, net, version, migrated, vols>>
    BY DEF CreateRoutes
  <1>2. Head1 \in AddOns /\ Head1 \in todo
    BY <1>1, HeadIn DEF CoreInv, LoopLabels, RouteLabels
  <1>3. ManifestInv' /\ Installed' = Installed /\ AllMigrated' = AllMigrated
    BY <1>1, SameManifests DEF CoreInv
  <1>4. /\ routes' = [a \in AddOns |-> routes'[a]]
        /\ routes'[Head1] = [id \in DOMAIN routes[Head1] |-> "new"]
        /\ \A a \in AddOns : a # Head1 => routes'[a] = routes[a]
    BY <1>1, <1>2 DEF CoreInv
  <1>5. \A a \in AddOns : NewRoutes(a) \/ a = Head1 => NewRoutes(a)'
    BY <1>4 DEF NewRoutes
  <1>6. /\ todo' = IF Rest # {} THEN Rest ELSE Installed
        /\ pc' = IF Rest # {} THEN "delete_routes" ELSE "finish"
    BY <1>1 DEF Loop
  <1>7. VersionInv' /\ pc' \in Labels
    BY <1>1, <1>6 DEF CoreInv, VersionInv, FetchLabels, RouteLabels, AfterLabels, Labels
  <1>8. \A a \in Installed \ Rest : NewRoutes(a)'
    <2>1. \A a \in Installed \ todo : NewRoutes(a)
      BY <1>1 DEF CoreInv, LoopInv, RouteLabels
    <2> QED
      BY <1>5, <2>1, InstalledAddOns DEF Rest
  <1>9. AllMigrated /\ Rest \subseteq Installed
    BY <1>1 DEF CoreInv, LoopInv, RouteLabels, Rest
  <1>10. LoopInv'
    <2>1. CASE Rest # {}
      BY <1>3, <1>6, <1>8, <1>9, <2>1 DEF LoopInv, LoopLabels, FetchLabels, RouteLabels, AfterLabels
    <2>2. CASE Rest = {}
      BY <1>3, <1>6, <1>8, <1>9, <2>2 DEF LoopInv, LoopLabels, FetchLabels, RouteLabels, AfterLabels
    <2> QED
      BY <2>1, <2>2
  <1>11. release \notin {"none", "current"}
    BY <1>1 DEF CoreInv, VersionInv, RouteLabels, Releases
  <1>12. ReleaseInv'
    BY <1>1, <1>3, <1>11 DEF CoreInv, ReleaseInv
  <1>13. PortainerInv'
    BY <1>1, <1>6 DEF CoreInv, PortainerInv, GoneLabels
  <1>14. MigratedInv'
    BY <1>6 DEF MigratedInv, FetchLabels
  <1> QED
    BY <1>1, <1>3, <1>4, <1>7, <1>10, <1>12, <1>13, <1>14 DEF CoreInv

\* An add-on that was not there before is there.
DropsIn(a) ==
    /\ a \in AddOns /\ manifest[a] = NoManifest
    /\ manifest' = [manifest EXCEPT ![a] = Migrated(a)]
    /\ LET compose == GetDockerComposeFromManifest([adaptFeaturesToSystem(Migrated(a)) EXCEPT
                            !.settings = CombineManifestSettingsWithSettingsMap(@, UserEnv[a])])
       IN  /\ stack' = [stack EXCEPT ![New(a)] = [Containers(compose.services,
                 IF IsConnected(Migrated(a)) THEN "current" ELSE "none") EXCEPT !.state = "up"]]
           /\ volume' = [volume EXCEPT ![New(a)] = [v \in DOMAIN volume[New(a)] |->
                 IF v \in compose.volumes THEN "data" ELSE volume[New(a)][v]]]
    /\ routes' = [routes EXCEPT ![a] = [id \in DOMAIN routes[a] |-> "new"]]
    /\ UNCHANGED <<release, portainer, net>>

\* InstallDropIns leaves the disk as it is or brings one add-on.
LEMMA InstallDropInsCases ==
    ASSUME InstallDropIns
    PROVE  /\ pc = "dropins" /\ pc' = "serving"
           /\ UNCHANGED <<locals, faults, interrupted, logged>>
           /\ UNCHANGED disk \/ \E a \in AddOns : DropsIn(a)
PROOF
  BY DEF InstallDropIns, DropsIn, Goto, Migrated

\* A drop-in has the migrated manifest; no other add-on's changes.
LEMMA DropInManifests ==
    ASSUME ManifestInv, NEW a \in AddOns, DropsIn(a)
    PROVE  /\ ManifestInv'
           /\ Installed' = Installed \cup {a} /\ a \notin Installed
           /\ \A b \in AddOns : IsMigrated(b)' <=> (b = a \/ IsMigrated(b))
           /\ \A b \in AddOns : b # a => manifest'[b] = manifest[b]
           /\ manifest'[a] = Migrated(a) /\ Migrated(a) # NoManifest
PROOF
  <1>1. /\ manifest[a] = NoManifest
        /\ manifest' = [manifest EXCEPT ![a] = Migrated(a)]
    BY DEF DropsIn
  <1>2. Migrated(a) # NoManifest
    BY ManifestsOnDisk
  <1>3. manifest = [b \in AddOns |-> manifest[b]] /\ \A b \in AddOns : manifest[b] \in OnDisk(b)
    BY DEF ManifestInv
  <1>4. /\ manifest' = [b \in AddOns |-> manifest'[b]]
        /\ manifest'[a] = Migrated(a)
        /\ \A b \in AddOns : b # a => manifest'[b] = manifest[b]
    BY <1>1, <1>3
  <1>5. ManifestInv'
    BY <1>3, <1>4 DEF ManifestInv, OnDisk
  <1>6. Installed' = Installed \cup {a} /\ a \notin Installed
    BY <1>1, <1>2, <1>4 DEF Installed
  <1>7. ASSUME NEW b \in AddOns PROVE IsMigrated(b)' <=> (b = a \/ IsMigrated(b))
    <2>1. (IsMigrated(b)' <=> manifest'[b] = Migrated(b)) /\ (IsMigrated(b) <=> manifest[b] = Migrated(b))
      BY DEF IsMigrated
    <2> QED
      BY <1>4, <2>1
  <1> QED
    BY <1>2, <1>4, <1>5, <1>6, <1>7

\* A drop-in is as current as a migrated add-on.
LEMMA InstallDropInsCore ==
    ASSUME CoreInv, InstallDropIns
    PROVE  CoreInv'
PROOF
  <1>1. /\ pc = "dropins" /\ pc' = "serving" /\ UNCHANGED <<todo, version, migrated, vols>>
    BY InstallDropInsCases DEF locals
  <1>2. release # "none" /\ AllMigrated /\ todo \subseteq Installed
    BY <1>1 DEF CoreInv, VersionInv, LoopInv, AfterLabels
  <1>3. VersionInv' <=> release' # "none"
    BY <1>1 DEF VersionInv, FetchLabels, RouteLabels, AfterLabels
  <1>4. MigratedInv'
    BY <1>1 DEF MigratedInv, FetchLabels
  <1>5. CASE UNCHANGED disk
    <2>1. UNCHANGED <<release, manifest, portainer, routes, net>>
      BY <1>5 DEF disk
    <2>2. ManifestInv' /\ Installed' = Installed /\ AllMigrated' = AllMigrated
      BY <2>1, SameManifests DEF CoreInv
    <2>3. \A a \in AddOns : NewRoutes(a)' = NewRoutes(a)
      BY <2>1 DEF NewRoutes
    <2>4. LoopInv'
      BY <1>1, <1>2, <2>2 DEF LoopInv, LoopLabels, FetchLabels, RouteLabels, AfterLabels
    <2>5. ReleaseInv'
      BY <2>1, <2>2, <2>3, InstalledAddOns DEF CoreInv, ReleaseInv
    <2>6. PortainerInv'
      BY <1>1, <2>1 DEF CoreInv, PortainerInv, GoneLabels
    <2> QED
      BY <1>1, <1>2, <1>3, <1>4, <2>1, <2>2, <2>4, <2>5, <2>6 DEF CoreInv, Labels
  <1>6. ASSUME NEW a \in AddOns, DropsIn(a) PROVE CoreInv'
    <2>1. /\ manifest[a] = NoManifest
          /\ routes' = [routes EXCEPT ![a] = [id \in DOMAIN routes[a] |-> "new"]]
          /\ UNCHANGED <<release, portainer, net>>
      BY <1>6 DEF DropsIn
    <2>2. /\ ManifestInv'
          /\ Installed' = Installed \cup {a} /\ a \notin Installed
          /\ \A b \in AddOns : IsMigrated(b)' <=> (b = a \/ IsMigrated(b))
          /\ \A b \in AddOns : b # a => manifest'[b] = manifest[b]
      BY <1>6, DropInManifests DEF CoreInv
    <2>3. AllMigrated'
      BY <1>2, <2>2, InstalledAddOns DEF AllMigrated
    <2>4. /\ routes' = [b \in AddOns |-> routes'[b]]
          /\ routes'[a] = [id \in DOMAIN routes[a] |-> "new"]
          /\ \A b \in AddOns : b # a => routes'[b] = routes[b]
      BY <2>1 DEF CoreInv
    <2>5. \A b \in AddOns : NewRoutes(b) \/ b = a => NewRoutes(b)'
      BY <2>4 DEF NewRoutes
    <2>6. LoopInv'
      BY <1>1, <1>2, <2>2, <2>3 DEF LoopInv, LoopLabels, FetchLabels, RouteLabels, AfterLabels
    <2>7. ReleaseInv'
      BY <1>2, <2>1, <2>2, <2>3, <2>5, InstalledAddOns DEF CoreInv, ReleaseInv
    <2>8. PortainerInv'
      <3>1. a \notin portainer
        BY <2>1 DEF CoreInv, PortainerInv, NoManifest
      <3> QED
        BY <1>1, <2>1, <2>2, <3>1 DEF CoreInv, PortainerInv, GoneLabels
    <2> QED
      BY <1>1, <1>2, <1>3, <1>4, <2>1, <2>2, <2>4, <2>6, <2>7, <2>8 DEF CoreInv, Labels
  <1> QED
    BY <1>5, <1>6, InstallDropInsCases

\* The manifests an older release left are of the kinds there are.
LEMMA OldManifests ==
    ASSUME NEW a \in AddOns, NEW origin \in Origins
    PROVE  /\ OldManifest(a, origin) \in OnDisk(a)
           /\ origin = "factory" => OldManifest(a, origin) = NoManifest
           /\ ByPortainer(origin) => OldManifest(a, origin).manifestVersion = "0.1"
           /\ origin # "factory" /\ ~ ByPortainer(origin) => OldManifest(a, origin) = Migrated(a)
PROOF
  <1> DEFINE o == ManifestOf[a]
             n == NoVendor(a)
             m == OldManifest(a, origin)
             last == AddOnOrder[Len(AddOnOrder)]
  <1>1. /\ o = [f \in ManifestFields |-> o[f]] /\ o.manifestVersion = "0.1" /\ o.vendor = TRUE
        /\ n = [o EXCEPT !.vendor = FALSE] /\ n.manifestVersion = "0.1"
    BY ManifestForm DEF NoVendor
  <1>2. CASE origin = "factory"
    BY <1>2 DEF OldManifest, OnDisk, ByPortainer
  <1>3. CASE origin = "portainer"
    BY <1>1, <1>3 DEF OldManifest, OnDisk, ByPortainer
  <1>4. CASE origin = "no_vendor"
    <2>1. m = [o EXCEPT !.vendor = (a # last)]
      BY <1>4 DEF OldManifest
    <2> HIDE DEF m, o, n, last
    <2>2. m = o \/ m = n
      <3>1. CASE a # last
        BY <1>1, <2>1, <3>1 DEF ManifestFields
      <3>2. CASE a = last
        BY <1>1, <2>1, <3>2 DEF ManifestFields
      <3> QED
        BY <3>1, <3>2
    <2>3. m.manifestVersion = "0.1"
      BY <1>1, <2>2
    <2>4. m \in OnDisk(a)
      BY <2>2 DEF OnDisk, o, n
    <2> QED
      BY <1>4, <2>3, <2>4 DEF ByPortainer, m
  <1>5. CASE origin \notin {"factory", "portainer", "no_vendor"}
    BY <1>5 DEF OldManifest, OnDisk, ByPortainer, Migrated
  <1> QED
    BY <1>2, <1>3, <1>4, <1>5

\* The invariant holds of the device as any older release left it.
LEMMA InitCore == Init => CoreInv
PROOF
  <1> SUFFICES ASSUME NEW origin \in Origins,
        /\ release = CASE origin = "0.5.2" -> "0.5.2" [] origin = "newer" -> "newer" [] OTHER -> "none"
        /\ manifest = [a \in AddOns |-> OldManifest(a, origin)]
        /\ portainer = IF ByPortainer(origin) THEN AddOns ELSE {}
        /\ routes = [a \in AddOns |-> [id \in ManifestOf[a].publish |->
             IF origin = "factory" THEN "none" ELSE "old"]]
        /\ net = (origin # "factory")
        /\ pc = "down" /\ todo = {}
               PROVE  CoreInv
    BY DEF Init
  <1>1. ManifestInv
    BY OldManifests DEF ManifestInv
  <1>2. VersionInv
    BY DEF VersionInv, FetchLabels, RouteLabels, AfterLabels
  <1>3. LoopInv
    BY DEF LoopInv, LoopLabels, FetchLabels, RouteLabels, AfterLabels
  <1>4. MigratedInv
    BY DEF MigratedInv, FetchLabels
  <1>5. PortainerInv
    BY OldManifests DEF PortainerInv, GoneLabels
  <1>6. routes = [a \in AddOns |-> routes[a]]
    OBVIOUS
  <1>7. release \in {"none", "0.5.2", "newer"} /\ (release # "none" <=> origin \in {"0.5.2", "newer"})
    BY Zenon
  <1>8. ReleaseInv
    <2>1. CASE origin = "factory"
      <3>1. Installed = {}
        BY <2>1, OldManifests DEF Installed
      <3> QED
        BY <1>7, <2>1, <3>1 DEF ReleaseInv, AllMigrated
    <2>2. CASE ByPortainer(origin)
      <3>1. portainer = AddOns /\ \A a \in AddOns : manifest[a].manifestVersion = "0.1"
        BY <2>2, OldManifests
      <3>2. release = "none" /\ net
        BY <1>7, <2>2 DEF ByPortainer
      <3> QED
        BY <3>1, <3>2 DEF ReleaseInv
    <2>3. CASE origin # "factory" /\ ~ ByPortainer(origin)
      <3>1. AllMigrated
        BY <2>3, OldManifests, InstalledAddOns DEF AllMigrated, IsMigrated
      <3> QED
        BY <1>7, <2>3, <3>1 DEF ReleaseInv
    <2> QED
      BY <2>1, <2>2, <2>3
  <1> QED
    BY <1>1, <1>2, <1>3, <1>4, <1>5, <1>6, <1>7, <1>8 DEF CoreInv, Labels, Releases

\* The invariant speaks of the variables alone.
LEMMA StutterCore ==
    ASSUME CoreInv, UNCHANGED vars
    PROVE  CoreInv'
PROOF
  <1>1. /\ UNCHANGED <<release, manifest, portainer, routes, net, pc, todo, version, migrated, vols>>
    BY DEF vars, bootVars, disk, locals
  <1>2. /\ ManifestInv' /\ Installed' = Installed /\ AllMigrated' = AllMigrated
        /\ \A a \in AddOns : IsMigrated(a)' = IsMigrated(a)
    BY <1>1, SameManifests DEF CoreInv
  <1>3. \A a \in AddOns : NewRoutes(a)' = NewRoutes(a)
    BY <1>1 DEF NewRoutes
  <1>4. Head1' = Head1
    BY <1>1 DEF Head1, FirstOf
  <1>5. VersionInv'
    BY <1>1, <1>2 DEF CoreInv, VersionInv
  <1>6. LoopInv'
    BY <1>1, <1>2, <1>3, InstalledAddOns DEF CoreInv, LoopInv
  <1>7. ReleaseInv'
    BY <1>1, <1>2, <1>3, InstalledAddOns DEF CoreInv, ReleaseInv
  <1>8. PortainerInv' /\ MigratedInv'
    BY <1>1, <1>4 DEF CoreInv, PortainerInv, MigratedInv
  <1> QED
    BY <1>1, <1>2, <1>5, <1>6, <1>7, <1>8 DEF CoreInv

\* Every step of a start and of the migration keeps the invariant.
LEMMA NextCore ==
    ASSUME CoreInv, Next
    PROVE  CoreInv'
PROOF
  <1>1. CASE MigrationNext
    <2>1. CASE ResolveVersion \/ RecordVersion \/ GetVersion \/ TruncateRelease \/ UpdateVersion
      BY <2>1, VersionCore
    <2>2. CASE RefuseVersion \/ FetchFails \/ CreateStackFails \/ \E v \in VolumeNames : InspectFails(v)
      BY <2>2, EndsCore
    <2>3. CASE FetchAndMigrateManifest \/ DeletePortainerStack \/ PushManifest \/ DeleteRoutes \/ CreateRoutes
      BY <2>3, FetchAndMigrateManifestCore, DeletePortainerStackCore, PushManifestCore,
         DeleteRoutesCore, CreateRoutesCore
    <2>4. CASE \/ ConnectToPortainer \/ CreateStackWithoutStart \/ RemoveContentOfOld
               \/ RemoveContentOfNew \/ CopyFromCache \/ RemoveUnusedVolumes
               \/ \E v \in VolumeNames : InspectVolumes(v)
      BY <2>4, VolumesCore
    <2>5. CASE Migrate
      BY <2>5, MigrateCore
    <2> QED
      BY <1>1, <2>1, <2>2, <2>3, <2>4, <2>5 DEF MigrationNext
  <1>2. CASE \/ Boot \/ Setup \/ GetRegistryCredentials \/ ServeVolumeDrivers
             \/ RemoveInternalBridge \/ CreateInternalBridge
    BY <1>2, SequenceCore
  <1>3. CASE StopStack \/ StopStackFails \/ Reconnect \/ ReconnectFails \/ Start \/ StartFails
    BY <1>3, LoopsCore
  <1>4. CASE InstallDropIns \/ UpdateVersionFails
    BY <1>4, InstallDropInsCore, VersionCore
  <1>5. CASE \E reboot \in BOOLEAN : Restart(reboot) \/ Die(reboot)
    BY <1>5, EndsCore
  <1> QED
    BY <1>1, <1>2, <1>3, <1>4, <1>5 DEF Next, Step

\* Manifests, release and routes agree with each other at every step of every start
\* (the order of the steps of getVersion, Migrate and updateVersion).
THEOREM CoreAlways == Spec => []CoreInv
PROOF
  <1>1. CoreInv /\ [Next]_vars => CoreInv'
    BY NextCore, StutterCore
  <1> QED
    BY <1>1, InitCore, PTL DEF Spec

\* A record of the current release implies what it is to mean.
LEMMA CoreImpliesMigrated ==
    ASSUME CoreInv
    PROVE  CurrentMeansMigrated
PROOF
  <1> SUFFICES ASSUME release = "current", NEW a \in Installed
               PROVE  /\ manifest[a].manifestVersion = ValidManifestVersion
                      /\ \A s \in Range(manifest[a].services) :
                           /\ s.networks \subseteq getDockerComposeNetworksFrom(manifest[a].environments)
                           /\ s.networkMode # InternalAddOnNetworkName /\ s.restart # "always"
                      /\ \A id \in DOMAIN routes[a] : routes[a][id] = "new"
                      /\ a \notin portainer
    BY DEF CurrentMeansMigrated
  <1>1. a \in AddOns
    BY InstalledAddOns
  <1>2. manifest[a] = Migrated(a) /\ NewRoutes(a)
    BY DEF CoreInv, ReleaseInv, AllMigrated, IsMigrated
  <1>3. manifest[a].manifestVersion = "0.2"
    BY <1>1, <1>2, MigratedForm
  <1>4. a \notin portainer
    BY <1>3 DEF CoreInv, PortainerInv
  <1>5. ASSUME NEW s \in Range(Migrated(a).services)
        PROVE  /\ s.networks \subseteq getDockerComposeNetworksFrom(Migrated(a).environments)
               /\ s.networkMode # InternalAddOnNetworkName /\ s.restart # "always"
    <2>1. PICK k \in DOMAIN Migrated(a).services : s = Migrated(a).services[k]
      BY DEF Range
    <2>2. k \in DOMAIN ManifestOf[a].services
      BY <1>1, <2>1, MigratedServices
    <2> QED
      BY <1>1, <2>1, <2>2, MigratedServices, MigratedNetworks
  <1> QED
    BY <1>2, <1>3, <1>4, <1>5 DEF NewRoutes, ValidManifestVersion

\* When release.json names the current release, every add-on has been migrated, whatever
\* starts were interrupted and wherever (Migrate and updateVersion of migrate.go).
THEOREM Current == Spec => []CurrentMeansMigrated
PROOF
  BY CoreAlways, CoreImpliesMigrated, PTL

--------------------------------------------------------------------------------
\* Containers

\* The same containers, perhaps in another state, or attached anew.
Alike(c, d) ==
    /\ IsStack(d) /\ d.exists = c.exists
    /\ c.exists => d.services = c.services /\ (d.bridge = "none" <=> c.bridge = "none")

\* The fields of containers.
ContainerFields == {"exists", "state", "services", "bridge"}
\* A project has no containers, or containers with all their fields.
LEMMA ContainerForm ==
    ASSUME NEW c, IsStack(c)
    PROVE  /\ c.exists \in BOOLEAN
           /\ ~ c.exists => c = NoContainers
           /\ c.exists => /\ c = [f \in ContainerFields |-> c[f]]
                          /\ c.state \in {"created", "up", "exited"}
                          /\ c.bridge \in {"none", "current", "removed"}
           /\ ~ NoContainers.exists
PROOF
  <1>1. NoContainers.exists = FALSE
    BY DEF NoContainers
  <1>2. CASE c = NoContainers
    BY <1>1, <1>2
  <1>3. CASE /\ c = [exists |-> TRUE, state |-> c.state, services |-> c.services, bridge |-> c.bridge]
             /\ c.state \in {"created", "up", "exited"} /\ c.bridge \in {"none", "current", "removed"}
    <2>1. c.exists = TRUE
      BY <1>3
    <2>2. c = [f \in ContainerFields |-> c[f]]
      BY <1>3 DEF ContainerFields
    <2> QED
      BY <1>1, <1>3, <2>1, <2>2
  <1> QED
    BY <1>2, <1>3 DEF IsStack

\* When a record describes containers.
LEMMA IsStackWhen ==
    ASSUME NEW c, c = [f \in ContainerFields |-> c[f]], c.exists = TRUE,
           c.state \in {"created", "up", "exited"}, c.bridge \in {"none", "current", "removed"}
    PROVE  IsStack(c)
PROOF
  <1>1. c = [exists |-> TRUE, state |-> c.state, services |-> c.services, bridge |-> c.bridge]
    BY DEF ContainerFields
  <1> QED
    BY <1>1 DEF IsStack

\* Containers are like themselves.
LEMMA AlikeSame ==
    ASSUME NEW c, IsStack(c) PROVE Alike(c, c)
PROOF
  BY DEF Alike

\* Stopping, reconnecting and starting keep what containers were created with.
LEMMA AlikeContainers ==
    ASSUME NEW c, IsStack(c)
    PROVE  /\ Alike(c, Stopped(c)) /\ Stopped(c).bridge = c.bridge
           /\ Alike(c, Reconnected(c)) /\ (c.exists => Reconnected(c).bridge # "removed")
           /\ c.exists => /\ Alike(c, [c EXCEPT !.state = "up"])
                          /\ [c EXCEPT !.state = "up"].state = "up"
                          /\ [c EXCEPT !.state = "up"].bridge = c.bridge
           /\ c.exists /\ c.bridge = "current" => Alike(c, [Stopped(c) EXCEPT !.bridge = "removed"])
PROOF
  <1> DEFINE up == [c EXCEPT !.state = "up"]
             stopped == [c EXCEPT !.state = "exited"]
             joined == [c EXCEPT !.bridge = "current"]
             removed == [Stopped(c) EXCEPT !.bridge = "removed"]
  <1>1. CASE ~ c.exists
    <2>1. Stopped(c) = c /\ Reconnected(c) = c
      BY <1>1 DEF Stopped, Running, Reconnected
    <2> QED
      BY <1>1, <2>1, AlikeSame
  <1>2. CASE c.exists
    <2>1. /\ c = [f \in ContainerFields |-> c[f]] /\ c.exists = TRUE
          /\ c.state \in {"created", "up", "exited"}
          /\ c.bridge \in {"none", "current", "removed"}
      BY <1>2, ContainerForm
    <2>2. Stopped(c) = c \/ Stopped(c) = stopped
      BY DEF Stopped
    <2>3. Reconnected(c) = IF c.bridge # "none" THEN joined ELSE c
      BY <1>2 DEF Reconnected
    <2>4. /\ up = [f \in ContainerFields |-> up[f]] /\ up.state = "up" /\ up.services = c.services
          /\ up.bridge = c.bridge /\ up.exists = TRUE
      BY <2>1 DEF ContainerFields
    <2>5. /\ stopped = [f \in ContainerFields |-> stopped[f]] /\ stopped.state = "exited" /\ stopped.services = c.services
          /\ stopped.bridge = c.bridge /\ stopped.exists = TRUE
      BY <2>1 DEF ContainerFields
    <2>6. /\ joined = [f \in ContainerFields |-> joined[f]] /\ joined.state = c.state /\ joined.services = c.services
          /\ joined.bridge = "current" /\ joined.exists = TRUE
      BY <2>1 DEF ContainerFields
    <2> HIDE DEF up, stopped, joined
    <2>7. /\ Stopped(c) = [f \in ContainerFields |-> Stopped(c)[f]] /\ Stopped(c).exists = TRUE
          /\ Stopped(c).services = c.services /\ Stopped(c).bridge = c.bridge
          /\ Stopped(c).state \in {"created", "up", "exited"}
      <3>1. CASE Stopped(c) = c
        BY <2>1, <3>1
      <3>2. CASE Stopped(c) = stopped
        BY <2>1, <2>5, <3>2
      <3> QED
        BY <2>2, <3>1, <3>2
    <2>8. Alike(c, Stopped(c))
      BY <1>2, <2>1, <2>7, IsStackWhen DEF Alike
    <2>9. Alike(c, up)
      BY <1>2, <2>1, <2>4, IsStackWhen DEF Alike
    <2>10. Alike(c, joined) \/ c.bridge = "none"
      BY <1>2, <2>1, <2>6, IsStackWhen DEF Alike
    <2>11. Alike(c, Reconnected(c)) /\ Reconnected(c).bridge # "removed"
      BY <2>3, <2>6, <2>10, AlikeSame
    <2>12. ASSUME c.bridge = "current" PROVE Alike(c, removed)
      <3> DEFINE s == Stopped(c)
      <3>1. s = [f \in ContainerFields |-> s[f]] /\ s.exists = TRUE /\ s.services = c.services
            /\ s.state \in {"created", "up", "exited"}
        BY <2>7
      <3>2. removed = [s EXCEPT !.bridge = "removed"]
        OBVIOUS
      <3> HIDE DEF s, removed
      <3>3. /\ removed = [f \in ContainerFields |-> removed[f]] /\ removed.state \in {"created", "up", "exited"}
            /\ removed.services = c.services /\ removed.bridge = "removed" /\ removed.exists = TRUE
        BY <3>1, <3>2 DEF ContainerFields
      <3> QED
        BY <1>2, <2>1, <2>12, <3>3, IsStackWhen DEF Alike
    <2>13. up.state = "up" /\ up.bridge = c.bridge
      BY <2>4
    <2> QED
      BY <1>2, <2>7, <2>8, <2>9, <2>11, <2>12, <2>13 DEF up, removed
  <1>3. c.exists \in BOOLEAN
    BY ContainerForm
  <1> QED
    BY <1>1, <1>2, <1>3

\* A step after which all containers are alike.
LEMMA AlikeStack ==
    ASSUME CoreInv, StackInv, UNCHANGED <<manifest, portainer>>,
           stack' = [p \in Projects |-> stack'[p]],
           \A p \in Projects : Alike(stack[p], stack'[p]),
           pc' \in MadeLabels => pc \in MadeLabels /\ UNCHANGED todo
    PROVE  StackInv'
PROOF
  <1>1. \A p \in Projects : IsStack(stack'[p])
    BY DEF Alike
  <1>2. \A a \in AddOns : Old(a) \in Projects /\ New(a) \in Projects
    BY ProjectNames
  <1>3. \A a \in AddOns : Attached(a, stack[New(a)]) => Attached(a, stack'[New(a)])
    BY <1>2 DEF Attached, Alike
  <1>4. \A a \in AddOns : IsMigrated(a) => Attached(a, stack[New(a)])
    BY DEF StackInv
  <1>5. \A a \in AddOns : IsMigrated(a)' = IsMigrated(a)
    BY SameManifests DEF CoreInv
  <1>6. pc' \in MadeLabels => Head1' \in AddOns /\ Attached(Head1, stack[New(Head1)]) /\ Head1' = Head1
    <2>1. pc \in MadeLabels => Head1 \in AddOns
      BY HeadIn DEF CoreInv, MadeLabels, GoneLabels, LoopLabels, FetchLabels
    <2>2. pc' \in MadeLabels => Head1' = Head1
      BY DEF Head1, FirstOf
    <2> QED
      BY <2>1, <2>2 DEF StackInv
  <1>7. pc' \in MadeLabels => Attached(Head1', stack'[New(Head1')])
    BY <1>3, <1>6
  <1>8. \A a \in portainer : KeepsUser(a, stack'[Old(a)])
    <2>1. portainer \subseteq AddOns /\ \A a \in portainer : KeepsUser(a, stack[Old(a)])
      BY DEF StackInv, CoreInv, PortainerInv
    <2> QED
      BY <1>2, <2>1 DEF KeepsUser, Alike
  <1>9. \A a \in AddOns \ SameName : stack'[Old(a)].exists => a \in portainer
    BY <1>2 DEF StackInv, Alike
  <1>10. (pc \in MadeLabels => Attached(Head1, stack[New(Head1)]))' <=>
         (pc' \in MadeLabels => Attached(Head1', stack'[New(Head1')]))
    BY DEF Attached, New, MadeLabels, GoneLabels, IsConnected
  <1> QED
    BY <1>1, <1>3, <1>4, <1>5, <1>7, <1>8, <1>9, <1>10 DEF StackInv

\* Steps that leave every container as it is, and those that stop, reconnect or
\* start some.
LEMMA SameStack ==
    ASSUME StackInv, CoreInv, UNCHANGED <<manifest, portainer, stack>>,
           pc' \in MadeLabels => pc \in MadeLabels /\ UNCHANGED todo
    PROVE  StackInv'
PROOF
  <1>1. /\ stack = [p \in Projects |-> stack[p]]
        /\ \A p \in Projects : IsStack(stack[p])
    BY DEF StackInv
  <1>2. \A p \in Projects : Alike(stack[p], stack'[p])
    BY <1>1, AlikeSame
  <1> QED
    BY <1>1, <1>2, AlikeStack

\* What the containers of every project have become in a step that replaces none of them.
AlikeStacks ==
    /\ stack' = [p \in Projects |-> stack'[p]]
    /\ \A p \in Projects : Alike(stack[p], stack'[p])

\* The containers of one project are stopped, reconnected or started.
LEMMA OneAlike ==
    ASSUME StackInv, NEW p \in Projects, NEW c, stack' = [stack EXCEPT ![p] = c], Alike(stack[p], c)
    PROVE  AlikeStacks
PROOF
  <1>1. /\ stack = [q \in Projects |-> stack[q]]
        /\ \A q \in Projects : IsStack(stack[q])
    BY DEF StackInv
  <1>2. /\ stack' = [q \in Projects |-> stack'[q]]
        /\ \A q \in Projects : stack'[q] = IF q = p THEN c ELSE stack[q]
    BY <1>1
  <1>3. \A q \in Projects : Alike(stack[q], stack'[q])
    BY <1>1, <1>2, AlikeSame
  <1> QED
    BY <1>2, <1>3 DEF AlikeStacks

\* All containers are left as they are.
LEMMA SameAlike ==
    ASSUME StackInv, UNCHANGED stack
    PROVE  AlikeStacks
PROOF
  <1>1. /\ stack = [p \in Projects |-> stack[p]]
        /\ \A p \in Projects : IsStack(stack[p])
    BY DEF StackInv
  <1> QED
    BY <1>1, AlikeSame DEF AlikeStacks

\* Steps of the migration that replace no containers.
LEMMA MigrationStack ==
    ASSUME StackInv, CoreInv,
           \/ ResolveVersion \/ RecordVersion \/ GetVersion \/ RefuseVersion \/ Migrate
           \/ FetchAndMigrateManifest \/ FetchFails \/ ConnectToPortainer \/ CreateStackFails
           \/ \E v \in VolumeNames : InspectVolumes(v) \/ InspectFails(v)
           \/ RemoveContentOfOld \/ RemoveContentOfNew \/ CopyFromCache
           \/ RemoveUnusedVolumes \/ DeleteRoutes \/ CreateRoutes
           \/ TruncateRelease \/ UpdateVersion \/ UpdateVersionFails
    PROVE  StackInv'
PROOF
  <1>1. CASE ResolveVersion \/ RecordVersion \/ GetVersion \/ RefuseVersion \/ ConnectToPortainer
               \/ FetchAndMigrateManifest \/ FetchFails \/ CreateStackFails
               \/ TruncateRelease \/ UpdateVersion \/ UpdateVersionFails
    <2>1. UNCHANGED <<manifest, portainer, stack>> /\ pc' \notin MadeLabels
      BY <1>1 DEF ResolveVersion, RecordVersion, GetVersion, RefuseVersion, ConnectToPortainer,
         FetchAndMigrateManifest, FetchFails, CreateStackFails, TruncateRelease, UpdateVersion,
         UpdateVersionFails, disk, Goto, MadeLabels, GoneLabels
    <2> QED
      BY <2>1, SameStack
  <1>2. CASE Migrate
    <2>1. UNCHANGED <<manifest, portainer, stack>> /\ pc' \notin MadeLabels
      BY <1>2 DEF Migrate, disk, Goto, Enter, MadeLabels, GoneLabels
    <2> QED
      BY <2>1, SameStack
  <1>3. CASE \E v \in VolumeNames : InspectVolumes(v) \/ InspectFails(v)
    <2>1. /\ UNCHANGED <<manifest, portainer, stack, todo>> /\ pc \in MadeLabels
      BY <1>3 DEF InspectVolumes, InspectFails, disk, locals, MadeLabels, GoneLabels
    <2> QED
      BY <2>1, SameStack
  <1>4. CASE RemoveContentOfOld \/ RemoveContentOfNew \/ CopyFromCache \/ RemoveUnusedVolumes
    <2>1. /\ UNCHANGED <<manifest, portainer, stack, todo>> /\ pc \in MadeLabels
      BY <1>4 DEF RemoveContentOfOld, RemoveContentOfNew, CopyFromCache, RemoveUnusedVolumes, disk,
         locals, MadeLabels, GoneLabels
    <2> QED
      BY <2>1, SameStack
  <1>5. CASE DeleteRoutes \/ CreateRoutes
    <2>1. UNCHANGED <<manifest, portainer, stack>> /\ pc' \notin MadeLabels
      BY <1>5 DEF DeleteRoutes, CreateRoutes, Goto, Loop, MadeLabels, GoneLabels
    <2> QED
      BY <2>1, SameStack
  <1> QED
    BY <1>1, <1>2, <1>3, <1>4, <1>5

\* No step of the start replaces containers; it stops, reconnects or starts them.
LEMMA StartupAlike ==
    ASSUME StackInv, CoreInv,
           \/ Boot \/ Setup \/ GetRegistryCredentials \/ StopStack \/ StopStackFails
           \/ ServeVolumeDrivers \/ RemoveInternalBridge \/ CreateInternalBridge
           \/ Reconnect \/ ReconnectFails \/ Start \/ StartFails
           \/ \E reboot \in BOOLEAN : Restart(reboot) \/ Die(reboot)
    PROVE  AlikeStacks /\ UNCHANGED <<manifest, portainer>> /\ pc' \notin MadeLabels
PROOF
  <1>0. /\ stack = [p \in Projects |-> stack[p]]
        /\ \A p \in Projects : IsStack(stack[p])
    BY DEF StackInv
  <1>1. CASE Boot \/ Setup \/ GetRegistryCredentials \/ StopStackFails
               \/ ServeVolumeDrivers \/ CreateInternalBridge \/ ReconnectFails \/ StartFails
    <2>1. UNCHANGED <<manifest, portainer, stack>> /\ pc' \notin MadeLabels
      BY <1>1 DEF Boot, Setup, GetRegistryCredentials, StopStackFails, ServeVolumeDrivers,
         CreateInternalBridge, ReconnectFails, StartFails, disk, Goto, Loop, Enter, MadeLabels,
         GoneLabels
    <2> QED
      BY <2>1, SameAlike
  <1>2. ASSUME pc \in {"stop", "reconnect", "start"}
        PROVE  /\ Head1 \in Installed /\ New(Head1) \in Projects
               /\ IsStack(stack[New(Head1)])
               /\ pc # "stop" => Attached(Head1, stack[New(Head1)]) /\ IsMigrated(Head1)
    <2>1. Head1 \in AddOns /\ Head1 \in Installed
      BY <1>2, HeadIn DEF CoreInv, LoopLabels
    <2>2. pc # "stop" => IsMigrated(Head1)
      BY <1>2, <2>1 DEF CoreInv, LoopInv, AllMigrated, AfterLabels
    <2> QED
      BY <1>0, <2>1, <2>2, ProjectNames DEF StackInv
  <1>3. CASE StopStack
    <2>1. /\ UNCHANGED <<manifest, portainer>> /\ pc' \notin MadeLabels /\ pc = "stop"
          /\ stack' = [stack EXCEPT ![New(Head1)] = Stopped(stack[New(Head1)])]
      BY <1>3 DEF StopStack, Loop, MadeLabels, GoneLabels
    <2> QED
      BY <1>2, <2>1, AlikeContainers, OneAlike
  <1>4. CASE Reconnect
    <2>1. /\ UNCHANGED <<manifest, portainer>> /\ pc' \notin MadeLabels /\ pc = "reconnect"
          /\ stack' = IF IsConnected(manifest[Head1])
                      THEN [stack EXCEPT ![New(Head1)] = Reconnected(stack[New(Head1)])] ELSE stack
      BY <1>4 DEF Reconnect, Loop, MadeLabels, GoneLabels
    <2>2. CASE IsConnected(manifest[Head1])
      BY <1>2, <2>1, <2>2, AlikeContainers, OneAlike
    <2>3. CASE ~ IsConnected(manifest[Head1])
      BY <2>1, <2>3, SameAlike
    <2> QED
      BY <2>2, <2>3
  <1>5. CASE Start
    <2>1. /\ UNCHANGED <<manifest, portainer>> /\ pc' \notin MadeLabels /\ pc = "start"
          /\ stack' = [stack EXCEPT ![New(Head1)].state = "up"]
      BY <1>5 DEF Start, Loop, MadeLabels, GoneLabels
    <2>2. stack' = [stack EXCEPT ![New(Head1)] = [stack[New(Head1)] EXCEPT !.state = "up"]]
      BY <2>1
    <2>3. stack[New(Head1)].exists
      BY <1>2, <2>1 DEF Attached
    <2> QED
      BY <1>2, <2>1, <2>2, <2>3, AlikeContainers, OneAlike
  <1>6. CASE RemoveInternalBridge
    <2>1. /\ UNCHANGED <<manifest, portainer>> /\ pc' \notin MadeLabels
          /\ stack' = [p \in Projects |->
                IF stack[p].exists /\ stack[p].bridge = "current"
                THEN [Stopped(stack[p]) EXCEPT !.bridge = "removed"] ELSE stack[p]]
      BY <1>6 DEF RemoveInternalBridge, Goto, locals, MadeLabels, GoneLabels
    <2>2. \A p \in Projects : Alike(stack[p], stack'[p])
      <3> TAKE p \in Projects
      <3>1. CASE stack[p].exists /\ stack[p].bridge = "current"
        BY <1>0, <2>1, <3>1, AlikeContainers
      <3>2. CASE ~ (stack[p].exists /\ stack[p].bridge = "current")
        BY <1>0, <2>1, <3>2, AlikeSame
      <3> QED
        BY <3>1, <3>2
    <2>3. stack' = [p \in Projects |-> stack'[p]]
      BY <2>1
    <2> QED
      BY <2>1, <2>2, <2>3 DEF AlikeStacks
  <1>7. ASSUME NEW reboot \in BOOLEAN, Restart(reboot) \/ Die(reboot)
        PROVE  AlikeStacks /\ UNCHANGED <<manifest, portainer>> /\ pc' \notin MadeLabels
    <2>1. UNCHANGED <<manifest, portainer>> /\ pc' \notin MadeLabels /\ Halt(reboot)
      BY <1>7 DEF Restart, Die, Goto, MadeLabels, GoneLabels
    <2>2. CASE reboot
      <3>1. stack' = [p \in Projects |-> Stopped(stack[p])]
        BY <2>1, <2>2 DEF Halt
      <3>2. \A p \in Projects : Alike(stack[p], stack'[p])
        BY <1>0, <3>1, AlikeContainers
      <3>3. stack' = [p \in Projects |-> stack'[p]]
        BY <3>1
      <3> QED
        BY <2>1, <3>2, <3>3 DEF AlikeStacks
    <2>3. CASE ~ reboot
      BY <2>1, <2>3, SameAlike DEF Halt
    <2> QED
      BY <2>1, <2>2, <2>3
  <1> QED
    BY <1>1, <1>3, <1>4, <1>5, <1>6, <1>7

\* Steps of the start, which replace no containers either.
LEMMA StartupStack ==
    ASSUME StackInv, CoreInv,
           \/ Boot \/ Setup \/ GetRegistryCredentials \/ StopStack \/ StopStackFails
           \/ ServeVolumeDrivers \/ RemoveInternalBridge \/ CreateInternalBridge
           \/ Reconnect \/ ReconnectFails \/ Start \/ StartFails
           \/ \E reboot \in BOOLEAN : Restart(reboot) \/ Die(reboot)
    PROVE  StackInv'
PROOF
  BY StartupAlike, AlikeStack DEF AlikeStacks

\* The primed form of what is said of the add-on at hand.
LEMMA HeadAttached ==
    (pc \in MadeLabels => Attached(Head1, stack[New(Head1)]))' <=>
      (pc' \in MadeLabels => Attached(Head1', stack'[New(Head1')]))
PROOF
  BY DEF Attached, New, MadeLabels, GoneLabels, IsConnected

\* In the loop of the migration the add-on at hand is an installed one.
LEMMA HeadWhenGone ==
    ASSUME CoreInv, pc \in FetchLabels
    PROVE  /\ Head1 \in AddOns /\ Head1 \in Installed
           /\ New(Head1) \in Projects /\ Old(Head1) \in Projects
PROOF
  BY HeadIn, ProjectNames DEF CoreInv, LoopLabels

\* The containers that are deleted are not those of a migrated add-on.
LEMMA DeletePortainerStackStack ==
    ASSUME StackInv, CoreInv, DeletePortainerStack
    PROVE  StackInv'
PROOF
  <1>1. /\ pc = "delete_stack" /\ pc' \notin MadeLabels /\ portainer' = portainer \ {Head1}
        /\ UNCHANGED manifest
        /\ stack' = IF Head1 \in portainer THEN [stack EXCEPT ![Old(Head1)] = NoContainers] ELSE stack
    BY DEF DeletePortainerStack, Goto, MadeLabels, GoneLabels
  <1>2. Head1 \in AddOns /\ Old(Head1) \in Projects
    BY <1>1, HeadWhenGone DEF FetchLabels
  <1>3. /\ stack = [p \in Projects |-> stack[p]]
        /\ \A p \in Projects : IsStack(stack[p])
        /\ \A a \in AddOns : IsMigrated(a) => Attached(a, stack[New(a)])
        /\ \A a \in portainer : KeepsUser(a, stack[Old(a)])
        /\ \A a \in AddOns \ SameName : stack[Old(a)].exists => a \in portainer
    BY DEF StackInv
  <1>4. /\ stack' = [p \in Projects |-> stack'[p]]
        /\ \A p \in Projects :
             stack'[p] = IF Head1 \in portainer /\ p = Old(Head1) THEN NoContainers ELSE stack[p]
    BY <1>1, <1>2, <1>3
  <1>5. \A p \in Projects : IsStack(stack'[p])
    BY <1>3, <1>4 DEF IsStack
  <1>6. \A a \in AddOns : IsMigrated(a)' = IsMigrated(a)
    BY <1>1, SameManifests DEF CoreInv
  <1>7. ASSUME NEW a \in AddOns, IsMigrated(a) PROVE Attached(a, stack'[New(a)])
    <2>1. a \notin portainer
      <3>1. manifest[a].manifestVersion = "0.2"
        BY <1>7, ManifestsOnDisk DEF CoreInv
      <3> QED
        BY <3>1 DEF CoreInv, PortainerInv
    <2>2. New(a) \in Projects /\ (Old(Head1) = New(a) => Head1 = a)
      BY <1>2, ProjectNames
    <2>3. stack'[New(a)] = stack[New(a)]
      BY <1>4, <2>1, <2>2
    <2> QED
      BY <1>3, <1>7, <2>3
  <1>8. ASSUME NEW a \in portainer' PROVE KeepsUser(a, stack'[Old(a)])
    <2>1. a \in portainer /\ a # Head1 /\ a \in AddOns
      BY <1>1 DEF CoreInv, PortainerInv
    <2>2. Old(a) \in Projects /\ Old(a) # Old(Head1)
      BY <1>2, <2>1, ProjectNames
    <2>3. stack'[Old(a)] = stack[Old(a)]
      BY <1>4, <2>2
    <2> QED
      BY <1>3, <2>1, <2>3
  <1>9. ASSUME NEW a \in AddOns \ SameName, stack'[Old(a)].exists PROVE a \in portainer'
    <2>1. Old(a) \in Projects /\ (Old(a) = Old(Head1) => a = Head1) /\ ~ NoContainers.exists
      BY <1>2, ProjectNames DEF NoContainers
    <2>2. ~ (Head1 \in portainer /\ Old(a) = Old(Head1))
      BY <1>4, <1>9, <2>1
    <2>3. stack[Old(a)].exists
      BY <1>4, <1>9, <2>1, <2>2
    <2>4. a \in portainer
      BY <1>3, <2>3
    <2> QED
      BY <1>1, <2>2, <2>4
  <1>10. (pc \in MadeLabels => Attached(Head1, stack[New(Head1)]))'
    BY <1>1, HeadAttached
  <1> QED
    BY <1>4, <1>5, <1>6, <1>7, <1>8, <1>9, <1>10 DEF StackInv

\* New containers of an add-on that portainer does not know.
LEMMA NewStack ==
    ASSUME StackInv, CoreInv, UNCHANGED portainer,
           NEW b \in AddOns, b \notin portainer, NEW c, IsStack(c), Attached(b, c),
           stack' = [stack EXCEPT ![New(b)] = c],
           \A a \in AddOns : a # b => (IsMigrated(a)' <=> IsMigrated(a)),
           pc' \in MadeLabels => Head1' = b
    PROVE  StackInv'
PROOF
  <1>2. New(b) \in Projects
    BY ProjectNames
  <1>3. /\ stack = [p \in Projects |-> stack[p]]
        /\ \A p \in Projects : IsStack(stack[p])
        /\ \A a \in AddOns : IsMigrated(a) => Attached(a, stack[New(a)])
        /\ \A a \in portainer : KeepsUser(a, stack[Old(a)])
        /\ \A a \in AddOns \ SameName : stack[Old(a)].exists => a \in portainer
    BY DEF StackInv
  <1>4. /\ stack' = [p \in Projects |-> stack'[p]]
        /\ \A p \in Projects : stack'[p] = IF p = New(b) THEN c ELSE stack[p]
    BY <1>2, <1>3
  <1>5. \A p \in Projects : IsStack(stack'[p])
    BY <1>3, <1>4
  <1>6. ASSUME NEW a \in AddOns, IsMigrated(a)' PROVE Attached(a, stack'[New(a)])
    <2>1. CASE a = b
      BY <1>2, <1>4, <2>1
    <2>2. CASE a # b
      <3>1. New(a) # New(b) /\ New(a) \in Projects
        BY <2>2, ProjectNames
      <3>2. stack'[New(a)] = stack[New(a)]
        BY <1>4, <3>1
      <3> QED
        BY <1>3, <1>6, <2>2, <3>2
    <2> QED
      BY <2>1, <2>2
  <1>7. ASSUME NEW a \in portainer PROVE KeepsUser(a, stack'[Old(a)])
    <2>1. a \in AddOns /\ a # b
      BY DEF CoreInv, PortainerInv
    <2>2. Old(a) \in Projects /\ Old(a) # New(b)
      BY <2>1, ProjectNames
    <2> QED
      BY <1>3, <1>4, <2>2
  <1>8. ASSUME NEW a \in AddOns \ SameName, stack'[Old(a)].exists PROVE a \in portainer
    <2>1. Old(a) \in Projects /\ Old(a) # New(b)
      <3>1. Old(a) = New(b) => a = b
        BY ProjectNames
      <3>2. Old(a) # New(a) /\ Old(a) \in Projects
        BY ProjectNames
      <3> QED
        BY <3>1, <3>2
    <2> QED
      BY <1>3, <1>4, <1>8, <2>1
  <1>9. pc' \in MadeLabels => Attached(Head1', stack'[New(Head1')])
    BY <1>2, <1>4
  <1> QED
    BY <1>4, <1>5, <1>6, <1>7, <1>8, <1>9, HeadAttached DEF StackInv

\* The new containers are attached as the migrated manifest says.
LEMMA CreateStackWithoutStartStack ==
    ASSUME StackInv, CoreInv, CreateStackWithoutStart
    PROVE  StackInv'
PROOF
  <1> DEFINE compose == GetDockerComposeFromManifest(migrated)
             bridge == IF InternalAddOnNetworkName \in compose.networks THEN "current" ELSE "none"
             c == Containers(compose.services, bridge)
  <1>1. /\ pc = "create_stack" /\ UNCHANGED <<manifest, portainer, todo>>
        /\ stack' = [stack EXCEPT ![New(Head1)] = c]
    BY DEF CreateStackWithoutStart, locals
  <1>2. /\ Head1 \in AddOns /\ Head1 \notin portainer
    BY <1>1, HeadWhenGone DEF CoreInv, PortainerInv, GoneLabels, FetchLabels
  <1>3. migrated = [Migrated(Head1) EXCEPT !.settings = migrated.settings]
    BY <1>1 DEF CoreInv, MigratedInv, FetchLabels
  <1>4. InternalAddOnNetworkName \in compose.networks <=> IsConnected(Migrated(Head1))
    <2> DEFINE s == migrated.settings
               m == [Migrated(Head1) EXCEPT !.settings = s]
    <2>1. InternalAddOnNetworkName \in GetDockerComposeFromManifest(m).networks <=> IsConnected(Migrated(Head1))
      <3> HIDE DEF s
      <3> QED
        BY <1>2, ComposeWithSettings
    <2>2. migrated = m
      BY <1>3
    <2> HIDE DEF m
    <2> QED
      BY <2>1, <2>2
  <1>5. IsStack(c) /\ Attached(Head1, c)
    <2> HIDE DEF compose
    <2>1. c = [exists |-> TRUE, state |-> "created", services |-> compose.services, bridge |-> bridge]
      BY DEF Containers
    <2>2. bridge \in {"none", "current"} /\ (bridge = "none" <=> ~ IsConnected(Migrated(Head1)))
      BY <1>4
    <2> HIDE DEF c, bridge
    <2>3. /\ c = [exists |-> TRUE, state |-> c.state, services |-> c.services, bridge |-> c.bridge]
          /\ c.state = "created" /\ c.bridge = bridge /\ c.exists
      BY <2>1
    <2> QED
      BY <2>2, <2>3 DEF IsStack, Attached
  <1>6. \A a \in AddOns : IsMigrated(a)' = IsMigrated(a)
    BY <1>1, SameManifests DEF CoreInv
  <1>7. Head1' = Head1
    BY <1>1 DEF Head1, FirstOf
  <1> HIDE DEF c
  <1> QED
    BY <1>1, <1>2, <1>5, <1>6, <1>7, NewStack

\* The add-on at hand is migrated after its containers are.
LEMMA PushManifestStack ==
    ASSUME StackInv, CoreInv, PushManifest
    PROVE  StackInv'
PROOF
  <1>1. /\ pc = "push" /\ UNCHANGED <<portainer, stack>> /\ pc' \notin MadeLabels
    BY DEF PushManifest, Loop, MadeLabels, GoneLabels
  <1>2. /\ Head1 \in AddOns
        /\ \A a \in AddOns : IsMigrated(a)' <=> (a = Head1 \/ IsMigrated(a))
    BY Pushed
  <1>3. Attached(Head1, stack[New(Head1)])
    BY <1>1 DEF StackInv, MadeLabels, GoneLabels
  <1>4. \A a \in AddOns : IsMigrated(a)' => Attached(a, stack[New(a)])
    BY <1>2, <1>3 DEF StackInv
  <1>5. (pc \in MadeLabels => Attached(Head1, stack[New(Head1)]))'
    BY <1>1, HeadAttached
  <1> QED
    BY <1>1, <1>4, <1>5 DEF StackInv

\* What InstallDropIns has docker create.
DroppedServices(a) ==
    GetDockerComposeFromManifest([adaptFeaturesToSystem(Migrated(a)) EXCEPT
        !.settings = CombineManifestSettingsWithSettingsMap(@, UserEnv[a])]).services
\* The containers of a drop-in.
LEMMA DropInStack ==
    ASSUME NEW a \in AddOns, DropsIn(a)
    PROVE  \E c : /\ stack' = [stack EXCEPT ![New(a)] = c]
                  /\ IsStack(c) /\ Attached(a, c) /\ c.services = DroppedServices(a) /\ c.state = "up"
                  /\ c.bridge # "removed"
PROOF
  <1> DEFINE services == DroppedServices(a)
             bridge == IF IsConnected(Migrated(a)) THEN "current" ELSE "none"
             b == Containers(services, bridge)
             c == [b EXCEPT !.state = "up"]
  <1>1. stack' = [stack EXCEPT ![New(a)] = c]
    BY DEF DropsIn, DroppedServices
  <1>2. b = [exists |-> TRUE, state |-> "created", services |-> services, bridge |-> bridge]
    BY DEF Containers
  <1>3. bridge \in {"none", "current"} /\ (bridge = "none" <=> ~ IsConnected(Migrated(a)))
    OBVIOUS
  <1>4. c = [b EXCEPT !.state = "up"]
    OBVIOUS
  <1> HIDE DEF b, c, services, bridge
  <1>5. /\ c = [exists |-> TRUE, state |-> c.state, services |-> c.services, bridge |-> c.bridge]
        /\ c.state = "up" /\ c.bridge = bridge /\ c.services = services /\ c.exists
    BY <1>2, <1>4
  <1>6. IsStack(c) /\ Attached(a, c)
    BY <1>3, <1>5 DEF IsStack, Attached
  <1> QED
    BY <1>1, <1>3, <1>5, <1>6 DEF services

\* A drop-in has containers of its own.
LEMMA InstallDropInsStack ==
    ASSUME StackInv, CoreInv, InstallDropIns
    PROVE  StackInv'
PROOF
  <1>1. /\ pc' \notin MadeLabels /\ UNCHANGED todo
    BY InstallDropInsCases DEF MadeLabels, GoneLabels, locals
  <1>2. CASE UNCHANGED disk
    BY <1>1, <1>2, SameStack DEF disk
  <1>3. ASSUME NEW a \in AddOns, DropsIn(a) PROVE StackInv'
    <2>1. UNCHANGED portainer /\ manifest[a] = NoManifest
      BY <1>3 DEF DropsIn
    <2>2. a \notin portainer
      BY <2>1 DEF CoreInv, PortainerInv, NoManifest
    <2>3. \A b \in AddOns : b # a => (IsMigrated(b)' <=> IsMigrated(b))
      BY <1>3, DropInManifests DEF CoreInv
    <2>4. PICK c : stack' = [stack EXCEPT ![New(a)] = c] /\ IsStack(c) /\ Attached(a, c)
      BY <1>3, DropInStack
    <2> QED
      BY <1>1, <2>1, <2>2, <2>3, <2>4, NewStack
  <1> QED
    BY <1>2, <1>3, InstallDropInsCases

\* The containers an older release left were made with what the user had sent.
LEMMA OldContainers ==
    ASSUME NEW a \in AddOns
    PROVE  LET c == RunningWith(a, ManifestOf[a])
           IN  /\ IsStack(c) /\ Attached(a, c) /\ KeepsUser(a, c)
               /\ MadeWith(a, c.services, SettingsSent(ManifestOf[a].settings, UserEnv[a]))
PROOF
  <1> DEFINE m == ManifestOf[a]
             sent == SettingsSent(m.settings, UserEnv[a])
             services == getDockerComposeServicesFrom(m.services, sent)
             bridge == IF IsConnected(Migrated(a)) THEN "current" ELSE "none"
             b == Containers(services, bridge)
             c == RunningWith(a, m)
  <1>1. c = [b EXCEPT !.state = "up"]
    BY DEF RunningWith, Migrated
  <1>2. b = [exists |-> TRUE, state |-> "created", services |-> services, bridge |-> bridge]
    BY DEF Containers
  <1>3. bridge \in {"none", "current"} /\ (bridge = "none" <=> ~ IsConnected(Migrated(a)))
    OBVIOUS
  <1>4. MadeWith(a, services, sent)
    <2>1. IsManifestV0_1(m)
      BY StartupAssumption
    <2>2. ASSUME NEW s \in DOMAIN m.services
          PROVE  /\ s \in DOMAIN services
                 /\ services[s].environment = mergeEnvironmentVariables(m.services[s].environment, sent)
      <3> DEFINE o == m.services[s]
                 x == mergeEnvironmentVariables(o.environment, sent)
      <3>1. o = [type |-> ComposeType, image |-> o.image,
                  restart |-> o.restart, networkMode |-> o.networkMode,
                  networks |-> o.networks, volumes |-> o.volumes,
                  environment |-> o.environment, user |-> o.user]
        BY <2>1 DEF IsManifestV0_1
      <3> HIDE DEF o
      <3>2. o.type = ComposeType
        BY <3>1
      <3>3. s \in DOMAIN services /\ services[s] = [o EXCEPT !.environment = x]
        BY <3>2 DEF getDockerComposeServicesFrom, o
      <3> HIDE DEF services, m, x
      <3>4. services[s].environment = x
        BY <3>1, <3>3
      <3> QED
        BY <3>3, <3>4 DEF x, o
    <2>3. DOMAIN services \subseteq DOMAIN m.services
      BY DEF getDockerComposeServicesFrom
    <2> HIDE DEF services
    <2> QED
      BY <2>2, <2>3 DEF MadeWith
  <1> HIDE DEF b, c, services, bridge
  <1>5. /\ c = [exists |-> TRUE, state |-> c.state, services |-> c.services, bridge |-> c.bridge]
        /\ c.state = "up" /\ c.bridge = bridge /\ c.services = services /\ c.exists
    BY <1>1, <1>2
  <1>6. KeepsUser(a, c)
    BY <1>4, <1>5, UserKeepsValues, MadeKeepsUser
  <1> QED
    BY <1>3, <1>4, <1>5, <1>6 DEF IsStack, Attached, c

\* The containers an older release left.
LEMMA InitStack == Init => StackInv
PROOF
  <1> SUFFICES ASSUME Init PROVE StackInv
    OBVIOUS
  <1>1. PICK origin \in Origins :
        /\ manifest = [a \in AddOns |-> OldManifest(a, origin)]
        /\ portainer = IF ByPortainer(origin) THEN AddOns ELSE {}
        /\ stack = [p \in Projects |->
             IF origin # "factory" /\ p = (IF ByPortainer(origin) THEN Old(p[1]) ELSE New(p[1]))
             THEN RunningWith(p[1], ManifestOf[p[1]]) ELSE NoContainers]
        /\ pc = "down"
    BY DEF Init
  <1>2. \A p \in Projects : IsStack(stack[p])
    BY <1>1, ProjectOf, OldContainers DEF IsStack
  <1>3. pc \notin MadeLabels
    BY <1>1 DEF MadeLabels, GoneLabels
  <1>4. ~ NoContainers.exists
    BY DEF NoContainers
  <1>5. CASE origin = "factory"
    <2>1. \A p \in Projects : stack[p] = NoContainers
      BY <1>1, <1>5
    <2>2. \A a \in AddOns : ~ IsMigrated(a)
      BY <1>1, <1>5, OldManifests, ManifestsOnDisk, InitCore DEF IsMigrated, CoreInv
    <2>3. portainer = {}
      BY <1>1, <1>5 DEF ByPortainer
    <2> QED
      BY <1>1, <1>2, <1>3, <1>4, <2>1, <2>2, <2>3, ProjectNames DEF StackInv
  <1>6. CASE ByPortainer(origin)
    <2>0. origin # "factory" /\ portainer = AddOns
      BY <1>1, <1>6 DEF ByPortainer
    <2>1. \A a \in AddOns : stack[Old(a)] = RunningWith(a, ManifestOf[a])
      BY <1>1, <1>6, <2>0, ProjectNames
    <2>2. \A a \in AddOns : ~ IsMigrated(a)
      <3> TAKE a \in AddOns
      <3>1. manifest[a].manifestVersion = "0.1"
        BY <1>1, <1>6, OldManifests
      <3> QED
        BY <3>1, ManifestsOnDisk, InitCore DEF CoreInv
    <2>3. \A a \in AddOns : KeepsUser(a, stack[Old(a)])
      BY <2>1, OldContainers
    <2> QED
      BY <1>1, <1>2, <1>3, <2>0, <2>2, <2>3 DEF StackInv
  <1>7. CASE origin # "factory" /\ ~ ByPortainer(origin)
    <2>1. \A a \in AddOns : stack[New(a)] = RunningWith(a, ManifestOf[a])
      BY <1>1, <1>7, ProjectNames
    <2>2. \A a \in AddOns : Attached(a, stack[New(a)])
      BY <2>1, OldContainers
    <2>3. ASSUME NEW a \in AddOns \ SameName PROVE ~ stack[Old(a)].exists
      <3>1. Old(a) # New(a) /\ Old(a) \in Projects /\ Old(a)[1] = a
        BY ProjectNames
      <3>2. stack[Old(a)] = NoContainers
        BY <1>1, <1>7, <3>1
      <3> QED
        BY <1>4, <3>2
    <2> QED
      BY <1>1, <1>2, <1>3, <1>7, <2>2, <2>3 DEF StackInv
  <1> QED
    BY <1>5, <1>6, <1>7

\* Every step keeps what is said of containers.
LEMMA NextStack ==
    ASSUME StackInv, CoreInv, [Next]_vars
    PROVE  StackInv'
PROOF
  <1>1. CASE UNCHANGED vars
    BY <1>1, SameStack DEF vars, bootVars, disk, locals
  <1>2. CASE MigrationNext \/ UpdateVersionFails
    BY <1>2, MigrationStack, DeletePortainerStackStack, CreateStackWithoutStartStack,
       PushManifestStack DEF MigrationNext
  <1>3. CASE InstallDropIns
    BY <1>3, InstallDropInsStack
  <1>4. CASE Next /\ ~ MigrationNext /\ ~ UpdateVersionFails /\ ~ InstallDropIns
    BY <1>4, StartupStack DEF Next, Step
  <1> QED
    BY <1>1, <1>2, <1>3, <1>4

--------------------------------------------------------------------------------
\* Nothing is said of add-ons before the loop of Reconnect.
LEMMA ServingElsewhere ==
    ASSUME ServingInv, pc' \notin ServingLabels, UNCHANGED faults \/ (faults < MaxFaults /\ faults' = faults + 1),
           logged' \in BOOLEAN
    PROVE  ServingInv'
PROOF
  <1>1. faults' \in 0 .. MaxFaults
    BY StartupAssumption DEF ServingInv
  <1> QED
    BY <1>1 DEF ServingInv, ServingLabels

\* The migration comes before it.
LEMMA MigrationServing ==
    ASSUME ServingInv, CoreInv,
           (MigrationNext /\ UNCHANGED logged) \/ (UpdateVersionFails /\ UNCHANGED logged)
    PROVE  ServingInv'
PROOF
  <1>1. logged' \in BOOLEAN
    BY DEF ServingInv
  <1>2. CASE UpdateVersionFails
    BY <1>1, <1>2, ServingElsewhere DEF UpdateVersionFails, Goto, ServingLabels
  <1>3. CASE ResolveVersion \/ RecordVersion \/ GetVersion \/ RefuseVersion \/ ConnectToPortainer
             \/ FetchAndMigrateManifest \/ FetchFails \/ CreateStackFails \/ DeletePortainerStack
             \/ TruncateRelease \/ UpdateVersion \/ DeleteRoutes
    BY <1>1, <1>3, ServingElsewhere DEF ResolveVersion, RecordVersion, GetVersion, RefuseVersion,
       ConnectToPortainer, FetchAndMigrateManifest, FetchFails, CreateStackFails,
       DeletePortainerStack, TruncateRelease, UpdateVersion, DeleteRoutes, disk, locals, Goto,
       ServingLabels
  <1>4. CASE Migrate \/ PushManifest \/ CreateRoutes
    BY <1>1, <1>4, ServingElsewhere DEF Migrate, PushManifest, CreateRoutes, Goto, Loop, Enter,
       ServingLabels
  <1>5. CASE CreateStackWithoutStart \/ \E v \in VolumeNames : InspectVolumes(v) \/ InspectFails(v)
    BY <1>1, <1>5, ServingElsewhere DEF CreateStackWithoutStart, InspectVolumes, InspectFails,
       Goto, ServingLabels
  <1>6. CASE RemoveContentOfOld \/ RemoveContentOfNew \/ CopyFromCache \/ RemoveUnusedVolumes
    BY <1>1, <1>6, ServingElsewhere DEF RemoveContentOfOld, RemoveContentOfNew, CopyFromCache,
       RemoveUnusedVolumes, Goto, ServingLabels
  <1> QED
    BY <1>2, <1>3, <1>4, <1>5, <1>6 DEF MigrationNext

\* So does the start up to the network.
LEMMA BeforeServing ==
    ASSUME ServingInv,
           \/ Boot \/ Setup \/ GetRegistryCredentials \/ StopStack \/ StopStackFails
           \/ ServeVolumeDrivers \/ RemoveInternalBridge
           \/ \E reboot \in BOOLEAN : Restart(reboot) \/ Die(reboot)
    PROVE  ServingInv'
PROOF
  <1>1. logged \in BOOLEAN
    BY DEF ServingInv
  <1>2. CASE Boot \/ Setup \/ ServeVolumeDrivers \/ RemoveInternalBridge
    BY <1>1, <1>2, ServingElsewhere DEF Boot, Setup, ServeVolumeDrivers, RemoveInternalBridge,
       Goto, ServingLabels
  <1>3. CASE GetRegistryCredentials \/ StopStack \/ StopStackFails
    BY <1>1, <1>3, ServingElsewhere DEF GetRegistryCredentials, StopStack, StopStackFails, Enter,
       Loop, ServingLabels
  <1>4. CASE \E reboot \in BOOLEAN : Restart(reboot) \/ Die(reboot)
    BY <1>1, <1>4, ServingElsewhere DEF Restart, Die, Goto, ServingLabels
  <1> QED
    BY <1>2, <1>3, <1>4

\* Once all is migrated, an installed add-on has its compose stack, attached as its manifest says.
LEMMA InstalledStack ==
    ASSUME StackInv, CoreInv, pc \in AfterLabels, NEW a \in Installed
    PROVE  /\ a \in AddOns /\ New(a) \in Projects /\ manifest[a] = Migrated(a)
           /\ IsStack(stack[New(a)]) /\ Attached(a, stack[New(a)])
PROOF
  <1>1. a \in AddOns /\ New(a) \in Projects
    BY InstalledAddOns, ProjectNames
  <1>2. IsMigrated(a)
    BY DEF CoreInv, LoopInv, AllMigrated
  <1> QED
    BY <1>1, <1>2 DEF StackInv, IsMigrated

\* Making the bridge anew and entering the loop of Reconnect says nothing of any add-on yet.
LEMMA CreateInternalBridgeServing ==
    ASSUME ServingInv, CoreInv, CreateInternalBridge
    PROVE  ServingInv'
PROOF
  <1>1. /\ todo' = Installed /\ pc' = (IF Installed = {} THEN "dropins" ELSE "reconnect")
        /\ UNCHANGED <<manifest, faults, logged>>
    BY DEF CreateInternalBridge, Enter
  <1>2. Installed' = Installed
    BY <1>1, SameManifests DEF CoreInv
  <1> QED
    BY <1>1, <1>2 DEF ServingInv, ServingLabels

\* A step of a loop that changes the stack of the add-on at hand alone.
LEMMA OthersServe ==
    ASSUME StackInv, CoreInv, pc \in {"reconnect", "start"}, NEW c, stack' = [stack EXCEPT ![New(Head1)] = c]
    PROVE  /\ Head1 \in Installed /\ stack'[New(Head1)] = c
           /\ \A a \in Installed : a # Head1 => stack'[New(a)] = stack[New(a)]
PROOF
  <1>1. Head1 \in Installed /\ Head1 \in AddOns
    BY HeadIn DEF CoreInv, LoopLabels
  <1>2. New(Head1) \in Projects
    BY <1>1, ProjectNames
  <1>3. stack'[New(Head1)] = c
    BY <1>2 DEF StackInv
  <1>4. ASSUME NEW a \in Installed, a # Head1 PROVE stack'[New(a)] = stack[New(a)]
    <2>1. New(a) # New(Head1) /\ New(a) \in Projects
      BY <1>1, <1>4, ProjectNames, InstalledAddOns
    <2> QED
      BY <2>1 DEF StackInv
  <1> QED
    BY <1>1, <1>3, <1>4

\* After Reconnect the containers of the add-on are on no bridge that was removed.
LEMMA ReconnectServing ==
    ASSUME ServingInv, StackInv, CoreInv, Reconnect
    PROVE  ServingInv'
PROOF
  <1>1. /\ pc = "reconnect"
        /\ todo' = IF Rest # {} THEN Rest ELSE Installed
        /\ pc' = IF Rest # {} THEN "reconnect" ELSE "start"
        /\ UNCHANGED <<manifest, faults, logged>>
        /\ stack' = IF IsConnected(manifest[Head1])
                    THEN [stack EXCEPT ![New(Head1)] = Reconnected(stack[New(Head1)])] ELSE stack
    BY DEF Reconnect, Loop
  <1>2. Installed' = Installed
    BY <1>1, SameManifests DEF CoreInv
  <1>3. Head1 \in Installed /\ Head1 \in todo
    BY <1>1, HeadIn DEF CoreInv, LoopLabels
  <1>4. /\ manifest[Head1] = Migrated(Head1) /\ IsStack(stack[New(Head1)])
        /\ Attached(Head1, stack[New(Head1)])
    BY <1>1, <1>3, InstalledStack DEF AfterLabels
  <1>5. /\ stack'[New(Head1)].bridge # "removed"
        /\ \A a \in Installed : a # Head1 => stack'[New(a)] = stack[New(a)]
    <2>1. CASE IsConnected(manifest[Head1])
      <3>1. stack' = [stack EXCEPT ![New(Head1)] = Reconnected(stack[New(Head1)])]
        BY <1>1, <2>1
      <3>2. Reconnected(stack[New(Head1)]).bridge # "removed"
        BY <1>4, AlikeContainers DEF Attached
      <3> QED
        BY <1>1, <3>1, <3>2, OthersServe
    <2>2. CASE ~ IsConnected(manifest[Head1])
      BY <1>1, <1>4, <2>2 DEF Attached
    <2> QED
      BY <2>1, <2>2
  <1>6. SUFFICES ASSUME ~ logged
                 PROVE  \A a \in Installed \ Rest : stack'[New(a)].bridge # "removed"
    BY <1>1, <1>2 DEF ServingInv, ServingLabels
  <1> QED
    BY <1>1, <1>5, <1>6 DEF ServingInv, Rest

\* An add-on that is reconnected can be started.
LEMMA Startable ==
    ASSUME ServingInv, StackInv, CoreInv, pc = "start", ~ logged
    PROVE  CanStart(stack[New(Head1)])
PROOF
  <1>1. Head1 \in Installed
    BY HeadIn DEF CoreInv, LoopLabels
  <1>2. Attached(Head1, stack[New(Head1)])
    BY <1>1, InstalledStack DEF AfterLabels
  <1> QED
    BY <1>1, <1>2 DEF ServingInv, ServingLabels, CanStart, Attached

\* Start brings the add-on at hand up and leaves the others as they are.
LEMMA StartServing ==
    ASSUME ServingInv, StackInv, CoreInv, Start
    PROVE  ServingInv'
PROOF
  <1> DEFINE c == [stack[New(Head1)] EXCEPT !.state = "up"]
  <1>0. stack' = [stack EXCEPT ![New(Head1)] = c]
    BY DEF Start
  <1>1. /\ pc = "start"
        /\ todo' = IF Rest # {} THEN Rest ELSE Installed
        /\ pc' = IF Rest # {} THEN "start" ELSE "dropins"
        /\ UNCHANGED <<manifest, faults, logged>>
    BY DEF Start, Loop
  <1>2. Installed' = Installed
    BY <1>1, SameManifests DEF CoreInv
  <1>3. Head1 \in Installed /\ Head1 \in todo
    BY <1>1, HeadIn DEF CoreInv, LoopLabels
  <1>4. IsStack(stack[New(Head1)]) /\ Attached(Head1, stack[New(Head1)])
    BY <1>1, <1>3, InstalledStack DEF AfterLabels
  <1>5. c.state = "up" /\ c.bridge = stack[New(Head1)].bridge
    BY <1>4, AlikeContainers DEF Attached
  <1> HIDE DEF c
  <1>6. /\ stack'[New(Head1)] = c
        /\ \A a \in Installed : a # Head1 => stack'[New(a)] = stack[New(a)]
    BY <1>0, <1>1, OthersServe
  <1>7. SUFFICES ASSUME ~ logged
                 PROVE  /\ \A a \in Installed : stack'[New(a)].bridge # "removed"
                        /\ \A a \in Installed \ Rest : stack'[New(a)].state = "up"
    BY <1>1, <1>2 DEF ServingInv, ServingLabels
  <1>8. \A a \in Installed : stack[New(a)].bridge # "removed"
    BY <1>1, <1>7 DEF ServingInv, ServingLabels
  <1>9. \A a \in Installed \ todo : stack[New(a)].state = "up"
    BY <1>1, <1>7 DEF ServingInv
  <1> QED
    BY <1>3, <1>5, <1>6, <1>8, <1>9 DEF Rest

\* A failure to reconnect or to start is passed over, and recorded.
LEMMA FailsServing ==
    ASSUME ServingInv, StackInv, CoreInv, ReconnectFails \/ StartFails
    PROVE  ServingInv'
PROOF
  <1>1. faults' \in 0 .. MaxFaults
    BY StartupAssumption DEF ServingInv, ReconnectFails, StartFails
  <1>2. logged'
    <2>1. CASE ReconnectFails
      BY <2>1 DEF ReconnectFails
    <2>2. CASE StartFails /\ logged
      BY <2>2 DEF StartFails
    <2>3. CASE StartFails /\ ~ logged
      <3>1. CanStart(stack[New(Head1)])
        BY <2>3, Startable DEF StartFails
      <3>2. faults' # faults
        BY <2>3, <3>1 DEF StartFails, ServingInv
      <3> QED
        BY <2>3, <3>2 DEF StartFails
    <2> QED
      BY <2>1, <2>2, <2>3
  <1>3. logged' \in BOOLEAN
    BY <1>2 DEF ReconnectFails, StartFails, ServingInv
  <1> QED
    BY <1>1, <1>2, <1>3 DEF ServingInv

\* A drop-in is installed running, on the bridge there is.
LEMMA InstallDropInsServing ==
    ASSUME ServingInv, StackInv, CoreInv, InstallDropIns
    PROVE  ServingInv'
PROOF
  <1>1. /\ pc = "dropins" /\ pc' = "serving" /\ UNCHANGED <<faults, logged>>
        /\ UNCHANGED disk \/ \E a \in AddOns : DropsIn(a)
    BY InstallDropInsCases
  <1>2. SUFFICES ASSUME ~ logged
                 PROVE  \A a \in Installed' : stack'[New(a)].bridge # "removed" /\ stack'[New(a)].state = "up"
    BY <1>1 DEF ServingInv
  <1>3. \A a \in Installed : stack[New(a)].bridge # "removed" /\ stack[New(a)].state = "up"
    BY <1>1, <1>2 DEF ServingInv, ServingLabels
  <1>4. CASE UNCHANGED disk
    BY <1>3, <1>4, SameManifests DEF disk, CoreInv
  <1>5. ASSUME NEW b \in AddOns, DropsIn(b)
        PROVE  \A a \in Installed' : stack'[New(a)].bridge # "removed" /\ stack'[New(a)].state = "up"
    <2>1. PICK c : stack' = [stack EXCEPT ![New(b)] = c] /\ c.state = "up" /\ c.bridge # "removed"
      BY <1>5, DropInStack
    <2>2. stack'[New(b)] = c
      BY <2>1, ProjectNames DEF StackInv
    <2>3. ASSUME NEW a \in Installed PROVE stack'[New(a)] = stack[New(a)] \/ a = b
      <3>1. a = b \/ (New(a) # New(b) /\ New(a) \in Projects)
        BY ProjectNames, InstalledAddOns
      <3> QED
        BY <2>1, <3>1 DEF StackInv
    <2>4. Installed' = Installed \cup {b}
      BY <1>5, DropInManifests DEF CoreInv
    <2> QED
      BY <1>3, <2>1, <2>2, <2>3, <2>4
  <1> QED
    BY <1>1, <1>4, <1>5

\* Every step keeps what is said of the add-ons that are served.
LEMMA NextServing ==
    ASSUME ServingInv, StackInv, CoreInv, [Next]_vars
    PROVE  ServingInv'
PROOF
  <1>1. CASE UNCHANGED vars
    <2>1. UNCHANGED <<manifest, stack, pc, todo, faults, logged>>
      BY <1>1 DEF vars, bootVars, disk, locals
    <2>2. Installed' = Installed
      BY <2>1, SameManifests DEF CoreInv
    <2> QED
      BY <2>1, <2>2 DEF ServingInv
  <1>2. CASE Next
    BY <1>2, MigrationServing, BeforeServing, CreateInternalBridgeServing, ReconnectServing,
       StartServing, FailsServing, InstallDropInsServing DEF Next, Step
  <1> QED
    BY <1>1, <1>2

\* A device that is down serves nothing.
LEMMA InitServing == Init => ServingInv
PROOF
  <1> SUFFICES ASSUME Init PROVE ServingInv
    OBVIOUS
  <1>1. pc = "down" /\ faults = 0 /\ logged = FALSE
    BY DEF Init
  <1>2. faults \in 0 .. MaxFaults
    BY <1>1, StartupAssumption
  <1>3. logged \in BOOLEAN /\ pc \notin ServingLabels
    BY <1>1 DEF ServingLabels
  <1> QED
    BY <1>2, <1>3 DEF ServingInv, ServingLabels

\* The stacks of all add-ons are what manifests, portainer and the point of the start say.
THEOREM StacksAlways == Spec => [](StackInv /\ ServingInv)
PROOF
  <1>1. Init => StackInv /\ ServingInv
    BY InitStack, InitServing
  <1>2. CoreInv /\ StackInv /\ ServingInv /\ [Next]_vars => (StackInv /\ ServingInv)'
    BY NextStack, NextServing
  <1> QED
    BY <1>1, <1>2, CoreAlways, PTL DEF Spec

\* A status that is "Running" is not that of a container that has ended.
LEMMA EndedIsNotRunning ==
    ASSUME NEW states, GetAddOnStatus(states) = "Running"
    PROVE  "exited" \notin states
PROOF
  <1> DEFINE statuses == {convertContainerStatusToAddOnStatus(s) : s \in states}
  <1>1. SUFFICES ASSUME "exited" \in states PROVE FALSE
    OBVIOUS
  <1>2. convertContainerStatusToAddOnStatus("exited") \in statuses
    BY <1>1
  <1>3. convertContainerStatusToAddOnStatus("exited") # "Running"
    BY DEF convertContainerStatusToAddOnStatus
  <1>4. GetAddOnStatus(states) = CHOOSE s \in statuses : s # "Running"
    BY <1>2, <1>3 DEF GetAddOnStatus
  <1>5. (CHOOSE s \in statuses : s # "Running") # "Running"
    BY <1>2, <1>3
  <1> QED
    BY <1>4, <1>5

\* Once both loops are done all add-ons run, unless a failure was passed over.
LEMMA ServingImpliesStarted ==
    ASSUME CoreInv, StackInv, ServingInv
    PROVE  ServingMeansStarted
PROOF
  <1> SUFFICES ASSUME pc = "serving" PROVE ServingMeansStarted
    BY DEF ServingMeansStarted
  <1>1. ASSUME ~ logged, NEW a \in Installed
        PROVE  Running(stack[New(a)]) /\ (IsConnected(manifest[a]) => stack[New(a)].bridge = "current")
    <2>1. manifest[a] = Migrated(a) /\ IsStack(stack[New(a)]) /\ Attached(a, stack[New(a)])
      BY InstalledStack DEF AfterLabels
    <2>2. stack[New(a)].bridge # "removed" /\ stack[New(a)].state = "up"
      BY <1>1 DEF ServingInv, ServingLabels
    <2>3. stack[New(a)].bridge \in {"none", "current", "removed"}
      BY <2>1, ContainerForm DEF Attached
    <2> QED
      BY <2>1, <2>2, <2>3 DEF Running, Attached
  <1>2. ASSUME NEW manage \in BOOLEAN, NEW access \in SUBSET AddOns,
               NEW a \in DOMAIN Listed(manage, access), Listed(manage, access)[a] = "Running"
        PROVE  stack[New(a)].state # "exited"
    <2> DEFINE states == [b \in Installed |-> IF stack[New(b)].exists THEN {stack[New(b)].state} ELSE {}]
               addOns == IF manage THEN Installed ELSE Installed \cap access
    <2>1. Listed(manage, access) = [b \in addOns |-> GetAddOnStatus(states[b])]
      BY DEF Listed, listInstalledAddOns, transformCatalogueAddOnsToGrpcAddOnsWithStatus,
         filterAddOnsWithPermission
    <2>2. a \in Installed
      BY <2>1
    <2>3. GetAddOnStatus(states[a]) = "Running"
      BY <1>2, <2>1
    <2>4. "exited" \notin states[a]
      BY <2>3, EndedIsNotRunning
    <2>5. Attached(a, stack[New(a)])
      BY <2>2, InstalledStack DEF AfterLabels
    <2> QED
      BY <2>2, <2>4, <2>5 DEF Attached
  <1> QED
    BY <1>1, <1>2 DEF ServingMeansStarted

\* When the service serves and no failure was passed over, every installed add-on runs, on the
\* bridge there is; an add-on that has ended is listed as running to nobody (cmd/aom.go,
\* addon_starter.go, external_network.go).
THEOREM Started == Spec => []ServingMeansStarted
PROOF
  <1>1. CoreInv /\ StackInv /\ ServingInv => ServingMeansStarted
    BY ServingImpliesStarted
  <1> QED
    BY <1>1, CoreAlways, StacksAlways, PTL

--------------------------------------------------------------------------------
\* Volumes

\* The volumes of an add-on have names of volumes.
LEMMA NamesOfVolumes ==
    ASSUME NEW a \in AddOns
    PROVE  VolumesOf(a) \subseteq VolumeNames
PROOF
  BY DEF VolumeNames

\* One volume of one project is written.
LEMMA OneVolume ==
    ASSUME VolumeInv, NEW p \in Projects, NEW v \in VolumeNames, NEW c,
           volume' = [volume EXCEPT ![p][v] = c]
    PROVE  /\ \A q \in Projects, w \in VolumeNames :
                volume'[q][w] = IF q = p /\ w = v THEN c ELSE volume[q][w]
           /\ c \in Contents => volume' \in [Projects -> [VolumeNames -> Contents]]
PROOF
  <1>1. volume \in [Projects -> [VolumeNames -> Contents]]
    BY DEF VolumeInv
  <1> HIDE DEF Contents
  <1> QED
    BY <1>1

\* All volumes of one project are written.
LEMMA VolumesOfProject ==
    ASSUME VolumeInv, NEW p \in Projects, NEW f \in [VolumeNames -> Contents],
           volume' = [volume EXCEPT ![p] = f]
    PROVE  /\ \A q \in Projects, w \in VolumeNames :
                volume'[q][w] = IF q = p THEN f[w] ELSE volume[q][w]
           /\ volume' \in [Projects -> [VolumeNames -> Contents]]
PROOF
  <1>1. volume \in [Projects -> [VolumeNames -> Contents]]
    BY DEF VolumeInv
  <1> QED
    BY <1>1

\* Within the loop over volumes, nothing is added to what is left of it.
LEMMA VolumeFrame ==
    ASSUME VolumeInv, volume' \in [Projects -> [VolumeNames -> Contents]], vols' \subseteq vols,
           pc' \in FetchLabels \ {"fetch"} => pc \in FetchLabels \ {"fetch"} /\ todo' = todo,
           pc' \in CopyLabels => /\ cache' = <<cache'[1], cache'[2]>>
                                 /\ cache'[1] \in vols' /\ cache'[2] \in Contents,
           pc' \in {"remove_volumes", "push"} => vols' = {}
    PROVE  VolumeInv'
PROOF
  <1>1. todo' = todo => Head1' = Head1
    BY DEF Head1
  <1>2. vols' \in SUBSET VolumeNames
    BY DEF VolumeInv
  <1>3. pc' \in FetchLabels \ {"fetch"} => vols' \subseteq VolumesOf(Head1)'
    BY <1>1 DEF VolumeInv
  <1> QED
    BY <1>2, <1>3 DEF VolumeInv

\* Steps outside of the loop over volumes.
LEMMA VolumeElsewhere ==
    ASSUME VolumeInv, volume' = volume, vols' = vols \/ vols' = {}, pc' \notin FetchLabels \ {"fetch"}
    PROVE  VolumeInv'
PROOF
  <1>1. vols' \subseteq vols
    OBVIOUS
  <1>2. volume' \in [Projects -> [VolumeNames -> Contents]]
    BY DEF VolumeInv
  <1>3. pc' \notin CopyLabels /\ pc' \notin {"remove_volumes", "push"}
    BY DEF CopyLabels, FetchLabels
  <1> QED
    BY <1>1, <1>2, <1>3, VolumeFrame

\* The volumes of the process at hand, where the migration does not touch them.
LEMMA MigrationVolume ==
    ASSUME VolumeInv, CoreInv,
           \/ ResolveVersion \/ RecordVersion \/ GetVersion \/ RefuseVersion \/ Migrate
           \/ FetchFails \/ CreateStackFails
           \/ \E v \in VolumeNames : InspectFails(v)
           \/ PushManifest \/ DeleteRoutes \/ CreateRoutes
           \/ TruncateRelease \/ UpdateVersion \/ UpdateVersionFails
    PROVE  VolumeInv'
PROOF
  <1>1. CASE ResolveVersion \/ RecordVersion \/ GetVersion \/ RefuseVersion \/ TruncateRelease \/ UpdateVersion
    BY <1>1, VolumeElsewhere DEF ResolveVersion, RecordVersion, GetVersion, RefuseVersion,
       TruncateRelease, UpdateVersion, disk, locals, Goto, FetchLabels
  <1>2. CASE Migrate \/ PushManifest \/ CreateRoutes \/ DeleteRoutes
    BY <1>2, VolumeElsewhere DEF Migrate, PushManifest, CreateRoutes, DeleteRoutes, disk, locals,
       Goto, Loop, Enter, FetchLabels
  <1>3. CASE FetchFails \/ CreateStackFails \/ (\E v \in VolumeNames : InspectFails(v)) \/ UpdateVersionFails
    BY <1>3, VolumeElsewhere DEF FetchFails, CreateStackFails, InspectFails, UpdateVersionFails,
       disk, locals, Goto, FetchLabels
  <1> QED
    BY <1>1, <1>2, <1>3

\* The start writes no volume.
LEMMA StartupVolume ==
    ASSUME VolumeInv, CoreInv,
           \/ Boot \/ Setup \/ GetRegistryCredentials \/ StopStack \/ StopStackFails
           \/ ServeVolumeDrivers \/ RemoveInternalBridge \/ CreateInternalBridge
           \/ Reconnect \/ ReconnectFails \/ Start \/ StartFails
           \/ \E reboot \in BOOLEAN : Restart(reboot)
    PROVE  VolumeInv'
PROOF
  <1>1. CASE Boot \/ Setup \/ ServeVolumeDrivers \/ RemoveInternalBridge
    BY <1>1, VolumeElsewhere DEF Boot, Setup, ServeVolumeDrivers, RemoveInternalBridge, disk,
       locals, Goto, FetchLabels
  <1>2. CASE GetRegistryCredentials \/ StopStack \/ StopStackFails \/ CreateInternalBridge
    BY <1>2, VolumeElsewhere DEF GetRegistryCredentials, StopStack, StopStackFails,
       CreateInternalBridge, disk, locals, Loop, Enter, FetchLabels
  <1>3. CASE Reconnect \/ ReconnectFails \/ Start \/ StartFails
    BY <1>3, VolumeElsewhere DEF Reconnect, ReconnectFails, Start, StartFails, disk, locals, Loop,
       FetchLabels
  <1>4. CASE \E reboot \in BOOLEAN : Restart(reboot)
    BY <1>4, VolumeElsewhere DEF Restart, locals, Goto, FetchLabels
  <1> QED
    BY <1>1, <1>2, <1>3, <1>4

\* Fetching the manifest begins with all volumes of the add-on.
LEMMA FetchVolume ==
    ASSUME VolumeInv, CoreInv, FetchAndMigrateManifest
    PROVE  VolumeInv'
PROOF
  <1>1. vols' = VolumesOf(Head1)
    BY FetchAndMigrateManifestCore
  <1>2. pc = "fetch" /\ pc' = "connect" /\ UNCHANGED <<volume, todo>>
    BY DEF FetchAndMigrateManifest, disk, Goto
  <1>3. Head1 \in AddOns
    BY <1>2, HeadWhenGone DEF FetchLabels
  <1>4. Head1' = Head1
    BY <1>2 DEF Head1
  <1>5. vols' \in SUBSET VolumeNames /\ vols' \subseteq VolumesOf(Head1)'
    BY <1>1, <1>3, <1>4, NamesOfVolumes
  <1> QED
    BY <1>2, <1>5 DEF VolumeInv, CopyLabels

\* Steps of the loop over volumes that write no volume.
LEMMA KeepingVolume ==
    ASSUME VolumeInv, CoreInv,
           ConnectToPortainer \/ DeletePortainerStack \/ \E v \in VolumeNames : InspectVolumes(v)
    PROVE  VolumeInv'
PROOF
  <1>1. volume' = volume /\ vols' = vols /\ todo' = todo /\ pc \in FetchLabels \ {"fetch"}
    BY DEF ConnectToPortainer, DeletePortainerStack, InspectVolumes, disk, locals, FetchLabels
  <1>2. volume' \in [Projects -> [VolumeNames -> Contents]]
    BY <1>1 DEF VolumeInv
  <1>3. CASE ConnectToPortainer \/ DeletePortainerStack
    <2>1. pc' \in {"delete_stack", "create_stack"}
      BY <1>3 DEF ConnectToPortainer, DeletePortainerStack, Goto
    <2> QED
      BY <1>1, <1>2, <2>1, VolumeFrame DEF CopyLabels
  <1>4. ASSUME NEW v \in VolumeNames, InspectVolumes(v)
        PROVE  VolumeInv'
    <2>1. Head1 \in AddOns
      BY <1>1, HeadWhenGone
    <2>2. volume[Old(Head1)][v] \in Contents
      BY <2>1, ProjectNames DEF VolumeInv
    <2>3. /\ cache' = <<cache'[1], cache'[2]>> /\ cache'[1] \in vols' /\ cache'[2] \in Contents
          /\ pc' = "clear_old"
      BY <1>1, <1>4, <2>2 DEF InspectVolumes, Goto
    <2> QED
      BY <1>1, <1>2, <2>3, VolumeFrame
  <1> QED
    BY <1>3, <1>4

\* The volume whose data is in the cache is cleared or written.
LEMMA SetVolumeVolume ==
    ASSUME VolumeInv, CoreInv, pc \in CopyLabels,
           NEW p \in {Old(Head1), New(Head1)}, NEW c, SetVolume(p, c)
    PROVE  /\ Head1 \in AddOns /\ cache[1] \in VolumesOf(Head1)
           /\ \A q \in Projects, w \in VolumeNames :
                volume'[q][w] = IF q = p /\ w = cache[1] THEN c ELSE volume[q][w]
           /\ c \in Contents => volume' \in [Projects -> [VolumeNames -> Contents]]
PROOF
  <1> DEFINE v == cache[1]
  <1>1. Head1 \in AddOns /\ p \in Projects
    BY HeadWhenGone DEF CopyLabels, FetchLabels
  <1>2. v \in VolumesOf(Head1) /\ v \in VolumeNames
    BY DEF VolumeInv, CopyLabels, FetchLabels
  <1>3. volume' = [volume EXCEPT ![p][v] = c]
    BY DEF SetVolume
  <1>4. v = cache[1]
    OBVIOUS
  <1> HIDE DEF v
  <1>5. /\ \A q \in Projects, w \in VolumeNames :
             volume'[q][w] = IF q = p /\ w = v THEN c ELSE volume[q][w]
        /\ c \in Contents => volume' \in [Projects -> [VolumeNames -> Contents]]
    BY <1>1, <1>2, <1>3, OneVolume
  <1> QED
    BY <1>1, <1>2, <1>4, <1>5

\* Moving the data of a volume.
LEMMA CopyingVolume ==
    ASSUME VolumeInv, CoreInv, RemoveContentOfOld \/ RemoveContentOfNew \/ CopyFromCache
    PROVE  VolumeInv'
PROOF
  <1>1. CASE RemoveContentOfOld \/ RemoveContentOfNew
    <2>1. \E p \in {Old(Head1), New(Head1)} : SetVolume(p, "empty")
      BY <1>1 DEF RemoveContentOfOld, RemoveContentOfNew
    <2>2. /\ pc \in CopyLabels /\ pc' \in CopyLabels /\ UNCHANGED <<todo, vols, cache>>
          /\ pc' \notin {"remove_volumes", "push"}
      BY <1>1 DEF RemoveContentOfOld, RemoveContentOfNew, locals, CopyLabels, Goto
    <2>3. volume' \in [Projects -> [VolumeNames -> Contents]]
      BY <2>1, <2>2, SetVolumeVolume DEF Contents
    <2>4. pc \in FetchLabels \ {"fetch"}
      BY <2>2 DEF CopyLabels, FetchLabels
    <2>5. cache = <<cache[1], cache[2]>> /\ cache[1] \in vols /\ cache[2] \in Contents
      BY <2>2 DEF VolumeInv
    <2> QED
      BY <2>2, <2>3, <2>4, <2>5, VolumeFrame
  <1>2. CASE CopyFromCache
    <2>1. /\ pc = "copy" /\ SetVolume(New(Head1), cache[2]) /\ vols' = vols \ {cache[1]} /\ todo' = todo
          /\ pc' = IF vols = {cache[1]} THEN "remove_volumes" ELSE "inspect"
      BY <1>2 DEF CopyFromCache, Goto
    <2>2. cache[2] \in Contents
      BY <2>1 DEF VolumeInv, CopyLabels
    <2>3. volume' \in [Projects -> [VolumeNames -> Contents]]
      BY <2>1, <2>2, SetVolumeVolume DEF CopyLabels
    <2> QED
      BY <2>1, <2>3, VolumeFrame DEF CopyLabels, FetchLabels
  <1> QED
    BY <1>1, <1>2

\* What creating the stack does to the volumes: new ones are filled from the image.
LEMMA CreatedVolumes ==
    ASSUME VolumeInv, CoreInv, CreateStackWithoutStart
    PROVE  /\ \A q \in Projects, w \in VolumeNames :
                volume'[q][w] = IF /\ q = New(Head1) /\ w \in VolumesOf(Head1)
                                   /\ volume[q][w] \in {"absent", "empty"}
                                THEN "image" ELSE volume[q][w]
           /\ volume' \in [Projects -> [VolumeNames -> Contents]]
PROOF
  <1> DEFINE compose == GetDockerComposeFromManifest(migrated)
             old == volume[New(Head1)]
             f == [v \in DOMAIN old |->
                    IF v \in compose.volumes /\ old[v] \in {"absent", "empty"} THEN "image" ELSE old[v]]
  <1>1. pc = "create_stack" /\ volume' = [volume EXCEPT ![New(Head1)] = f]
    BY DEF CreateStackWithoutStart
  <1>2. Head1 \in AddOns /\ New(Head1) \in Projects
    BY <1>1, HeadWhenGone DEF FetchLabels
  <1>3. migrated = [Migrated(Head1) EXCEPT !.settings = migrated.settings]
    BY <1>1 DEF CoreInv, MigratedInv, FetchLabels
  <1>4. compose.volumes = VolumesOf(Head1)
    <2>1. PICK settings : migrated = [Migrated(Head1) EXCEPT !.settings = settings]
      BY <1>3
    <2> QED
      BY <1>2, <2>1, ComposeWithSettings
  <1>5. old \in [VolumeNames -> Contents]
    BY <1>2 DEF VolumeInv
  <1>6. f \in [VolumeNames -> Contents]
    BY <1>5 DEF Contents
  <1>7. \A w \in VolumeNames : f[w] = IF w \in VolumesOf(Head1) /\ old[w] \in {"absent", "empty"}
                                      THEN "image" ELSE old[w]
    BY <1>4, <1>5
  <1> HIDE DEF f
  <1> QED
    BY <1>1, <1>2, <1>6, <1>7, VolumesOfProject

\* Creating the stack fills volumes.
LEMMA CreateStackVolume ==
    ASSUME VolumeInv, CoreInv, CreateStackWithoutStart
    PROVE  VolumeInv'
PROOF
  <1>1. /\ pc = "create_stack" /\ vols' = vols /\ todo' = todo
        /\ pc' = IF vols = {} THEN "remove_volumes" ELSE "inspect"
    BY DEF CreateStackWithoutStart, Goto, locals
  <1> QED
    BY <1>1, CreatedVolumes, VolumeFrame DEF CopyLabels, FetchLabels

\* What the removal of the old volumes does.
LEMMA RemovedVolumes ==
    ASSUME VolumeInv, CoreInv, RemoveUnusedVolumes
    PROVE  /\ \A q \in Projects, w \in VolumeNames :
                volume'[q][w] = IF ~ stack[Old(Head1)].exists /\ q = Old(Head1) /\ w \in VolumesOf(Head1)
                                THEN "absent" ELSE volume[q][w]
           /\ volume' \in [Projects -> [VolumeNames -> Contents]]
PROOF
  <1> DEFINE old == volume[Old(Head1)]
             f == [v \in DOMAIN old |-> IF v \in VolumesOf(Head1) THEN "absent" ELSE old[v]]
  <1>1. /\ pc = "remove_volumes"
        /\ volume' = IF stack[Old(Head1)].exists THEN volume ELSE [volume EXCEPT ![Old(Head1)] = f]
    BY DEF RemoveUnusedVolumes
  <1>2. Head1 \in AddOns /\ Old(Head1) \in Projects
    BY <1>1, HeadWhenGone DEF FetchLabels
  <1>3. old \in [VolumeNames -> Contents]
    BY <1>2 DEF VolumeInv
  <1>4. f \in [VolumeNames -> Contents]
    BY <1>3 DEF Contents
  <1>5. \A w \in VolumeNames : f[w] = IF w \in VolumesOf(Head1) THEN "absent" ELSE old[w]
    BY <1>3
  <1> HIDE DEF f
  <1>6. CASE stack[Old(Head1)].exists
    BY <1>1, <1>6 DEF VolumeInv
  <1>7. CASE ~ stack[Old(Head1)].exists
    BY <1>1, <1>2, <1>4, <1>5, <1>7, VolumesOfProject
  <1> QED
    BY <1>6, <1>7

\* Removing the old volumes.
LEMMA RemoveVolumesVolume ==
    ASSUME VolumeInv, CoreInv, RemoveUnusedVolumes
    PROVE  VolumeInv'
PROOF
  <1>1. pc = "remove_volumes" /\ vols' = vols /\ todo' = todo /\ pc' = "push"
    BY DEF RemoveUnusedVolumes, Goto, locals
  <1>2. vols = {}
    BY <1>1 DEF VolumeInv
  <1> QED
    BY <1>1, <1>2, RemovedVolumes, VolumeFrame DEF CopyLabels, FetchLabels

\* The process ends: at most the volume that was being cleared or written is damaged.
LEMMA DiedVolumes ==
    ASSUME VolumeInv, CoreInv, NEW reboot \in BOOLEAN, Die(reboot)
    PROVE  /\ volume' \in [Projects -> [VolumeNames -> Contents]]
           /\ pc \notin CopyLabels => volume' = volume
           /\ \A q \in Projects, w \in VolumeNames : volume'[q][w] = "absent" => volume[q][w] = "absent"
PROOF
  <1>1. volume' = CASE pc = "clear_old" -> [volume EXCEPT ![Old(Head1)][cache[1]] = "partial"]
                    [] pc = "copy" -> [volume EXCEPT ![New(Head1)][cache[1]] = "partial"]
                    [] OTHER -> volume
    BY DEF Die
  <1>2. CASE pc \notin {"clear_old", "copy"}
    <2>1. volume' = volume
      BY <1>1, <1>2
    <2> QED
      BY <2>1 DEF VolumeInv
  <1>3. CASE pc \in {"clear_old", "copy"}
    <2>1. \E p \in {Old(Head1), New(Head1)} : SetVolume(p, "partial")
      BY <1>1, <1>3 DEF SetVolume
    <2>2. pc \in CopyLabels
      BY <1>3 DEF CopyLabels
    <2> QED
      BY <2>1, <2>2, SetVolumeVolume DEF Contents
  <1> QED
    BY <1>2, <1>3

\* The end of the process.
LEMMA DieVolume ==
    ASSUME VolumeInv, CoreInv, NEW reboot \in BOOLEAN, Die(reboot)
    PROVE  VolumeInv'
PROOF
  <1>1. vols' = vols /\ pc' = "down"
    BY DEF Die, locals, Goto
  <1> QED
    BY <1>1, DiedVolumes, VolumeFrame DEF CopyLabels, FetchLabels

\* A drop-in has data in its volumes, and no other add-on's volume changes.
LEMMA DropInVolumes ==
    ASSUME VolumeInv, NEW a \in AddOns, DropsIn(a)
    PROVE  /\ \A q \in Projects, w \in VolumeNames :
                volume'[q][w] = IF q = New(a) /\ w \in VolumesOf(a) THEN "data" ELSE volume[q][w]
           /\ volume' \in [Projects -> [VolumeNames -> Contents]]
PROOF
  <1> DEFINE compose == GetDockerComposeFromManifest([adaptFeaturesToSystem(Migrated(a)) EXCEPT
                            !.settings = CombineManifestSettingsWithSettingsMap(@, UserEnv[a])])
             old == volume[New(a)]
             f == [v \in DOMAIN old |-> IF v \in compose.volumes THEN "data" ELSE old[v]]
  <1>1. volume' = [volume EXCEPT ![New(a)] = f]
    BY DEF DropsIn
  <1>2. New(a) \in Projects
    BY ProjectNames
  <1>3. compose.volumes = VolumesOf(a)
    BY ComposeOfDropIn
  <1>4. old \in [VolumeNames -> Contents]
    BY <1>2 DEF VolumeInv
  <1>5. f \in [VolumeNames -> Contents]
    BY <1>4 DEF Contents
  <1>6. \A w \in VolumeNames : f[w] = IF w \in VolumesOf(a) THEN "data" ELSE old[w]
    BY <1>3, <1>4
  <1> HIDE DEF f
  <1> QED
    BY <1>1, <1>2, <1>5, <1>6, VolumesOfProject

\* Installing drop-ins.
LEMMA InstallDropInsVolume ==
    ASSUME VolumeInv, CoreInv, InstallDropIns
    PROVE  VolumeInv'
PROOF
  <1>1. /\ vols' = vols /\ pc' = "serving"
        /\ UNCHANGED disk \/ \E a \in AddOns : DropsIn(a)
    BY InstallDropInsCases DEF locals
  <1>2. volume' \in [Projects -> [VolumeNames -> Contents]]
    <2>1. CASE UNCHANGED disk
      BY <2>1 DEF disk, VolumeInv
    <2>2. CASE \E a \in AddOns : DropsIn(a)
      BY <2>2, DropInVolumes
    <2> QED
      BY <1>1, <2>1, <2>2
  <1> QED
    BY <1>1, <1>2, VolumeFrame DEF CopyLabels, FetchLabels

\* At first the volumes of a project have data where its containers exist.
LEMMA InitVolumes ==
    ASSUME Init
    PROVE  /\ VolumeInv /\ pc = "down"
           /\ \A a \in AddOns : \A v \in VolumesOf(a) :
                /\ volume[Old(a)][v] = IF stack[Old(a)].exists THEN "data" ELSE "absent"
                /\ volume[New(a)][v] = IF stack[New(a)].exists THEN "data" ELSE "absent"
PROOF
  <1>1. /\ volume = [p \in Projects |-> [v \in VolumeNames |->
             IF stack[p].exists /\ v \in VolumesOf(p[1]) THEN "data" ELSE "absent"]]
        /\ pc = "down" /\ vols = {}
    BY DEF Init
  <1>2. VolumeInv
    BY <1>1 DEF VolumeInv, Contents, CopyLabels, FetchLabels
  <1>3. ASSUME NEW a \in AddOns, NEW v \in VolumesOf(a), NEW p \in {Old(a), New(a)}
        PROVE  volume[p][v] = IF stack[p].exists THEN "data" ELSE "absent"
    <2>1. p \in Projects /\ p[1] = a /\ v \in VolumeNames
      BY ProjectNames, NamesOfVolumes
    <2> QED
      BY <1>1, <2>1
  <1> QED
    BY <1>1, <1>2, <1>3

\* Every step keeps what is said of the loop over volumes.
LEMMA NextVolume ==
    ASSUME VolumeInv, CoreInv, [Next]_vars
    PROVE  VolumeInv'
PROOF
  <1>1. CASE UNCHANGED vars
    <2>1. UNCHANGED <<volume, vols, pc, todo, cache>>
      BY <1>1 DEF vars, bootVars, disk, locals
    <2>2. Head1' = Head1
      BY <2>1 DEF Head1
    <2> QED
      BY <2>1, <2>2 DEF VolumeInv
  <1>2. CASE MigrationNext \/ UpdateVersionFails
    BY <1>2, MigrationVolume, FetchVolume, KeepingVolume, CopyingVolume, CreateStackVolume,
       RemoveVolumesVolume DEF MigrationNext
  <1>3. CASE InstallDropIns \/ \E reboot \in BOOLEAN : Die(reboot)
    BY <1>3, InstallDropInsVolume, DieVolume
  <1>4. CASE /\ Next /\ ~ MigrationNext /\ ~ UpdateVersionFails /\ ~ InstallDropIns
             /\ ~ \E reboot \in BOOLEAN : Die(reboot)
    BY <1>4, StartupVolume DEF Next, Step
  <1> QED
    BY <1>1, <1>2, <1>3, <1>4

--------------------------------------------------------------------------------
\* Outside of the loop over volumes only what is in the volumes counts.
LEMMA DataElsewhere ==
    ASSUME DataInv, pc \notin MadeLabels, pc' \notin MadeLabels, volume' = volume,
           Installed' = Installed, interrupted \subseteq interrupted'
    PROVE  DataInv'
PROOF
  <1> SUFFICES ASSUME "data" \notin interrupted'
               PROVE  /\ \A a \in Installed' : \A v \in VolumesOf(a) : HasData(a, v)'
                      /\ \A a \in AddOns : Whole(a)'
    BY DEF DataInv, CopyLabels, MadeLabels, GoneLabels
  <1>1. \A a \in Installed : \A v \in VolumesOf(a) :
           volume[Old(a)][v] = "data" \/ volume[New(a)][v] = "data"
    BY DEF DataInv, HasData, MadeLabels, GoneLabels
  <1>2. \A a \in AddOns : Whole(a)
    BY DEF DataInv
  <1> QED
    BY <1>1, <1>2 DEF HasData, Whole, OldHave

\* Steps of the migration that leave the volumes alone.
LEMMA MigrationData ==
    ASSUME DataInv, CoreInv,
           \/ ResolveVersion \/ RecordVersion \/ GetVersion \/ RefuseVersion \/ Migrate
           \/ FetchAndMigrateManifest \/ FetchFails \/ ConnectToPortainer \/ DeletePortainerStack
           \/ CreateStackFails \/ DeleteRoutes \/ CreateRoutes
           \/ TruncateRelease \/ UpdateVersion \/ UpdateVersionFails
    PROVE  DataInv'
PROOF
  <1>1. /\ UNCHANGED <<manifest, volume>> /\ interrupted \subseteq interrupted'
        /\ pc \notin MadeLabels
    <2>1. CASE ResolveVersion \/ RecordVersion \/ GetVersion \/ RefuseVersion \/ Migrate
      BY <2>1 DEF ResolveVersion, RecordVersion, GetVersion, RefuseVersion, Migrate, disk,
         MadeLabels, GoneLabels
    <2>2. CASE \/ FetchAndMigrateManifest \/ FetchFails \/ ConnectToPortainer \/ DeletePortainerStack
               \/ CreateStackFails
      BY <2>2 DEF FetchAndMigrateManifest, FetchFails, ConnectToPortainer, DeletePortainerStack,
         CreateStackFails, disk, MadeLabels, GoneLabels
    <2>3. CASE DeleteRoutes \/ CreateRoutes \/ TruncateRelease \/ UpdateVersion \/ UpdateVersionFails
      BY <2>3 DEF DeleteRoutes, CreateRoutes, TruncateRelease, UpdateVersion, UpdateVersionFails,
         disk, MadeLabels, GoneLabels
    <2> QED
      BY <2>1, <2>2, <2>3
  <1>2. pc' \notin MadeLabels
    <2>1. CASE ResolveVersion \/ RecordVersion \/ GetVersion \/ RefuseVersion \/ Migrate
      BY <2>1 DEF ResolveVersion, RecordVersion, GetVersion, RefuseVersion, Migrate, Goto, Enter,
         MadeLabels, GoneLabels
    <2>2. CASE \/ FetchAndMigrateManifest \/ FetchFails \/ ConnectToPortainer \/ DeletePortainerStack
               \/ CreateStackFails
      BY <2>2 DEF FetchAndMigrateManifest, FetchFails, ConnectToPortainer, DeletePortainerStack,
         CreateStackFails, Goto, MadeLabels, GoneLabels
    <2>3. CASE DeleteRoutes \/ CreateRoutes \/ TruncateRelease \/ UpdateVersion \/ UpdateVersionFails
      BY <2>3 DEF DeleteRoutes, CreateRoutes, TruncateRelease, UpdateVersion, UpdateVersionFails,
         Goto, Loop, MadeLabels, GoneLabels
    <2> QED
      BY <2>1, <2>2, <2>3
  <1>3. Installed' = Installed
    BY <1>1, SameManifests DEF CoreInv
  <1> QED
    BY <1>1, <1>2, <1>3, DataElsewhere

\* Steps of the start, which leave them alone too.
LEMMA StartupData ==
    ASSUME DataInv, CoreInv,
           \/ Boot \/ Setup \/ GetRegistryCredentials \/ StopStack \/ StopStackFails
           \/ ServeVolumeDrivers \/ RemoveInternalBridge \/ CreateInternalBridge
           \/ Reconnect \/ ReconnectFails \/ Start \/ StartFails
           \/ \E reboot \in BOOLEAN : Restart(reboot)
    PROVE  DataInv'
PROOF
  <1>1. UNCHANGED <<manifest, volume, interrupted>> /\ pc \notin MadeLabels /\ pc' \notin MadeLabels
    <2>1. CASE Boot \/ Setup \/ ServeVolumeDrivers \/ RemoveInternalBridge
      BY <2>1 DEF Boot, Setup, ServeVolumeDrivers, RemoveInternalBridge, disk, Goto, MadeLabels,
         GoneLabels
    <2>2. CASE GetRegistryCredentials \/ StopStack \/ StopStackFails \/ CreateInternalBridge
      BY <2>2 DEF GetRegistryCredentials, StopStack, StopStackFails, CreateInternalBridge, disk,
         Loop, Enter, MadeLabels, GoneLabels
    <2>3. CASE Reconnect \/ ReconnectFails \/ Start \/ StartFails
      BY <2>3 DEF Reconnect, ReconnectFails, Start, StartFails, disk, Loop, MadeLabels, GoneLabels
    <2>4. CASE \E reboot \in BOOLEAN : Restart(reboot)
      BY <2>4 DEF Restart, Goto, MadeLabels, GoneLabels
    <2> QED
      BY <2>1, <2>2, <2>3, <2>4
  <1>3. Installed' = Installed
    BY <1>1, SameManifests DEF CoreInv
  <1> QED
    BY <1>1, <1>3, DataElsewhere

\* While the volumes of one add-on are moved, the data of the others stays where it is.
LEMMA DataOfOthers ==
    ASSUME DataInv, CoreInv, UNCHANGED <<manifest, todo, interrupted>>, "data" \notin interrupted,
           Head1 \in AddOns,
           \A q \in Projects, w \in VolumeNames :
               q \notin {Old(Head1), New(Head1)} => volume'[q][w] = volume[q][w]
    PROVE  /\ Head1' = Head1 /\ Installed' = Installed
           /\ \A a \in Installed : a # Head1 => \A v \in VolumesOf(a) : HasData(a, v)'
           /\ \A a \in AddOns : a # Head1 => Whole(a)'
PROOF
  <1>1. Head1' = Head1
    BY DEF Head1
  <1>2. Installed' = Installed
    BY SameManifests DEF CoreInv
  <1>3. ASSUME NEW a \in AddOns, a # Head1, NEW v \in VolumesOf(a)
        PROVE  volume'[Old(a)][v] = volume[Old(a)][v] /\ volume'[New(a)][v] = volume[New(a)][v]
    <2>1. v \in VolumeNames
      BY NamesOfVolumes
    <2>2. /\ Old(a) \in Projects /\ New(a) \in Projects
          /\ Old(a) \notin {Old(Head1), New(Head1)} /\ New(a) \notin {Old(Head1), New(Head1)}
      BY <1>3, ProjectNames
    <2> QED
      BY <2>1, <2>2
  <1>4. ASSUME NEW a \in Installed, a # Head1, NEW v \in VolumesOf(a) PROVE HasData(a, v)'
    <2>1. HasData(a, v)
      BY DEF DataInv
    <2>2. a \in AddOns
      BY InstalledAddOns
    <2> QED
      BY <1>3, <1>4, <2>1, <2>2 DEF HasData
  <1>5. ASSUME NEW a \in AddOns, a # Head1 PROVE Whole(a)'
    <2>1. Whole(a)
      BY <1>5 DEF DataInv
    <2> QED
      BY <1>3, <1>5, <2>1 DEF Whole, OldHave
  <1> QED
    BY <1>1, <1>2, <1>4, <1>5

\* What the invariant says in the loop, and what is enough to go on with it.
LEMMA DataInLoop ==
    ASSUME DataInv, CoreInv, UNCHANGED <<manifest, todo, interrupted>>, pc' \in MadeLabels,
           Head1 \in AddOns,
           \A q \in Projects, w \in VolumeNames :
               q \notin {Old(Head1), New(Head1)} => volume'[q][w] = volume[q][w],
           "data" \notin interrupted =>
               /\ \A v \in VolumesOf(Head1) :
                    \/ volume'[Old(Head1)][v] = "data" \/ volume'[New(Head1)][v] = "data"
                    \/ pc' \in {"clear_new", "copy"} /\ cache' = <<v, "data">>
               /\ pc' = "inspect" => \/ \A v \in VolumesOf(Head1) :
                                          IF v \in vols' THEN volume'[Old(Head1)][v] = "data"
                                          ELSE volume'[New(Head1)][v] = "data"
                                     \/ \A v \in VolumesOf(Head1) : volume'[Old(Head1)][v] = "absent"
               /\ pc' \in CopyLabels =>
                    /\ cache'[2] = "data"
                    /\ \A v \in VolumesOf(Head1) \ {cache'[1]} :
                          IF v \in vols' THEN volume'[Old(Head1)][v] = "data"
                          ELSE volume'[New(Head1)][v] = "data"
               /\ pc' = "remove_volumes" => \A v \in VolumesOf(Head1) :
                          IF v \in vols' THEN volume'[Old(Head1)][v] = "data"
                          ELSE volume'[New(Head1)][v] = "data"
               /\ pc' = "push" => \/ \A v \in VolumesOf(Head1) : volume'[Old(Head1)][v] = "data"
                                  \/ \A v \in VolumesOf(Head1) : volume'[Old(Head1)][v] = "absent"
    PROVE  DataInv'
PROOF
  <1>1. SUFFICES ASSUME "data" \notin interrupted PROVE DataInv'
    BY DEF DataInv
  <1>2. /\ Head1' = Head1 /\ Installed' = Installed
        /\ \A a \in Installed : a # Head1 => \A v \in VolumesOf(a) : HasData(a, v)'
        /\ \A a \in AddOns : a # Head1 => Whole(a)'
    BY <1>1, DataOfOthers
  <1>3. \A v \in VolumesOf(Head1) : HasData(Head1, v)'
    BY <1>1, <1>2 DEF HasData
  <1>4. pc' = "inspect" => MovedBut(Head1, {})' \/ OldHave(Head1, "absent")'
    BY <1>1, <1>2 DEF MovedBut, OldHave
  <1>5. pc' \in CopyLabels => cache'[2] = "data" /\ MovedBut(Head1, {cache[1]})'
    BY <1>1, <1>2 DEF MovedBut
  <1>6. pc' = "remove_volumes" => MovedBut(Head1, {})'
    BY <1>1, <1>2 DEF MovedBut
  <1>7. pc' = "push" => Whole(Head1)'
    BY <1>1, <1>2 DEF Whole, OldHave
  <1>8. \A a \in Installed' : \A v \in VolumesOf(a) : HasData(a, v)'
    BY <1>2, <1>3
  <1>9. \A a \in AddOns : Whole(a)' \/ (pc' \in MadeLabels /\ a = Head1')
    BY <1>2
  <1> QED
    BY <1>4, <1>5, <1>6, <1>7, <1>8, <1>9 DEF DataInv

\* Creating the stack overwrites no data: docker fills volumes that are new or empty.
LEMMA CreateStackData ==
    ASSUME DataInv, VolumeInv, CoreInv, CreateStackWithoutStart
    PROVE  DataInv'
PROOF
  <1>1. /\ pc = "create_stack" /\ UNCHANGED <<manifest, todo, interrupted, vols>>
        /\ pc' = IF vols = {} THEN "remove_volumes" ELSE "inspect"
    BY DEF CreateStackWithoutStart, Goto, locals
  <1>2. Head1 \in AddOns /\ Head1 \in Installed /\ vols = VolumesOf(Head1)
    BY <1>1, HeadWhenGone DEF FetchLabels, CoreInv, MigratedInv
  <1>3. \A q \in Projects, w \in VolumeNames :
          volume'[q][w] = IF q = New(Head1) /\ w \in VolumesOf(Head1) /\ volume[q][w] \in {"absent", "empty"}
                          THEN "image" ELSE volume[q][w]
    BY CreatedVolumes
  <1>4. Old(Head1) \in Projects /\ New(Head1) \in Projects /\ (Old(Head1) = New(Head1) <=> Head1 \in SameName)
    BY <1>2, ProjectNames
  <1>5. VolumesOf(Head1) \subseteq VolumeNames
    BY <1>2, NamesOfVolumes
  <1>6. ASSUME "data" \notin interrupted
        PROVE  /\ \A v \in VolumesOf(Head1) :
                    volume'[Old(Head1)][v] = "data" \/ volume'[New(Head1)][v] = "data"
               /\ \/ \A v \in VolumesOf(Head1) : volume'[Old(Head1)][v] = "data"
                  \/ \A v \in VolumesOf(Head1) : volume'[Old(Head1)][v] = "absent"
    <2>1. Whole(Head1)
      BY <1>1, <1>2, <1>6 DEF DataInv, MadeLabels, GoneLabels
    <2>2. \A v \in VolumesOf(Head1) : volume[Old(Head1)][v] = "data" \/ volume[New(Head1)][v] = "data"
      BY <1>1, <1>2, <1>6 DEF DataInv, HasData
    <2>3. \A v \in VolumesOf(Head1) : volume'[Old(Head1)][v] = volume[Old(Head1)][v]
      BY <1>3, <1>4, <1>5, <2>2
    <2>4. \A v \in VolumesOf(Head1) : volume'[Old(Head1)][v] = "data" \/ volume'[New(Head1)][v] = "data"
      BY <1>3, <1>4, <1>5, <2>2
    <2> QED
      BY <2>1, <2>3, <2>4 DEF Whole, OldHave
  <1>7. \A q \in Projects, w \in VolumeNames :
          q \notin {Old(Head1), New(Head1)} => volume'[q][w] = volume[q][w]
    BY <1>3
  <1> QED
    BY <1>1, <1>2, <1>6, <1>7, DataInLoop DEF CopyLabels, MadeLabels, GoneLabels

\* A volume that is there has its data, which is then in the cache as well.
LEMMA InspectData ==
    ASSUME DataInv, VolumeInv, CoreInv, NEW v \in VolumeNames, InspectVolumes(v)
    PROVE  DataInv'
PROOF
  <1>1. /\ pc = "inspect" /\ v \in vols /\ volume[Old(Head1)][v] # "absent" /\ pc' = "clear_old"
        /\ cache' = <<v, volume[Old(Head1)][v]>>
        /\ UNCHANGED <<manifest, todo, interrupted, vols, volume>>
    BY DEF InspectVolumes, Goto, disk
  <1>2. Head1 \in AddOns /\ Head1 \in Installed
    BY <1>1, HeadWhenGone DEF FetchLabels
  <1>3. v \in VolumesOf(Head1)
    BY <1>1 DEF VolumeInv, FetchLabels
  <1>4. ASSUME "data" \notin interrupted
        PROVE  /\ cache'[2] = "data" /\ cache'[1] = v
               /\ \A w \in VolumesOf(Head1) : IF w \in vols THEN volume[Old(Head1)][w] = "data"
                                              ELSE volume[New(Head1)][w] = "data"
    BY <1>1, <1>3, <1>4 DEF DataInv, MovedBut, OldHave
  <1>5. "data" \notin interrupted =>
          \A w \in VolumesOf(Head1) : volume[Old(Head1)][w] = "data" \/ volume[New(Head1)][w] = "data"
    BY <1>4
  <1> QED
    BY <1>1, <1>2, <1>4, <1>5, DataInLoop DEF CopyLabels, MadeLabels, GoneLabels

\* The volume at hand is cleared in both projects while its data is in the cache.
LEMMA ClearData ==
    ASSUME DataInv, VolumeInv, CoreInv, RemoveContentOfOld \/ RemoveContentOfNew
    PROVE  DataInv'
PROOF
  <1>1. PICK p \in {Old(Head1), New(Head1)} : SetVolume(p, "empty")
    BY DEF RemoveContentOfOld, RemoveContentOfNew
  <1>2. /\ pc \in CopyLabels /\ pc' \in {"clear_new", "copy"}
        /\ UNCHANGED <<manifest, todo, interrupted, vols, cache>>
    BY DEF RemoveContentOfOld, RemoveContentOfNew, locals, CopyLabels, Goto
  <1>3. Head1 \in AddOns /\ Head1 \in Installed
    BY <1>2, HeadWhenGone DEF FetchLabels, CopyLabels
  <1>4. \A q \in Projects, w \in VolumeNames :
             volume'[q][w] = IF q = p /\ w = cache[1] THEN "empty" ELSE volume[q][w]
    BY <1>1, <1>2, SetVolumeVolume
  <1>5. Old(Head1) \in Projects /\ New(Head1) \in Projects /\ VolumesOf(Head1) \subseteq VolumeNames
    BY <1>3, ProjectNames, NamesOfVolumes
  <1>6. cache = <<cache[1], cache[2]>>
    BY <1>2 DEF VolumeInv
  <1>7. ASSUME "data" \notin interrupted
        PROVE  /\ cache[2] = "data"
               /\ \A w \in VolumesOf(Head1) \ {cache[1]} :
                     IF w \in vols THEN volume'[Old(Head1)][w] = "data" ELSE volume'[New(Head1)][w] = "data"
    BY <1>2, <1>4, <1>5, <1>7 DEF DataInv, MovedBut
  <1>8. "data" \notin interrupted =>
          \A w \in VolumesOf(Head1) : \/ volume'[Old(Head1)][w] = "data" \/ volume'[New(Head1)][w] = "data"
                                      \/ cache' = <<w, "data">>
    BY <1>2, <1>6, <1>7
  <1>9. \A q \in Projects, w \in VolumeNames :
          q \notin {Old(Head1), New(Head1)} => volume'[q][w] = volume[q][w]
    BY <1>4
  <1> QED
    BY <1>2, <1>3, <1>7, <1>8, <1>9, DataInLoop DEF CopyLabels, MadeLabels, GoneLabels

\* The data of the cache is written to the new volume.
LEMMA CopyData ==
    ASSUME DataInv, VolumeInv, CoreInv, CopyFromCache
    PROVE  DataInv'
PROOF
  <1>1. /\ pc = "copy" /\ SetVolume(New(Head1), cache[2]) /\ vols' = vols \ {cache[1]}
        /\ pc' \in {"remove_volumes", "inspect"}
        /\ UNCHANGED <<manifest, todo, interrupted>>
    BY DEF CopyFromCache, Goto
  <1>2. pc \in CopyLabels
    BY <1>1 DEF CopyLabels
  <1>3. Head1 \in AddOns /\ Head1 \in Installed
    BY <1>1, HeadWhenGone DEF FetchLabels
  <1>4. \A q \in Projects, w \in VolumeNames :
             volume'[q][w] = IF q = New(Head1) /\ w = cache[1] THEN cache[2] ELSE volume[q][w]
    BY <1>1, <1>2, SetVolumeVolume
  <1>5. Old(Head1) \in Projects /\ New(Head1) \in Projects /\ VolumesOf(Head1) \subseteq VolumeNames
    BY <1>3, ProjectNames, NamesOfVolumes
  <1>6. ASSUME "data" \notin interrupted
        PROVE  \A w \in VolumesOf(Head1) :
                   IF w \in vols' THEN volume'[Old(Head1)][w] = "data" ELSE volume'[New(Head1)][w] = "data"
    <2>1. cache[2] = "data" /\ MovedBut(Head1, {cache[1]})
      BY <1>2, <1>6 DEF DataInv
    <2> QED
      BY <1>1, <1>4, <1>5, <2>1 DEF MovedBut
  <1>7. \A q \in Projects, w \in VolumeNames :
          q \notin {Old(Head1), New(Head1)} => volume'[q][w] = volume[q][w]
    BY <1>4
  <1> QED
    BY <1>1, <1>3, <1>6, <1>7, DataInLoop DEF CopyLabels, MadeLabels, GoneLabels

\* Only volumes whose data has been moved are removed: an old stack that still exists is the
\* new one, under the same name.
LEMMA RemoveVolumesData ==
    ASSUME DataInv, VolumeInv, StackInv, CoreInv, RemoveUnusedVolumes
    PROVE  DataInv'
PROOF
  <1>1. pc = "remove_volumes" /\ pc' = "push" /\ UNCHANGED <<manifest, todo, interrupted>>
    BY DEF RemoveUnusedVolumes, Goto, locals
  <1>2. Head1 \in AddOns /\ Head1 \in Installed
    BY <1>1, HeadWhenGone DEF FetchLabels
  <1>3. \A q \in Projects, w \in VolumeNames :
             volume'[q][w] = IF ~ stack[Old(Head1)].exists /\ q = Old(Head1) /\ w \in VolumesOf(Head1)
                             THEN "absent" ELSE volume[q][w]
    BY RemovedVolumes
  <1>4. /\ Old(Head1) \in Projects /\ New(Head1) \in Projects /\ VolumesOf(Head1) \subseteq VolumeNames
        /\ (Old(Head1) = New(Head1) <=> Head1 \in SameName)
    BY <1>2, ProjectNames, NamesOfVolumes
  <1>5. Head1 \in SameName <=> stack[Old(Head1)].exists
    <2>1. Head1 \notin portainer
      BY <1>1 DEF CoreInv, PortainerInv, GoneLabels
    <2>2. Attached(Head1, stack[New(Head1)])
      BY <1>1 DEF StackInv, MadeLabels, GoneLabels
    <2>3. Head1 \notin SameName /\ stack[Old(Head1)].exists => Head1 \in portainer
      BY <1>2 DEF StackInv
    <2> QED
      BY <1>4, <2>1, <2>2, <2>3 DEF Attached
  <1>6. ASSUME "data" \notin interrupted
        PROVE  /\ \A v \in VolumesOf(Head1) : volume'[New(Head1)][v] = "data"
               /\ \/ \A v \in VolumesOf(Head1) : volume'[Old(Head1)][v] = "data"
                  \/ \A v \in VolumesOf(Head1) : volume'[Old(Head1)][v] = "absent"
    <2>1. \A v \in VolumesOf(Head1) : volume[New(Head1)][v] = "data"
      BY <1>1, <1>6 DEF DataInv, MovedBut, VolumeInv
    <2>2. \A v \in VolumesOf(Head1) : volume'[New(Head1)][v] = "data"
      BY <1>3, <1>4, <1>5, <2>1
    <2> QED
      BY <1>3, <1>4, <1>5, <2>2
  <1>7. \A q \in Projects, w \in VolumeNames :
          q \notin {Old(Head1), New(Head1)} => volume'[q][w] = volume[q][w]
    BY <1>3
  <1> QED
    BY <1>1, <1>2, <1>6, <1>7, DataInLoop DEF CopyLabels, MadeLabels, GoneLabels

\* The loop over volumes is left, between two volumes or after the last one.
LEMMA DataAfterLoop ==
    ASSUME DataInv, pc \in MadeLabels \ CopyLabels, pc' \notin MadeLabels, volume' = volume,
           Installed' = Installed, interrupted \subseteq interrupted',
           "data" \notin interrupted' => Whole(Head1)
    PROVE  DataInv'
PROOF
  <1> SUFFICES ASSUME "data" \notin interrupted'
               PROVE  /\ \A a \in Installed' : \A v \in VolumesOf(a) : HasData(a, v)'
                      /\ \A a \in AddOns : Whole(a)'
    BY DEF DataInv, CopyLabels, MadeLabels, GoneLabels
  <1>1. \A a \in Installed : \A v \in VolumesOf(a) :
           volume[Old(a)][v] = "data" \/ volume[New(a)][v] = "data"
    BY DEF DataInv, HasData, MadeLabels, GoneLabels, CopyLabels
  <1>2. \A a \in AddOns : Whole(a)
    BY DEF DataInv
  <1> QED
    BY <1>1, <1>2 DEF HasData, Whole, OldHave

\* A manifest is replaced when the old volumes are gone, or are the new ones.
LEMMA PushManifestData ==
    ASSUME DataInv, CoreInv, PushManifest
    PROVE  DataInv'
PROOF
  <1>1. pc = "push" /\ pc' \notin MadeLabels /\ UNCHANGED <<volume, interrupted>>
    BY DEF PushManifest, Loop, MadeLabels, GoneLabels
  <1>2. "data" \notin interrupted => Whole(Head1)
    BY <1>1 DEF DataInv
  <1> QED
    BY <1>1, <1>2, Pushed, DataAfterLoop DEF MadeLabels, GoneLabels, CopyLabels

\* A volume that is not there: then none is, and none has been cleared.
LEMMA InspectFailsData ==
    ASSUME DataInv, VolumeInv, CoreInv, NEW v \in VolumeNames, InspectFails(v)
    PROVE  DataInv'
PROOF
  <1>1. /\ pc = "inspect" /\ v \in vols /\ volume[Old(Head1)][v] = "absent"
        /\ pc' \notin MadeLabels /\ UNCHANGED <<manifest, volume, interrupted>>
    BY DEF InspectFails, Goto, disk, MadeLabels, GoneLabels
  <1>2. v \in VolumesOf(Head1)
    BY <1>1 DEF VolumeInv, FetchLabels
  <1>3. "data" \notin interrupted => Whole(Head1)
    BY <1>1, <1>2 DEF DataInv, MovedBut, Whole
  <1>4. Installed' = Installed
    BY <1>1, SameManifests DEF CoreInv
  <1> QED
    BY <1>1, <1>3, <1>4, DataAfterLoop DEF MadeLabels, GoneLabels, CopyLabels

\* When the process ends and data was not at stake, all of it is in volumes.
LEMMA DieData ==
    ASSUME DataInv, VolumeInv, CoreInv, NEW reboot \in BOOLEAN, Die(reboot)
    PROVE  DataInv'
PROOF
  <1>1. /\ pc' \notin MadeLabels /\ manifest' = manifest /\ interrupted' = interrupted \cup AtStake
    BY DEF Die, Goto, MadeLabels, GoneLabels
  <1>2. Installed' = Installed
    BY <1>1, SameManifests DEF CoreInv
  <1>3. pc \notin CopyLabels => volume' = volume
    BY DiedVolumes
  <1>4. CASE pc \notin MadeLabels
    BY <1>1, <1>2, <1>3, <1>4, DataElsewhere DEF MadeLabels, GoneLabels, CopyLabels
  <1>5. CASE pc \in MadeLabels
    <2>1. version = "0.3.2" /\ Head1 \in AddOns
      BY <1>5, HeadWhenGone DEF CoreInv, VersionInv, MadeLabels, GoneLabels, FetchLabels
    <2>2. CASE pc \in CopyLabels
      <3>1. "data" \in AtStake
        BY <2>1, <2>2 DEF AtStake, CopyLabels
      <3> QED
        BY <1>1, <3>1 DEF DataInv
    <2>3. ASSUME pc \notin CopyLabels, "data" \notin interrupted' PROVE Whole(Head1)
      <3>1. CASE Head1 \notin SameName
        <4>1. \A v \in VolumesOf(Head1) : volume[Old(Head1)][v] = "data"
          BY <1>1, <2>1, <2>3, <3>1 DEF AtStake
        <4> QED
          BY <4>1 DEF Whole, OldHave
      <3>2. CASE Head1 \in SameName
        <4>1. Old(Head1) = New(Head1)
          BY <2>1, <3>2, ProjectNames
        <4>2. \/ MovedBut(Head1, {}) \/ Whole(Head1)
          BY <1>1, <1>5, <2>3 DEF DataInv, MadeLabels, GoneLabels, CopyLabels, Whole
        <4> QED
          BY <4>1, <4>2 DEF MovedBut, Whole, OldHave
      <3> QED
        BY <3>1, <3>2
    <2>4. CASE pc \notin CopyLabels
      BY <1>1, <1>2, <1>3, <1>5, <2>3, <2>4, DataAfterLoop
    <2> QED
      BY <2>2, <2>4
  <1> QED
    BY <1>4, <1>5

\* A drop-in has data of its own.
LEMMA InstallDropInsData ==
    ASSUME DataInv, VolumeInv, CoreInv, InstallDropIns
    PROVE  DataInv'
PROOF
  <1>1. /\ pc \notin MadeLabels /\ pc' \notin MadeLabels /\ UNCHANGED interrupted
        /\ UNCHANGED disk \/ \E a \in AddOns : DropsIn(a)
    BY InstallDropInsCases DEF MadeLabels, GoneLabels
  <1>2. CASE UNCHANGED disk
    BY <1>1, <1>2, SameManifests, DataElsewhere DEF disk, CoreInv
  <1>3. ASSUME NEW a \in AddOns, DropsIn(a) PROVE DataInv'
    <2>1. Installed' = Installed \cup {a}
      BY <1>3, DropInManifests DEF CoreInv
    <2>2. \A q \in Projects, w \in VolumeNames :
                volume'[q][w] = IF q = New(a) /\ w \in VolumesOf(a) THEN "data" ELSE volume[q][w]
      BY <1>3, DropInVolumes
    <2>3. SUFFICES ASSUME "data" \notin interrupted
                   PROVE  /\ \A b \in Installed' : \A v \in VolumesOf(b) :
                                volume'[Old(b)][v] = "data" \/ volume'[New(b)][v] = "data"
                          /\ \A b \in AddOns : \/ \A v \in VolumesOf(b) : volume'[Old(b)][v] = "data"
                                               \/ \A v \in VolumesOf(b) : volume'[Old(b)][v] = "absent"
      BY <1>1 DEF DataInv, CopyLabels, MadeLabels, GoneLabels, HasData, Whole, OldHave
    <2>4. \A b \in Installed : \A v \in VolumesOf(b) :
           volume[Old(b)][v] = "data" \/ volume[New(b)][v] = "data"
      BY <1>1, <2>3 DEF DataInv, HasData, MadeLabels, GoneLabels
    <2>5. \A b \in AddOns : \/ \A v \in VolumesOf(b) : volume[Old(b)][v] = "data"
                            \/ \A v \in VolumesOf(b) : volume[Old(b)][v] = "absent"
      BY <1>1, <2>3 DEF DataInv, Whole, OldHave
    <2>6. ASSUME NEW b \in AddOns, b # a, NEW v \in VolumesOf(b)
          PROVE  volume'[Old(b)][v] = volume[Old(b)][v] /\ volume'[New(b)][v] = volume[New(b)][v]
      <3>1. /\ Old(b) # New(a) /\ New(b) # New(a) /\ Old(b) \in Projects /\ New(b) \in Projects
            /\ v \in VolumeNames
        BY <2>6, ProjectNames, NamesOfVolumes
      <3> QED
        BY <2>2, <3>1
    <2>7. ASSUME NEW v \in VolumesOf(a)
          PROVE  /\ volume'[New(a)][v] = "data"
                 /\ volume'[Old(a)][v] = IF Old(a) = New(a) THEN "data" ELSE volume[Old(a)][v]
      <3>1. Old(a) \in Projects /\ New(a) \in Projects /\ v \in VolumeNames
        BY ProjectNames, NamesOfVolumes
      <3> QED
        BY <2>2, <3>1
    <2>8. \A b \in Installed' : \A v \in VolumesOf(b) :
                volume'[Old(b)][v] = "data" \/ volume'[New(b)][v] = "data"
      BY <2>1, <2>4, <2>6, <2>7, InstalledAddOns
    <2>9. ASSUME NEW b \in AddOns
          PROVE  \/ \A v \in VolumesOf(b) : volume'[Old(b)][v] = "data"
                 \/ \A v \in VolumesOf(b) : volume'[Old(b)][v] = "absent"
      <3>1. CASE b # a
        BY <2>5, <2>6, <3>1
      <3>2. CASE b = a
        BY <2>5, <2>7, <3>2
      <3> QED
        BY <3>1, <3>2
    <2> QED
      BY <2>8, <2>9
  <1> QED
    BY <1>1, <1>2, <1>3

\* An installed add-on had its containers, by portainer or by compose, and so its data.
LEMMA InitData == Init => DataInv
PROOF
  <1> SUFFICES ASSUME Init PROVE DataInv
    OBVIOUS
  <1>1. /\ pc = "down"
        /\ \A a \in AddOns : \A v \in VolumesOf(a) :
                /\ volume[Old(a)][v] = IF stack[Old(a)].exists THEN "data" ELSE "absent"
                /\ volume[New(a)][v] = IF stack[New(a)].exists THEN "data" ELSE "absent"
    BY InitVolumes
  <1>2. release \in {"none", "0.5.2", "newer"}
    BY DEF Init
  <1>3. AllMigrated \/ portainer = AddOns
    BY <1>2, InitCore DEF CoreInv, ReleaseInv
  <1>4. ASSUME NEW a \in Installed PROVE stack[Old(a)].exists \/ stack[New(a)].exists
    <2>1. a \in AddOns
      BY InstalledAddOns
    <2>2. CASE AllMigrated
      BY <2>1, <2>2, InitStack DEF StackInv, AllMigrated, Attached
    <2>3. CASE portainer = AddOns
      BY <2>1, <2>3, InitStack DEF StackInv, KeepsUser
    <2> QED
      BY <1>3, <2>2, <2>3
  <1>5. \A a \in Installed : \A v \in VolumesOf(a) : HasData(a, v)
    BY <1>1, <1>4, InstalledAddOns DEF HasData
  <1>6. \A a \in AddOns : Whole(a)
    BY <1>1 DEF Whole, OldHave
  <1> QED
    BY <1>1, <1>5, <1>6 DEF DataInv, CopyLabels

\* Every step keeps the data, unless it ends the process while data is at stake.
LEMMA NextData ==
    ASSUME DataInv, VolumeInv, StackInv, CoreInv, [Next]_vars
    PROVE  DataInv'
PROOF
  <1>1. CASE UNCHANGED vars
    <2>1. UNCHANGED <<manifest, interrupted, volume, vols, pc, todo, cache>>
      BY <1>1 DEF vars, bootVars, disk, locals
    <2>2. Head1' = Head1
      BY <2>1 DEF Head1
    <2>3. Installed' = Installed
      BY <2>1, SameManifests DEF CoreInv
    <2> QED
      BY <2>1, <2>2, <2>3 DEF DataInv, HasData, Whole, OldHave, MovedBut
  <1>2. CASE MigrationNext \/ UpdateVersionFails
    BY <1>2, MigrationData, CreateStackData, InspectData, InspectFailsData, ClearData, CopyData,
       RemoveVolumesData, PushManifestData DEF MigrationNext
  <1>3. CASE InstallDropIns \/ \E reboot \in BOOLEAN : Die(reboot)
    BY <1>3, InstallDropInsData, DieData
  <1>4. CASE /\ Next /\ ~ MigrationNext /\ ~ UpdateVersionFails /\ ~ InstallDropIns
             /\ ~ \E reboot \in BOOLEAN : Die(reboot)
    BY <1>4, StartupData DEF Next, Step
  <1> QED
    BY <1>1, <1>2, <1>3, <1>4

\* The volumes and the data in them are as the invariant says at every step of every start.
THEOREM VolumesAlways == Spec => [](VolumeInv /\ DataInv)
PROOF
  <1>1. Init => VolumeInv /\ DataInv
    BY InitVolumes, InitData
  <1>2. CoreInv /\ (StackInv /\ ServingInv) /\ (VolumeInv /\ DataInv) /\ [Next]_vars => (VolumeInv /\ DataInv)'
    BY NextVolume, NextData
  <1> QED
    BY <1>1, <1>2, CoreAlways, StacksAlways, PTL DEF Spec

\* The data of every volume of an add-on stays in the old volume, the new one or the cache, as long
\* as no start ends while data is at stake (migratePortainerVolumeData, RemoveUnusedVolumes).
THEOREM Data == Spec => []DataKept
PROOF
  <1>1. VolumeInv /\ DataInv => DataKept
    BY DEF DataInv, DataKept
  <1> QED
    BY <1>1, VolumesAlways, PTL

--------------------------------------------------------------------------------
\* The values of the user

\* Containers keep the values of the user when they are stopped, reconnected or started.
LEMMA AlikeKeeps ==
    ASSUME NEW a \in AddOns, NEW c, NEW d, Alike(c, d), KeepsUser(a, c)
    PROVE  KeepsUser(a, d)
PROOF
  <1>1. d.exists = c.exists /\ d.services = c.services /\ c.exists
    BY DEF Alike, KeepsUser
  <1> QED
    BY <1>1 DEF KeepsUser

\* So do all containers in a step that replaces none.
LEMMA AlikeStacksKeep ==
    ASSUME AlikeStacks
    PROVE  \A a \in AddOns : KeepsUser(a, stack[New(a)]) => KeepsUser(a, stack'[New(a)])
PROOF
  BY AlikeKeeps, ProjectNames DEF AlikeStacks

\* Steps outside of the loop that migrates.
LEMMA SettingsElsewhere ==
    ASSUME SettingsInv, CoreInv, UNCHANGED <<manifest, portainer>>, interrupted \subseteq interrupted',
           pc' \notin FetchLabels,
           \A a \in AddOns : KeepsUser(a, stack[New(a)]) => KeepsUser(a, stack'[New(a)]),
           \A q \in Projects, w \in VolumeNames : volume'[q][w] = "absent" => volume[q][w] = "absent",
           Undisturbed /\ Undisturbed' =>
             /\ (pc' = "record" /\ version' = "0.3.2") \/ release' = "0.3.2" => net' /\ AddOns # {}
             /\ pc' = "record" /\ version' = "0.3.2" => portainer = AddOns
             /\ release' = "0.3.2" /\ pc' \notin MovingLabels => portainer = AddOns
    PROVE  SettingsInv'
PROOF
  <1>1. SUFFICES ASSUME Undisturbed' PROVE SettingsInv'
    BY DEF SettingsInv
  <1>2. Undisturbed
    BY <1>1 DEF Undisturbed
  <1>3. \A a \in portainer : \A v \in VolumesOf(a) : volume'[Old(a)][v] # "absent"
    <2> TAKE a \in portainer
    <2> TAKE v \in VolumesOf(a)
    <2>1. a \in AddOns
      BY DEF CoreInv, PortainerInv
    <2>2. Old(a) \in Projects /\ v \in VolumeNames
      BY <2>1, ProjectNames, NamesOfVolumes
    <2>3. volume[Old(a)][v] # "absent"
      BY <1>2 DEF SettingsInv
    <2> QED
      BY <2>2, <2>3
  <1>4. \A a \in AddOns : IsMigrated(a)' => KeepsUser(a, stack'[New(a)])
    <2>1. \A a \in AddOns : IsMigrated(a)' = IsMigrated(a)
      BY SameManifests DEF CoreInv
    <2> QED
      BY <1>2, <2>1 DEF SettingsInv
  <1>5. /\ pc' \notin {"create_stack", "inspect", "clear_old", "clear_new", "copy"}
        /\ pc' \notin {"fetch", "connect", "delete_stack"}
        /\ pc' \notin {"connect", "delete_stack", "create_stack"}
        /\ pc' \notin MadeLabels
    BY DEF FetchLabels, MadeLabels, GoneLabels
  <1> QED
    BY <1>1, <1>2, <1>3, <1>4, <1>5 DEF SettingsInv

\* Once all is migrated, release 0.3.2 is behind, unless a start was interrupted.
LEMMA AfterRelease ==
    ASSUME SettingsInv, CoreInv, pc \in AfterLabels, Undisturbed
    PROVE  release # "0.3.2"
PROOF
  <1>1. SUFFICES ASSUME release = "0.3.2" PROVE FALSE
    OBVIOUS
  <1>2. portainer = AddOns /\ AddOns # {}
    BY <1>1 DEF SettingsInv, MovingLabels, FetchLabels, RouteLabels, AfterLabels
  <1>3. PICK a \in AddOns : manifest[a].manifestVersion = "0.1"
    BY <1>2 DEF CoreInv, PortainerInv
  <1>4. a \in Installed /\ ~ IsMigrated(a)
    BY <1>3, ManifestsOnDisk DEF CoreInv
  <1>5. AllMigrated
    BY DEF CoreInv, LoopInv
  <1> QED
    BY <1>4, <1>5 DEF AllMigrated

\* Steps of the start.
LEMMA StartupSettings ==
    ASSUME SettingsInv, StackInv, CoreInv,
           \/ Boot \/ Setup \/ GetRegistryCredentials \/ StopStack \/ StopStackFails
           \/ ServeVolumeDrivers \/ RemoveInternalBridge \/ CreateInternalBridge
           \/ Reconnect \/ ReconnectFails \/ Start \/ StartFails
           \/ \E reboot \in BOOLEAN : Restart(reboot)
    PROVE  SettingsInv'
PROOF
  <1>1. AlikeStacks /\ UNCHANGED <<manifest, portainer>>
    BY StartupAlike
  <1>2. /\ pc \notin MovingLabels /\ pc' \notin MovingLabels /\ pc' # "record" /\ pc' \notin FetchLabels
        /\ UNCHANGED <<release, volume, interrupted>>
        /\ pc \in AfterLabels \/ net' = net
    <2>1. CASE Boot \/ Setup \/ ServeVolumeDrivers \/ RemoveInternalBridge
      BY <2>1 DEF Boot, Setup, ServeVolumeDrivers, RemoveInternalBridge, disk, Goto, MovingLabels,
         FetchLabels, RouteLabels, AfterLabels
    <2>2. CASE GetRegistryCredentials \/ StopStack \/ StopStackFails \/ CreateInternalBridge
      BY <2>2 DEF GetRegistryCredentials, StopStack, StopStackFails, CreateInternalBridge, disk,
         Loop, Enter, MovingLabels, FetchLabels, RouteLabels, AfterLabels
    <2>3. CASE Reconnect \/ ReconnectFails \/ Start \/ StartFails
      BY <2>3 DEF Reconnect, ReconnectFails, Start, StartFails, disk, Loop, MovingLabels,
         FetchLabels, RouteLabels, AfterLabels
    <2>4. CASE \E reboot \in BOOLEAN : Restart(reboot)
      BY <2>4 DEF Restart, Goto, MovingLabels, FetchLabels, RouteLabels, AfterLabels
    <2> QED
      BY <2>1, <2>2, <2>3, <2>4
  <1>3. \A a \in AddOns : KeepsUser(a, stack[New(a)]) => KeepsUser(a, stack'[New(a)])
    BY <1>1, AlikeStacksKeep
  <1>4. ASSUME Undisturbed PROVE release = "0.3.2" => net' /\ AddOns # {} /\ portainer = AddOns
    <2>1. CASE pc \in AfterLabels
      BY <1>4, <2>1, AfterRelease
    <2>2. CASE pc \notin AfterLabels
      <3>1. release = "0.3.2" => net /\ AddOns # {} /\ portainer = AddOns
        BY <1>2, <1>4 DEF SettingsInv
      <3>2. net' = net
        BY <1>2, <2>2
      <3> QED
        BY <3>1, <3>2
    <2> QED
      BY <2>1, <2>2
  <1> QED
    BY <1>1, <1>2, <1>3, <1>4, SettingsElsewhere

\* The end of the process, unless settings were at stake.
LEMMA DieSettings ==
    ASSUME SettingsInv, VolumeInv, StackInv, CoreInv, NEW reboot \in BOOLEAN, Die(reboot)
    PROVE  SettingsInv'
PROOF
  <1>1. AlikeStacks /\ UNCHANGED <<manifest, portainer>>
    BY StartupAlike
  <1>2. /\ pc' = "down" /\ UNCHANGED <<release, net>> /\ interrupted' = interrupted \cup AtStake
    BY DEF Die, Goto
  <1>3. \A a \in AddOns : KeepsUser(a, stack[New(a)]) => KeepsUser(a, stack'[New(a)])
    BY <1>1, AlikeStacksKeep
  <1>4. ASSUME Undisturbed, Undisturbed', release = "0.3.2"
        PROVE  net /\ AddOns # {} /\ portainer = AddOns
    <2>1. CASE pc \notin MovingLabels
      BY <1>4, <2>1 DEF SettingsInv
    <2>2. CASE pc \in MovingLabels
      <3>1. version = "0.3.2"
        BY <1>4, <2>2 DEF CoreInv, VersionInv, MovingLabels
      <3>2. "settings" \notin AtStake
        BY <1>2, <1>4 DEF Undisturbed
      <3>3. portainer = AddOns
        BY <3>1, <3>2 DEF AtStake
      <3> QED
        BY <1>4, <3>3 DEF SettingsInv
    <2> QED
      BY <2>1, <2>2
  <1>5. pc' \notin FetchLabels /\ pc' # "record"
    BY <1>2 DEF FetchLabels
  <1> QED
    BY <1>1, <1>2, <1>3, <1>4, <1>5, DiedVolumes, SettingsElsewhere

\* Migrating begins with the whole of what portainer knows.
LEMMA MigrateSettings ==
    ASSUME SettingsInv, StackInv, CoreInv, Migrate
    PROVE  SettingsInv'
PROOF
  <1>1. /\ pc = "dispatch" /\ UNCHANGED <<release, manifest, portainer, stack, volume, net, version, interrupted>>
        /\ version = release
    BY DEF Migrate, disk, CoreInv, VersionInv
  <1>2. AlikeStacks
    BY <1>1, SameAlike
  <1>3. \A a \in AddOns : KeepsUser(a, stack[New(a)]) => KeepsUser(a, stack'[New(a)])
    BY <1>2, AlikeStacksKeep
  <1>4. Undisturbed /\ release = "0.3.2" => net /\ AddOns # {} /\ portainer = AddOns
    BY <1>1 DEF SettingsInv, MovingLabels, FetchLabels, RouteLabels
  <1>5. CASE pc' \notin FetchLabels
    <2>1. pc' # "record" /\ (pc' \in MovingLabels \/ release # "0.3.2")
      BY <1>1 DEF Migrate, Goto, Enter, MovingLabels, FetchLabels, RouteLabels
    <2> QED
      BY <1>1, <1>3, <1>4, <1>5, <2>1, SettingsElsewhere
  <1>6. CASE pc' \in FetchLabels
    <2>1. pc' = "fetch" /\ todo' = Installed /\ Installed # {} /\ release = "0.3.2"
      BY <1>1, <1>6 DEF Migrate, Goto, Enter, FetchLabels
    <2>2. Head1' \in Installed /\ Rest' \subseteq Installed
      BY <2>1, FirstOfIn, InstalledAddOns DEF Head1, Rest
    <2>3. SUFFICES ASSUME Undisturbed' PROVE SettingsInv'
      BY DEF SettingsInv
    <2>4. Undisturbed
      BY <1>1, <2>3 DEF Undisturbed
    <2>5. Head1' \in portainer' /\ Rest' \subseteq portainer'
      BY <1>1, <1>4, <2>1, <2>2, <2>4, InstalledAddOns
    <2>6. \A a \in AddOns : IsMigrated(a)' => KeepsUser(a, stack'[New(a)])
      <3>1. \A a \in AddOns : IsMigrated(a)' = IsMigrated(a)
        BY <1>1, SameManifests DEF CoreInv
      <3> QED
        BY <1>3, <2>4, <3>1 DEF SettingsInv
    <2>7. \A a \in portainer' : \A v \in VolumesOf(a) : volume'[Old(a)][v] # "absent"
      BY <1>1, <2>4 DEF SettingsInv
    <2>8. /\ pc' # "record" /\ pc' \in MovingLabels /\ pc' \notin MadeLabels
          /\ pc' \notin {"create_stack", "inspect", "clear_old", "clear_new", "copy"}
          /\ pc' \notin {"connect", "delete_stack", "create_stack"}
      BY <2>1 DEF MovingLabels, FetchLabels, MadeLabels, GoneLabels
    <2>9. net' /\ AddOns # {}
      BY <1>1, <1>4, <2>1, <2>4
    <2> QED
      BY <2>5, <2>6, <2>7, <2>8, <2>9 DEF SettingsInv
  <1> QED
    BY <1>5, <1>6

\* Steps around the loop that migrates.
LEMMA VersionSettings ==
    ASSUME SettingsInv, StackInv, CoreInv,
           \/ ResolveVersion \/ RecordVersion \/ GetVersion \/ RefuseVersion
           \/ DeleteRoutes \/ CreateRoutes \/ TruncateRelease \/ UpdateVersion \/ UpdateVersionFails
    PROVE  SettingsInv'
PROOF
  <1>1. /\ UNCHANGED <<manifest, portainer, stack, volume, net>> /\ interrupted \subseteq interrupted'
        /\ pc' \notin FetchLabels
    <2>1. CASE ResolveVersion \/ RecordVersion \/ GetVersion \/ RefuseVersion
      BY <2>1 DEF ResolveVersion, RecordVersion, GetVersion, RefuseVersion, disk, Goto, FetchLabels
    <2>2. CASE DeleteRoutes \/ CreateRoutes \/ TruncateRelease \/ UpdateVersion \/ UpdateVersionFails
      BY <2>2 DEF DeleteRoutes, CreateRoutes, TruncateRelease, UpdateVersion, UpdateVersionFails,
         disk, Goto, Loop, FetchLabels
    <2> QED
      BY <2>1, <2>2
  <1>2. AlikeStacks
    BY <1>1, SameAlike
  <1>3. \A a \in AddOns : KeepsUser(a, stack[New(a)]) => KeepsUser(a, stack'[New(a)])
    BY <1>2, AlikeStacksKeep
  <1>4. ASSUME Undisturbed, Undisturbed'
        PROVE  /\ (pc' = "record" /\ version' = "0.3.2") \/ release' = "0.3.2" => net' /\ AddOns # {}
               /\ pc' = "record" /\ version' = "0.3.2" => portainer = AddOns
               /\ release' = "0.3.2" /\ pc' \notin MovingLabels => portainer = AddOns
    <2>1. CASE ResolveVersion
      <3>1. release = "none" /\ release' = "empty" /\ version' = ResolvedVersion
        BY <2>1 DEF ResolveVersion
      <3> QED
        BY <1>1, <3>1, Resolved
    <2>2. CASE RecordVersion
      <3>1. pc = "record" /\ release' = version /\ pc' = "dispatch"
        BY <2>2 DEF RecordVersion, Goto
      <3> QED
        BY <1>1, <1>4, <3>1 DEF SettingsInv
    <2>3. CASE GetVersion \/ RefuseVersion
      <3>1. pc \notin MovingLabels /\ release' = release /\ pc' # "record"
        BY <2>3 DEF GetVersion, RefuseVersion, disk, Goto, MovingLabels, FetchLabels, RouteLabels
      <3> QED
        BY <1>1, <1>4, <3>1 DEF SettingsInv
    <2>4. CASE DeleteRoutes \/ CreateRoutes
      <3>1. pc' \in MovingLabels /\ release' = release /\ pc' # "record"
        BY <2>4 DEF DeleteRoutes, CreateRoutes, Goto, Loop, MovingLabels, FetchLabels, RouteLabels
      <3> QED
        BY <1>1, <1>4, <3>1 DEF SettingsInv
    <2>5. CASE TruncateRelease \/ UpdateVersion
      BY <2>5 DEF TruncateRelease, UpdateVersion, Goto
    <2>6. CASE UpdateVersionFails
      <3>1. /\ pc \in {"finish", "written"} /\ release' = release /\ pc' # "record"
            /\ interrupted' = interrupted \cup AtStake
        BY <2>6 DEF UpdateVersionFails, disk, Goto
      <3>2. release = "0.3.2" => version = "0.3.2"
        BY <3>1 DEF CoreInv, VersionInv
      <3>3. "settings" \notin AtStake
        BY <1>4, <3>1 DEF Undisturbed
      <3>4. release = "0.3.2" => portainer = AddOns
        BY <3>2, <3>3 DEF AtStake
      <3> QED
        BY <1>1, <1>4, <3>1, <3>4 DEF SettingsInv
    <2> QED
      BY <2>1, <2>2, <2>3, <2>4, <2>5, <2>6
  <1> QED
    BY <1>1, <1>3, <1>4, SettingsElsewhere

\* Steps within the migration of one add-on.
LEMMA SettingsInLoop ==
    ASSUME SettingsInv, CoreInv, UNCHANGED <<manifest, todo, release, net, interrupted>>,
           pc \in FetchLabels, pc' \in FetchLabels, portainer \ {Head1} \subseteq portainer',
           Undisturbed =>
             /\ \A a \in portainer' : \A v \in VolumesOf(a) : volume'[Old(a)][v] # "absent"
             /\ \A a \in AddOns : IsMigrated(a) => KeepsUser(a, stack'[New(a)])
             /\ pc' \in {"create_stack", "inspect", "clear_old", "clear_new", "copy"} =>
                  \A v \in vols' : volume'[Old(Head1)][v] # "absent"
             /\ pc' \in {"fetch", "connect", "delete_stack"} => Head1 \in portainer'
             /\ pc' \in {"connect", "delete_stack", "create_stack"} =>
                  KeptIn(Head1, migrated'.settings)
             /\ pc' \in MadeLabels => KeepsUser(Head1, stack'[New(Head1)])
    PROVE  SettingsInv'
PROOF
  <1>1. SUFFICES ASSUME Undisturbed' PROVE SettingsInv'
    BY DEF SettingsInv
  <1>2. Undisturbed
    BY <1>1 DEF Undisturbed
  <1>3. Head1' = Head1 /\ Rest' = Rest
    BY DEF Head1, Rest
  <1>4. \A a \in AddOns : IsMigrated(a)' = IsMigrated(a)
    BY SameManifests DEF CoreInv
  <1>5. pc' # "record" /\ pc' \in MovingLabels
    BY DEF FetchLabels, MovingLabels
  <1>6. Rest' \subseteq portainer'
    <2>1. Rest \subseteq portainer
      BY <1>2 DEF SettingsInv
    <2> QED
      BY <1>3, <2>1 DEF Rest
  <1>7. \A a \in AddOns : IsMigrated(a)' => KeepsUser(a, stack'[New(a)])
    BY <1>2, <1>4
  <1>8. pc' \in MadeLabels => KeepsUser(Head1', stack'[New(Head1')])
    BY <1>2, <1>3
  <1>9. release' = "0.3.2" => net' /\ AddOns # {}
    BY <1>2 DEF SettingsInv
  <1>10. /\ pc' \in {"create_stack", "inspect", "clear_old", "clear_new", "copy"} =>
              \A v \in vols' : volume'[Old(Head1')][v] # "absent"
         /\ pc' \in {"fetch", "connect", "delete_stack"} => Head1' \in portainer'
         /\ pc' \in {"connect", "delete_stack", "create_stack"} =>
              KeptIn(Head1', migrated'.settings)
    BY <1>2, <1>3
  <1>11. \A a \in portainer' : \A v \in VolumesOf(a) : volume'[Old(a)][v] # "absent"
    BY <1>2
  <1>12. KeepsUser(Head1, stack[New(Head1)])' <=> KeepsUser(Head1', stack'[New(Head1')])
    BY DEF KeepsUser, KeepsValues, Takes, New
  <1>13. \A a \in AddOns : KeepsUser(a, stack[New(a)])' <=> KeepsUser(a, stack'[New(a)])
    OBVIOUS
  <1> QED
    BY <1>5, <1>6, <1>7, <1>8, <1>9, <1>10, <1>11, <1>12, <1>13 DEF SettingsInv

\* The settings are read from the containers of portainer while they exist.
LEMMA FetchSettings ==
    ASSUME SettingsInv, StackInv, CoreInv, FetchAndMigrateManifest
    PROVE  SettingsInv'
PROOF
  <1>1. /\ pc = "fetch" /\ pc' = "connect"
        /\ UNCHANGED <<manifest, todo, release, net, interrupted, portainer, stack, volume>>
    BY DEF FetchAndMigrateManifest, Goto, disk
  <1>2. /\ migrated' = [Migrated(Head1) EXCEPT !.settings = getSettingsForReplaceRoutine(Head1, Migrated(Head1))]
        /\ Migrated(Head1).settings = ManifestOf[Head1].settings
    BY FetchAndMigrateManifestCore
  <1>3. Head1 \in AddOns
    BY <1>1, HeadWhenGone DEF FetchLabels
  <1>4. ASSUME Undisturbed
        PROVE  /\ Head1 \in portainer
               /\ KeptIn(Head1, migrated'.settings)
    <2>1. Head1 \in portainer
      BY <1>1, <1>4 DEF SettingsInv
    <2>2. KeepsUser(Head1, stack[Old(Head1)])
      BY <2>1 DEF StackInv
    <2>3. KeepsValues(Head1, EnvironmentOf(Old(Head1)))
      <3> DEFINE services == stack[Old(Head1)].services
                 s == CHOOSE s \in DOMAIN services : TRUE
      <3>1. stack[Old(Head1)].exists /\ services # <<>> /\ s \in DOMAIN services
        BY <2>2 DEF KeepsUser
      <3>2. KeepsValues(Head1, services[s].environment)
        BY <2>2, <3>1 DEF KeepsUser
      <3> QED
        BY <3>1, <3>2 DEF EnvironmentOf
    <2>4. KeptIn(Head1, getSettingsForReplaceRoutine(Head1, Migrated(Head1)))
      BY <1>2, <2>3 DEF getSettingsForReplaceRoutine, KeptIn
    <2>5. migrated'.settings = getSettingsForReplaceRoutine(Head1, Migrated(Head1))
      <3> DEFINE settings == getSettingsForReplaceRoutine(Head1, Migrated(Head1))
      <3>1. migrated' = [Migrated(Head1) EXCEPT !.settings = settings]
        BY <1>2
      <3> HIDE DEF settings
      <3>2. migrated'.settings = settings
        BY <1>3, <3>1, WithSettings
      <3> QED
        BY <3>2 DEF settings
    <2> QED
      BY <2>1, <2>4, <2>5
  <1>5. Undisturbed =>
          /\ \A a \in portainer' : \A v \in VolumesOf(a) : volume'[Old(a)][v] # "absent"
          /\ \A a \in AddOns : IsMigrated(a) => KeepsUser(a, stack'[New(a)])
    BY <1>1 DEF SettingsInv
  <1> QED
    BY <1>1, <1>4, <1>5, SettingsInLoop DEF FetchLabels, MadeLabels, GoneLabels

\* Nothing is lost before portainer answers.
LEMMA ConnectSettings ==
    ASSUME SettingsInv, StackInv, CoreInv, ConnectToPortainer
    PROVE  SettingsInv'
PROOF
  <1>1. /\ pc = "connect" /\ pc' = "delete_stack"
        /\ UNCHANGED <<manifest, todo, release, net, interrupted, portainer, stack, volume, migrated>>
    BY DEF ConnectToPortainer, Goto, disk, locals
  <1>2. Undisturbed =>
          /\ \A a \in portainer' : \A v \in VolumesOf(a) : volume'[Old(a)][v] # "absent"
          /\ \A a \in AddOns : IsMigrated(a) => KeepsUser(a, stack'[New(a)])
          /\ Head1 \in portainer'
          /\ KeptIn(Head1, migrated'.settings)
    BY <1>1 DEF SettingsInv
  <1> QED
    BY <1>1, <1>2, SettingsInLoop DEF FetchLabels, MadeLabels, GoneLabels

\* The containers that go are not those of an add-on that is migrated.
LEMMA DeleteStackSettings ==
    ASSUME SettingsInv, StackInv, CoreInv, DeletePortainerStack
    PROVE  SettingsInv'
PROOF
  <1>1. /\ pc = "delete_stack" /\ pc' = "create_stack"
        /\ UNCHANGED <<manifest, todo, release, net, interrupted, volume, migrated, vols>>
        /\ portainer' = portainer \ {Head1}
        /\ stack' = IF Head1 \in portainer THEN [stack EXCEPT ![Old(Head1)] = NoContainers] ELSE stack
    BY DEF DeletePortainerStack, Goto, locals
  <1>2. Head1 \in AddOns /\ vols = VolumesOf(Head1)
    BY <1>1, HeadWhenGone DEF FetchLabels, CoreInv, MigratedInv
  <1>3. ASSUME NEW a \in AddOns, IsMigrated(a) PROVE stack'[New(a)] = stack[New(a)]
    <2>1. a \notin portainer
      <3>1. manifest[a].manifestVersion = "0.2"
        BY <1>3, ManifestsOnDisk DEF CoreInv
      <3> QED
        BY <3>1 DEF CoreInv, PortainerInv
    <2>2. New(a) \in Projects /\ (Old(Head1) = New(a) => Head1 = a)
      BY <1>2, ProjectNames
    <2> QED
      BY <1>1, <2>1, <2>2 DEF StackInv
  <1>4. Undisturbed =>
          /\ \A a \in portainer : \A v \in VolumesOf(a) : volume'[Old(a)][v] # "absent"
          /\ \A a \in AddOns : IsMigrated(a) => KeepsUser(a, stack'[New(a)])
          /\ Head1 \in portainer
          /\ KeptIn(Head1, migrated'.settings)
    BY <1>1, <1>3 DEF SettingsInv
  <1> QED
    BY <1>1, <1>2, <1>4, SettingsInLoop DEF FetchLabels, MadeLabels, GoneLabels

\* The new containers are created with the settings at hand.
LEMMA CreatedWith ==
    ASSUME CoreInv, CreateStackWithoutStart
    PROVE  \E c : /\ stack' = [stack EXCEPT ![New(Head1)] = c]
                  /\ c.exists /\ MadeWith(Head1, c.services, migrated.settings)
PROOF
  <1> DEFINE settings == migrated.settings
             m == [Migrated(Head1) EXCEPT !.settings = settings]
             compose == GetDockerComposeFromManifest(migrated)
             bridge == IF InternalAddOnNetworkName \in compose.networks THEN "current" ELSE "none"
             c == Containers(compose.services, bridge)
  <1>1. pc = "create_stack" /\ stack' = [stack EXCEPT ![New(Head1)] = c]
    BY DEF CreateStackWithoutStart
  <1>2. Head1 \in AddOns
    BY <1>1, HeadWhenGone DEF FetchLabels
  <1>3. migrated = m
    BY <1>1 DEF CoreInv, MigratedInv, FetchLabels
  <1>4. MadeWith(Head1, GetDockerComposeFromManifest(m).services, settings)
    <2> HIDE DEF settings
    <2> QED
      BY <1>2, ComposeWithSettings
  <1>5. MadeWith(Head1, compose.services, settings)
    <2> HIDE DEF m, settings
    <2> QED
      BY <1>3, <1>4
  <1>6. c.exists /\ c.services = compose.services
    <2> HIDE DEF compose, bridge
    <2> QED
      BY DEF Containers
  <1> HIDE DEF compose, c
  <1> QED
    BY <1>1, <1>5, <1>6

\* They have the values of the user, if the settings have them.
LEMMA CreatedKeepUser ==
    ASSUME CoreInv, CreateStackWithoutStart, KeptIn(Head1, migrated.settings)
    PROVE  \E c : stack' = [stack EXCEPT ![New(Head1)] = c] /\ KeepsUser(Head1, c)
PROOF
  <1>1. PICK c : /\ stack' = [stack EXCEPT ![New(Head1)] = c]
                 /\ c.exists /\ MadeWith(Head1, c.services, migrated.settings)
    BY CreatedWith
  <1>2. PICK env : /\ KeepsValues(Head1, env)
                   /\ migrated.settings = CombineManifestSettingsWithSettingsMap(ManifestOf[Head1].settings, env)
    BY DEF KeptIn
  <1>3. Head1 \in AddOns
    BY HeadWhenGone DEF FetchLabels, CreateStackWithoutStart
  <1>4. KeepsUser(Head1, c)
    BY <1>1, <1>2, <1>3, MadeKeepsUser
  <1> QED
    BY <1>1, <1>4

\* From then on the new containers have the values of the user.
LEMMA CreateStackSettings ==
    ASSUME SettingsInv, VolumeInv, StackInv, CoreInv, CreateStackWithoutStart
    PROVE  SettingsInv'
PROOF
  <1>1. /\ pc = "create_stack" /\ pc' \in {"remove_volumes", "inspect"}
        /\ UNCHANGED <<manifest, todo, release, net, interrupted, portainer, vols>>
    BY DEF CreateStackWithoutStart, Goto, locals
  <1>2. Head1 \in AddOns /\ vols = VolumesOf(Head1) /\ New(Head1) \in Projects
    BY <1>1, HeadWhenGone DEF FetchLabels, CoreInv, MigratedInv
  <1>3. ASSUME NEW a \in AddOns, NEW v \in VolumesOf(a), volume'[Old(a)][v] = "absent"
        PROVE  volume[Old(a)][v] = "absent"
    <2>1. Old(a) \in Projects /\ v \in VolumeNames
      BY ProjectNames, NamesOfVolumes
    <2> QED
      BY <1>3, <2>1, CreatedVolumes
  <1>4. ASSUME Undisturbed
        PROVE  /\ \A a \in AddOns : IsMigrated(a) => KeepsUser(a, stack'[New(a)])
               /\ KeepsUser(Head1, stack'[New(Head1)])
    <2>1. PICK c : stack' = [stack EXCEPT ![New(Head1)] = c] /\ KeepsUser(Head1, c)
      BY <1>1, <1>4, CreatedKeepUser DEF SettingsInv
    <2>2. stack'[New(Head1)] = c
      BY <1>2, <2>1 DEF StackInv
    <2>3. \A a \in AddOns : a # Head1 => stack'[New(a)] = stack[New(a)]
      BY <1>2, <2>1, ProjectNames DEF StackInv
    <2> QED
      BY <1>4, <2>1, <2>2, <2>3 DEF SettingsInv
  <1>5. Undisturbed =>
          /\ \A a \in portainer' : \A v \in VolumesOf(a) : volume'[Old(a)][v] # "absent"
          /\ \A v \in vols' : volume'[Old(Head1)][v] # "absent"
    <2>1. portainer \subseteq AddOns
      BY DEF CoreInv, PortainerInv
    <2> QED
      BY <1>1, <1>2, <1>3, <2>1 DEF SettingsInv
  <1> QED
    BY <1>1, <1>4, <1>5, SettingsInLoop DEF FetchLabels, MadeLabels, GoneLabels

\* The volumes of other add-ons than the one at hand.
LEMMA PortainerVolumes ==
    ASSUME SettingsInv, CoreInv, Undisturbed, pc \in GoneLabels, portainer' = portainer,
           \A q \in Projects, w \in VolumeNames :
               q \notin {Old(Head1), New(Head1)} => volume'[q][w] = volume[q][w]
    PROVE  \A a \in portainer' : \A v \in VolumesOf(a) : volume'[Old(a)][v] # "absent"
PROOF
  <1> TAKE a \in portainer'
  <1> TAKE v \in VolumesOf(a)
  <1>1. a \in AddOns /\ a # Head1 /\ Head1 \in AddOns
    BY HeadWhenGone DEF CoreInv, PortainerInv, GoneLabels, FetchLabels
  <1>2. Old(a) \in Projects /\ Old(a) \notin {Old(Head1), New(Head1)} /\ v \in VolumeNames
    BY <1>1, ProjectNames, NamesOfVolumes
  <1>3. volume[Old(a)][v] # "absent"
    BY DEF SettingsInv
  <1> QED
    BY <1>2, <1>3

\* Moving the data of the volumes leaves the containers alone.
LEMMA VolumeLoopSettings ==
    ASSUME SettingsInv, VolumeInv, CoreInv,
           \/ \E v \in VolumeNames : InspectVolumes(v)
           \/ RemoveContentOfOld \/ RemoveContentOfNew \/ CopyFromCache \/ RemoveUnusedVolumes
    PROVE  SettingsInv'
PROOF
  <1>1. /\ pc \in MadeLabels /\ pc' \in MadeLabels
        /\ UNCHANGED <<manifest, todo, release, net, interrupted, portainer, stack>>
    <2>1. CASE \E v \in VolumeNames : InspectVolumes(v)
      BY <2>1 DEF InspectVolumes, Goto, disk, MadeLabels, GoneLabels
    <2>2. CASE RemoveContentOfOld \/ RemoveContentOfNew \/ CopyFromCache \/ RemoveUnusedVolumes
      BY <2>2 DEF RemoveContentOfOld, RemoveContentOfNew, CopyFromCache, RemoveUnusedVolumes, Goto,
         locals, MadeLabels, GoneLabels
    <2> QED
      BY <2>1, <2>2
  <1>2. /\ pc \in FetchLabels /\ pc' \in FetchLabels /\ pc \in GoneLabels
        /\ pc' \notin {"fetch", "connect", "delete_stack"} /\ pc' # "create_stack"
    BY <1>1 DEF MadeLabels, GoneLabels, FetchLabels
  <1>3. Head1 \in AddOns /\ Old(Head1) \in Projects /\ vols \subseteq VolumesOf(Head1)
        /\ VolumesOf(Head1) \subseteq VolumeNames
    BY <1>2, <1>1, HeadWhenGone, NamesOfVolumes DEF VolumeInv, MadeLabels, GoneLabels
  <1>4. /\ \A q \in Projects, w \in VolumeNames :
              q \notin {Old(Head1), New(Head1)} => volume'[q][w] = volume[q][w]
        /\ pc' \in {"inspect", "clear_old", "clear_new", "copy"} =>
              /\ vols' \subseteq vols
              /\ \A v \in vols' : volume[Old(Head1)][v] # "absent" => volume'[Old(Head1)][v] # "absent"
              /\ pc \in {"inspect", "clear_old", "clear_new", "copy"}
    <2>1. CASE \E v \in VolumeNames : InspectVolumes(v)
      BY <2>1 DEF InspectVolumes, Goto, disk
    <2>2. CASE RemoveContentOfOld \/ RemoveContentOfNew
      <3>1. /\ pc \in CopyLabels /\ vols' = vols
            /\ \E p \in {Old(Head1), New(Head1)} : SetVolume(p, "empty")
        BY <2>2 DEF RemoveContentOfOld, RemoveContentOfNew, CopyLabels, locals
      <3>2. PICK p \in {Old(Head1), New(Head1)} :
              \A q \in Projects, w \in VolumeNames :
                volume'[q][w] = IF q = p /\ w = cache[1] THEN "empty" ELSE volume[q][w]
        BY <3>1, SetVolumeVolume
      <3> QED
        BY <1>3, <3>1, <3>2 DEF CopyLabels
    <2>3. CASE CopyFromCache
      <3>1. pc = "copy" /\ pc \in CopyLabels /\ SetVolume(New(Head1), cache[2]) /\ vols' = vols \ {cache[1]}
        BY <2>3 DEF CopyFromCache, CopyLabels
      <3>2. \A q \in Projects, w \in VolumeNames :
                volume'[q][w] = IF q = New(Head1) /\ w = cache[1] THEN cache[2] ELSE volume[q][w]
        BY <3>1, SetVolumeVolume
      <3> QED
        BY <1>3, <3>1, <3>2
    <2>4. CASE RemoveUnusedVolumes
      <3>1. pc' = "push"
        BY <2>4 DEF RemoveUnusedVolumes, Goto
      <3> QED
        BY <2>4, <3>1, RemovedVolumes
    <2> QED
      BY <2>1, <2>2, <2>3, <2>4
  <1>5. ASSUME Undisturbed
        PROVE  /\ \A a \in portainer' : \A v \in VolumesOf(a) : volume'[Old(a)][v] # "absent"
               /\ \A a \in AddOns : IsMigrated(a) => KeepsUser(a, stack'[New(a)])
               /\ pc' \in {"create_stack", "inspect", "clear_old", "clear_new", "copy"} =>
                    \A v \in vols' : volume'[Old(Head1)][v] # "absent"
               /\ KeepsUser(Head1, stack'[New(Head1)])
    <2>1. \A a \in portainer' : \A v \in VolumesOf(a) : volume'[Old(a)][v] # "absent"
      BY <1>1, <1>2, <1>4, <1>5, PortainerVolumes
    <2>2. \A a \in AddOns : IsMigrated(a) => KeepsUser(a, stack'[New(a)])
      BY <1>1, <1>5 DEF SettingsInv
    <2>3. pc' \in {"create_stack", "inspect", "clear_old", "clear_new", "copy"} =>
                    \A v \in vols' : volume'[Old(Head1)][v] # "absent"
      BY <1>2, <1>4, <1>5 DEF SettingsInv
    <2>4. KeepsUser(Head1, stack'[New(Head1)])
      BY <1>1, <1>5 DEF SettingsInv
    <2> QED
      BY <2>1, <2>2, <2>3, <2>4
  <1> QED
    BY <1>1, <1>2, <1>5, SettingsInLoop

\* What ends the process within the loop is not there: the bridge exists, every old volume
\* exists, and every manifest has a vendor.
LEMMA FailsSettings ==
    ASSUME SettingsInv, StackInv, CoreInv,
           FetchFails \/ CreateStackFails \/ \E v \in VolumeNames : InspectFails(v)
    PROVE  SettingsInv'
PROOF
  <1>1. SUFFICES ASSUME Undisturbed' PROVE FALSE
    BY DEF SettingsInv
  <1>2. Undisturbed /\ pc \in FetchLabels
    BY <1>1 DEF Undisturbed, FetchFails, CreateStackFails, InspectFails, disk, FetchLabels
  <1>3. Head1 \in AddOns /\ Head1 \in Installed
    BY <1>2, HeadWhenGone
  <1>4. CASE FetchFails
    <2>1. MigrateUcManifest(manifest[Head1]) = NoManifest
      BY <1>4 DEF FetchFails
    <2>2. manifest[Head1] # NoVendor(Head1)
      BY <1>2, <1>3 DEF Undisturbed
    <2> QED
      BY <1>3, <2>1, <2>2, ManifestsOnDisk DEF CoreInv
  <1>5. CASE CreateStackFails
    <2>1. release = "0.3.2"
      BY <1>2 DEF CoreInv, VersionInv
    <2> QED
      BY <1>2, <1>5, <2>1 DEF SettingsInv, CreateStackFails
  <1>6. CASE \E v \in VolumeNames : InspectFails(v)
    BY <1>2, <1>6 DEF SettingsInv, InspectFails
  <1> QED
    BY <1>4, <1>5, <1>6

\* The manifest is replaced after the containers have the values; the next add-on is portainer's.
LEMMA PushManifestSettings ==
    ASSUME SettingsInv, StackInv, CoreInv, PushManifest
    PROVE  SettingsInv'
PROOF
  <1>1. /\ pc = "push" /\ UNCHANGED <<release, portainer, stack, volume, net, interrupted>>
        /\ todo' = IF Rest # {} THEN Rest ELSE Installed
        /\ pc' = IF Rest # {} THEN "fetch" ELSE "delete_routes"
    BY DEF PushManifest, Loop
  <1>2. /\ Head1 \in AddOns
        /\ \A a \in AddOns : a # Head1 => manifest'[a] = manifest[a]
        /\ \A a \in AddOns : IsMigrated(a)' <=> (a = Head1 \/ IsMigrated(a))
    BY Pushed
  <1>3. SUFFICES ASSUME Undisturbed' PROVE SettingsInv'
    BY DEF SettingsInv
  <1>4. Undisturbed
    <2>1. manifest[Head1] # NoVendor(Head1)
      BY <1>1 DEF CoreInv, MigratedInv, FetchLabels
    <2> QED
      BY <1>1, <1>2, <1>3, <2>1 DEF Undisturbed
  <1>5. \A a \in AddOns : IsMigrated(a)' => KeepsUser(a, stack'[New(a)])
    <2>1. KeepsUser(Head1, stack[New(Head1)])
      BY <1>1, <1>4 DEF SettingsInv, MadeLabels, GoneLabels
    <2>2. \A a \in AddOns : IsMigrated(a) => KeepsUser(a, stack[New(a)])
      BY <1>4 DEF SettingsInv
    <2> QED
      BY <1>1, <1>2, <2>1, <2>2
  <1>6. \A a \in portainer' : \A v \in VolumesOf(a) : volume'[Old(a)][v] # "absent"
    BY <1>1, <1>4 DEF SettingsInv
  <1>7. release' = "0.3.2" => net' /\ AddOns # {}
    BY <1>1, <1>4 DEF SettingsInv
  <1>8. pc' = "fetch" => Head1' \in portainer' /\ Rest' \subseteq portainer'
    <2>1. SUFFICES ASSUME Rest # {} PROVE Head1' \in portainer' /\ Rest' \subseteq portainer'
      BY <1>1
    <2>2. Rest \subseteq portainer
      BY <1>1, <1>4 DEF SettingsInv, FetchLabels
    <2>3. Rest \subseteq AddOns
      BY <2>2 DEF CoreInv, PortainerInv
    <2>4. FirstOf(Rest) \in Rest
      BY <2>1, <2>3, FirstOfIn
    <2>5. Head1' = FirstOf(Rest) /\ Rest' \subseteq Rest
      BY <1>1, <2>1 DEF Head1, Rest
    <2> QED
      BY <1>1, <2>2, <2>4, <2>5
  <1>9. /\ pc' # "record" /\ pc' \in MovingLabels /\ pc' \notin MadeLabels
        /\ pc' \in FetchLabels => pc' = "fetch"
        /\ pc' \notin {"create_stack", "inspect", "clear_old", "clear_new", "copy"}
        /\ pc' \notin {"connect", "delete_stack", "create_stack"}
        /\ (pc' \in {"fetch", "connect", "delete_stack"} => pc' = "fetch")
    BY <1>1 DEF MovingLabels, FetchLabels, RouteLabels, MadeLabels, GoneLabels
  <1> QED
    BY <1>5, <1>6, <1>7, <1>8, <1>9 DEF SettingsInv

\* A drop-in is created with the values of the user.
LEMMA DroppedKeepUser ==
    ASSUME NEW a \in AddOns, NEW c, c.exists, c.services = DroppedServices(a)
    PROVE  /\ MadeWith(a, c.services,
                 CombineManifestSettingsWithSettingsMap(ManifestOf[a].settings, UserEnv[a]))
           /\ KeepsUser(a, c)
PROOF
  <1>1. MadeWith(a, c.services, CombineManifestSettingsWithSettingsMap(ManifestOf[a].settings, UserEnv[a]))
    BY ComposeOfDropIn DEF DroppedServices
  <1> QED
    BY <1>1, UserKeepsValues, MadeKeepsUser

\* A drop-in is configured by the user; no other add-on changes.
LEMMA InstallDropInsSettings ==
    ASSUME SettingsInv, VolumeInv, StackInv, CoreInv, InstallDropIns
    PROVE  SettingsInv'
PROOF
  <1>1. /\ pc = "dropins" /\ pc' = "serving" /\ UNCHANGED interrupted
        /\ UNCHANGED disk \/ \E a \in AddOns : DropsIn(a)
    BY InstallDropInsCases
  <1>2. pc' \notin FetchLabels /\ pc' # "record" /\ pc \in AfterLabels
    BY <1>1 DEF FetchLabels, AfterLabels
  <1>3. CASE UNCHANGED disk
    <2>1. UNCHANGED <<manifest, portainer, stack, volume, release>>
      BY <1>3 DEF disk
    <2>2. \A a \in AddOns : KeepsUser(a, stack[New(a)]) => KeepsUser(a, stack'[New(a)])
      BY <2>1, SameAlike, AlikeStacksKeep
    <2>3. Undisturbed => release' # "0.3.2"
      BY <1>2, <2>1, AfterRelease
    <2> QED
      BY <1>1, <1>2, <2>1, <2>2, <2>3, SettingsElsewhere
  <1>4. ASSUME NEW b \in AddOns, DropsIn(b) PROVE SettingsInv'
    <2>1. /\ \A a \in AddOns : a # b => manifest'[a] = manifest[a]
          /\ \A a \in AddOns : IsMigrated(a)' <=> (a = b \/ IsMigrated(a))
      BY <1>4, DropInManifests DEF CoreInv
    <2>2. manifest[b] = NoManifest /\ UNCHANGED <<release, portainer>>
      BY <1>4 DEF DropsIn
    <2>3. manifest[b] # NoVendor(b)
      BY <2>2, Migrating, ManifestForm
    <2>4. SUFFICES ASSUME Undisturbed' PROVE SettingsInv'
      BY DEF SettingsInv
    <2>5. Undisturbed
      BY <1>1, <2>1, <2>3, <2>4 DEF Undisturbed
    <2>6. PICK c : /\ stack' = [stack EXCEPT ![New(b)] = c]
                   /\ Attached(b, c) /\ c.services = DroppedServices(b)
      BY <1>4, DropInStack
    <2>7. KeepsUser(b, c)
      BY <2>6, DroppedKeepUser DEF Attached
    <2>8. \A a \in AddOns : IsMigrated(a)' => KeepsUser(a, stack'[New(a)])
      <3> TAKE a \in AddOns
      <3>1. stack'[New(a)] = IF a = b THEN c ELSE stack[New(a)]
        BY <2>6, ProjectNames DEF StackInv
      <3>2. IsMigrated(a) => KeepsUser(a, stack[New(a)])
        BY <2>5 DEF SettingsInv
      <3> QED
        BY <2>1, <2>7, <3>1, <3>2
    <2>9. \A a \in portainer' : \A v \in VolumesOf(a) : volume'[Old(a)][v] # "absent"
      <3> TAKE a \in portainer'
      <3> TAKE v \in VolumesOf(a)
      <3>1. a \in AddOns /\ volume[Old(a)][v] # "absent"
        BY <2>2, <2>5 DEF SettingsInv, CoreInv, PortainerInv
      <3>2. Old(a) \in Projects /\ v \in VolumeNames
        BY <3>1, ProjectNames, NamesOfVolumes
      <3> QED
        BY <1>4, <3>1, <3>2, DropInVolumes
    <2>10. release' # "0.3.2"
      BY <1>2, <2>2, <2>5, AfterRelease
    <2>11. /\ pc' \notin {"create_stack", "inspect", "clear_old", "clear_new", "copy"}
           /\ pc' \notin {"fetch", "connect", "delete_stack"}
           /\ pc' \notin {"connect", "delete_stack", "create_stack"}
           /\ pc' \notin MadeLabels
      BY <1>1 DEF MadeLabels, GoneLabels
    <2> QED
      BY <1>2, <2>8, <2>9, <2>10, <2>11 DEF SettingsInv
  <1> QED
    BY <1>1, <1>3, <1>4

\* The containers an older release left have the values of the user.
LEMMA InitSettings == Init => SettingsInv
PROOF
  <1> SUFFICES ASSUME Init PROVE SettingsInv
    OBVIOUS
  <1>1. /\ pc = "down" /\ release \in {"none", "0.5.2", "newer"}
        /\ \A p \in Projects : stack[p] = RunningWith(p[1], ManifestOf[p[1]]) \/ stack[p] = NoContainers
    BY DEF Init
  <1>2. ~ NoContainers.exists
    BY DEF NoContainers
  <1>3. ASSUME NEW a \in AddOns, IsMigrated(a) PROVE KeepsUser(a, stack[New(a)])
    <2>1. stack[New(a)].exists
      BY <1>3, InitStack DEF StackInv, Attached
    <2>2. stack[New(a)] = RunningWith(a, ManifestOf[a])
      BY <1>1, <1>2, <2>1, ProjectNames
    <2> QED
      BY <2>2, OldContainers
  <1>4. ASSUME NEW a \in portainer, NEW v \in VolumesOf(a) PROVE volume[Old(a)][v] # "absent"
    <2>1. a \in AddOns
      BY InitCore DEF CoreInv, PortainerInv
    <2>2. stack[Old(a)].exists
      BY InitStack DEF StackInv, KeepsUser
    <2> QED
      BY <2>1, <2>2, InitVolumes
  <1>5. pc \notin FetchLabels /\ pc \notin MadeLabels
    BY <1>1 DEF FetchLabels, MadeLabels, GoneLabels
  <1> QED
    BY <1>1, <1>3, <1>4, <1>5 DEF SettingsInv

\* Every step keeps the values of the user, unless it ends the process while they are at stake.
LEMMA NextSettings ==
    ASSUME SettingsInv, VolumeInv, StackInv, CoreInv, [Next]_vars
    PROVE  SettingsInv'
PROOF
  <1>1. CASE UNCHANGED vars
    <2>1. /\ UNCHANGED <<manifest, interrupted, portainer, stack, volume, vols, pc, todo, version, release, net>>
          /\ UNCHANGED migrated
      BY <1>1 DEF vars, bootVars, disk, locals
    <2>2. Head1' = Head1 /\ Rest' = Rest
      BY <2>1 DEF Head1, Rest
    <2>3. Undisturbed' <=> Undisturbed
      BY <2>1 DEF Undisturbed
    <2>4. \A a \in AddOns : IsMigrated(a)' <=> IsMigrated(a)
      BY <2>1 DEF IsMigrated
    <2>5. /\ \A a \in AddOns : KeepsUser(a, stack[New(a)])' <=> KeepsUser(a, stack[New(a)])
          /\ KeepsUser(Head1, stack[New(Head1)])' <=> KeepsUser(Head1, stack[New(Head1)])
      BY <2>1, <2>2 DEF KeepsUser
    <2> QED
      BY <2>1, <2>2, <2>3, <2>4, <2>5 DEF SettingsInv
  <1>2. CASE MigrationNext \/ UpdateVersionFails
    BY <1>2, VersionSettings, MigrateSettings, FetchSettings, ConnectSettings, DeleteStackSettings,
       CreateStackSettings, VolumeLoopSettings, FailsSettings, PushManifestSettings DEF
       MigrationNext
  <1>3. CASE InstallDropIns \/ \E reboot \in BOOLEAN : Die(reboot)
    BY <1>3, InstallDropInsSettings, DieSettings
  <1>4. CASE /\ Next /\ ~ MigrationNext /\ ~ UpdateVersionFails /\ ~ InstallDropIns
             /\ ~ \E reboot \in BOOLEAN : Die(reboot)
    BY <1>4, StartupSettings DEF Next, Step
  <1> QED
    BY <1>1, <1>2, <1>3, <1>4

\* The values of the user are where the invariant says at every step of every start
\* (getSettingsForReplaceRoutine before DeleteAddOnStack, and the stack before Push).
THEOREM SettingsAlways == Spec => []SettingsInv
PROOF
  <1>1. Init => SettingsInv
    BY InitSettings
  <1>2. CoreInv /\ (StackInv /\ ServingInv) /\ (VolumeInv /\ DataInv) /\ SettingsInv /\ [Next]_vars => SettingsInv'
    BY NextSettings
  <1> QED
    BY <1>1, <1>2, CoreAlways, StacksAlways, VolumesAlways, PTL DEF Spec

\* When the service serves, every add-on is migrated and so has them in its containers.
LEMMA SettingsImplyKept ==
    ASSUME CoreInv, SettingsInv
    PROVE  SettingsKept
PROOF
  <1>1. SUFFICES ASSUME pc = "serving", "settings" \notin interrupted,
                        NEW a \in Installed, NEW s \in Range(manifest[a].settings),
                        s.name \in DOMAIN UserEnv[a], CanTake(s, UserEnv[a][s.name])
                 PROVE  EnvironmentOf(New(a))[s.name] = UserEnv[a][s.name]
    BY DEF SettingsKept
  <1>2. AllMigrated
    BY <1>1 DEF CoreInv, LoopInv, AfterLabels
  <1>3. a \in AddOns /\ IsMigrated(a)
    BY <1>2, InstalledAddOns DEF AllMigrated
  <1>4. Undisturbed
    <2>1. ASSUME NEW b \in AddOns, manifest[b] = NoVendor(b) PROVE FALSE
      <3>1. manifest[b].manifestVersion = "0.1"
        BY <2>1, ManifestForm
      <3>2. b \in Installed /\ ~ IsMigrated(b)
        BY <3>1, ManifestsOnDisk DEF CoreInv
      <3> QED
        BY <1>2, <3>2 DEF AllMigrated
    <2> QED
      BY <1>1, <2>1 DEF Undisturbed
  <1>5. KeepsUser(a, stack[New(a)])
    BY <1>3, <1>4 DEF SettingsInv
  <1>6. PICK i \in DOMAIN ManifestOf[a].settings : s = ManifestOf[a].settings[i]
    <2>1. manifest[a].settings = ManifestOf[a].settings
      BY <1>1, <1>3, ManifestsOnDisk DEF CoreInv
    <2> QED
      BY <1>1, <2>1 DEF Range
  <1>7. Takes(a, i)
    BY <1>1, <1>6 DEF Takes
  <1> DEFINE services == stack[New(a)].services
             first == CHOOSE n \in DOMAIN services : TRUE
  <1>8. stack[New(a)].exists /\ services # <<>> /\ first \in DOMAIN services
    BY <1>5 DEF KeepsUser
  <1>9. EnvironmentOf(New(a)) = services[first].environment
    BY <1>8 DEF EnvironmentOf
  <1>10. services[first].environment[s.name] = UserEnv[a][s.name]
    BY <1>5, <1>6, <1>7, <1>8 DEF KeepsUser, KeepsValues
  <1> QED
    BY <1>9, <1>10

\* When the service serves and no start ended while settings were at stake, the containers
\* have the values of the user (getSettingsForReplaceRoutine, migrateAddOnFromV0_3_2).
THEOREM Settings == Spec => []SettingsKept
PROOF
  <1>1. CoreInv /\ SettingsInv => SettingsKept
    BY SettingsImplyKept
  <1> QED
    BY <1>1, CoreAlways, SettingsAlways, PTL

--------------------------------------------------------------------------------
\* Types

\* What TypeOK says beyond the other invariants.
RoutesInv ==
    /\ \A a \in AddOns : routes[a] \in [ManifestOf[a].publish -> {"none", "old", "new"}]
    /\ net \in BOOLEAN /\ interrupted \subseteq {"settings", "data"}

\* The routes of one add-on are replaced by those of one template.
LEMMA RoutesOfOne ==
    ASSUME RoutesInv, CoreInv, NEW b \in AddOns, NEW template \in {"none", "old", "new"},
           routes' = [routes EXCEPT ![b] = [id \in DOMAIN routes[b] |-> template]],
           net' = net, interrupted' = interrupted
    PROVE  RoutesInv'
PROOF
  <1>1. routes = [a \in AddOns |-> routes[a]]
    BY DEF CoreInv
  <1>2. DOMAIN routes[b] = ManifestOf[b].publish
    BY DEF RoutesInv
  <1>3. ASSUME NEW a \in AddOns PROVE routes'[a] \in [ManifestOf[a].publish -> {"none", "old", "new"}]
    <2>1. CASE a = b
      <3>1. routes'[a] = [id \in ManifestOf[a].publish |-> template]
        BY <1>1, <1>2, <2>1
      <3> QED
        BY <3>1
    <2>2. CASE a # b
      BY <1>1, <2>2 DEF RoutesInv
    <2> QED
      BY <2>1, <2>2
  <1> QED
    BY <1>3 DEF RoutesInv

\* Every step keeps the types of routes, network and history.
LEMMA NextRoutes ==
    ASSUME RoutesInv, CoreInv, [Next]_vars
    PROVE  RoutesInv'
PROOF
  <1>1. CASE UNCHANGED <<routes, net, interrupted>>
    BY <1>1 DEF RoutesInv
  <1>2. CASE DeleteRoutes \/ CreateRoutes
    <2>1. pc \in RouteLabels /\ UNCHANGED <<net, interrupted>>
      BY <1>2 DEF DeleteRoutes, CreateRoutes, RouteLabels
    <2>2. Head1 \in AddOns
      BY <2>1, HeadIn DEF CoreInv, LoopLabels
    <2>3. \E template \in {"none", "old", "new"} :
            routes' = [routes EXCEPT ![Head1] = [id \in DOMAIN routes[Head1] |-> template]]
      BY <1>2 DEF DeleteRoutes, CreateRoutes
    <2> QED
      BY <2>1, <2>2, <2>3, RoutesOfOne
  <1>3. CASE InstallDropIns
    <2>1. UNCHANGED interrupted /\ (UNCHANGED disk \/ \E a \in AddOns : DropsIn(a))
      BY <1>3, InstallDropInsCases
    <2>2. CASE UNCHANGED disk
      BY <2>1, <2>2 DEF disk, RoutesInv
    <2>3. ASSUME NEW a \in AddOns, DropsIn(a) PROVE RoutesInv'
      <3>1. routes' = [routes EXCEPT ![a] = [id \in DOMAIN routes[a] |-> "new"]] /\ net' = net
        BY <2>3 DEF DropsIn
      <3> QED
        BY <2>1, <3>1, RoutesOfOne
    <2> QED
      BY <2>1, <2>2, <2>3
  <1>4. CASE RemoveInternalBridge \/ CreateInternalBridge
    BY <1>4 DEF RemoveInternalBridge, CreateInternalBridge, RoutesInv
  <1>5. CASE UpdateVersionFails \/ \E reboot \in BOOLEAN : Die(reboot)
    BY <1>5 DEF UpdateVersionFails, Die, AtStake, disk, RoutesInv
  <1>6. CASE UNCHANGED vars
    BY <1>1, <1>6 DEF vars, bootVars, disk
  <1>7. CASE MigrationNext /\ ~ DeleteRoutes /\ ~ CreateRoutes
    <2>1. CASE ResolveVersion \/ RecordVersion \/ GetVersion \/ RefuseVersion \/ Migrate
      BY <1>1, <2>1 DEF ResolveVersion, RecordVersion, GetVersion, RefuseVersion, Migrate, disk
    <2>2. CASE FetchAndMigrateManifest \/ FetchFails \/ ConnectToPortainer \/ DeletePortainerStack
               \/ CreateStackWithoutStart \/ CreateStackFails
      BY <1>1, <2>2 DEF FetchAndMigrateManifest, FetchFails, ConnectToPortainer,
         DeletePortainerStack, CreateStackWithoutStart, CreateStackFails, disk
    <2>3. CASE (\E v \in VolumeNames : InspectVolumes(v) \/ InspectFails(v)) \/ RemoveContentOfOld
               \/ RemoveContentOfNew \/ CopyFromCache \/ RemoveUnusedVolumes \/ PushManifest
      BY <1>1, <2>3 DEF InspectVolumes, InspectFails, RemoveContentOfOld, RemoveContentOfNew,
         CopyFromCache, RemoveUnusedVolumes, PushManifest, disk
    <2>4. CASE TruncateRelease \/ UpdateVersion
      BY <1>1, <2>4 DEF TruncateRelease, UpdateVersion
    <2> QED
      BY <1>7, <2>1, <2>2, <2>3, <2>4 DEF MigrationNext
  <1>8. CASE \/ Boot \/ Setup \/ GetRegistryCredentials \/ StopStack \/ StopStackFails \/ ServeVolumeDrivers
             \/ Reconnect \/ ReconnectFails \/ Start \/ StartFails \/ \E reboot \in BOOLEAN : Restart(reboot)
    <2>1. CASE Boot \/ Setup \/ GetRegistryCredentials \/ StopStack \/ StopStackFails \/ ServeVolumeDrivers
      BY <1>1, <2>1 DEF Boot, Setup, GetRegistryCredentials, StopStack, StopStackFails,
         ServeVolumeDrivers, disk
    <2>2. CASE Reconnect \/ ReconnectFails \/ Start \/ StartFails
      BY <1>1, <2>2 DEF Reconnect, ReconnectFails, Start, StartFails, disk
    <2>3. CASE \E reboot \in BOOLEAN : Restart(reboot)
      BY <1>1, <2>3 DEF Restart
    <2> QED
      BY <1>8, <2>1, <2>2, <2>3
  <1> QED
    BY <1>2, <1>3, <1>4, <1>5, <1>6, <1>7, <1>8 DEF Next, Step

\* They are right at first.
LEMMA InitRoutes == Init => RoutesInv
PROOF
  <1> SUFFICES ASSUME Init PROVE RoutesInv
    OBVIOUS
  <1>1. PICK origin \in Origins :
          /\ routes = [a \in AddOns |-> [id \in ManifestOf[a].publish |-> IF origin = "factory" THEN "none" ELSE "old"]]
          /\ net = (origin # "factory") /\ interrupted = {}
    BY DEF Init
  <1> QED
    BY <1>1 DEF RoutesInv

\* The start of the service and the migration in it are correct in their types.
THEOREM Types == Spec => []TypeOK
PROOF
  <1>1. Init => RoutesInv
    BY InitRoutes
  <1>2. CoreInv /\ RoutesInv /\ [Next]_vars => RoutesInv'
    BY NextRoutes
  <1>3. CoreInv /\ (StackInv /\ ServingInv) /\ (VolumeInv /\ DataInv) /\ RoutesInv => TypeOK
    <2> SUFFICES ASSUME CoreInv, StackInv, ServingInv, VolumeInv, RoutesInv PROVE TypeOK
      OBVIOUS
    <2>1. \A a \in AddOns : manifest[a].manifestVersion \in {"none", "0.1", "0.2"}
      BY ManifestsOnDisk DEF CoreInv
    <2>2. \A p \in Projects : stack[p].exists =>
             stack[p].state \in {"created", "up", "exited"} /\ stack[p].bridge \in {"none", "current", "removed"}
      BY ContainerForm DEF StackInv
    <2>3. /\ release \in Releases \cup {"none", "empty", "newer"} /\ portainer \in SUBSET AddOns
          /\ pc \in Labels /\ todo \in SUBSET AddOns
      BY InstalledAddOns DEF CoreInv, PortainerInv, LoopInv
    <2>4. /\ volume \in [Projects -> [VolumeNames -> Contents]] /\ vols \in SUBSET VolumeNames
          /\ faults \in 0 .. MaxFaults /\ logged \in BOOLEAN
      BY DEF VolumeInv, ServingInv
    <2> QED
      BY <2>1, <2>2, <2>3, <2>4 DEF TypeOK, RoutesInv
  <1> QED
    BY <1>1, <1>2, <1>3, CoreAlways, StacksAlways, VolumesAlways, PTL DEF Spec

--------------------------------------------------------------------------------
\* Settings that are shown and sent back

\* Settings that can be read back from the containers made with them: a drop-down list has an
\* item or, where the manifest selects none either, no variable.
WellChosen(a, settings) ==
    /\ SameNames(a, settings)
    /\ \A i \in DOMAIN settings :
         /\ SettingOf(a, i).select = <<>> => settings[i].select = <<>>
         /\ SettingOf(a, i).select # <<>> =>
              /\ settings[i].select # <<>>
              /\ Given(settings[i]) => HasItem(SettingOf(a, i), ValueOf(settings[i]))
              /\ Given(SettingOf(a, i)) => Given(settings[i])
WellMade(a, services) == \E settings : WellChosen(a, settings) /\ MadeWith(a, services, settings)

\* What a list with a selected item may find in an environment.
ItemsIn(a, env) ==
    \A i \in DOMAIN ManifestOf[a].settings :
        LET o == SettingOf(a, i)
        IN  o.select # <<>> /\ Given(o) /\ o.name \in DOMAIN env => HasItem(o, env[o.name])

\* All containers were made with such settings, and those at hand are such.
EnvironmentInv ==
    /\ \A p \in Projects : stack[p].exists => WellMade(p[1], stack[p].services)
    /\ pc \in ChosenLabels => WellChosen(Head1, migrated.settings)

\* The selected item of a list is one of its items.
LEMMA SelectedIsItem ==
    ASSUME NEW a \in AddOns, NEW i \in DOMAIN ManifestOf[a].settings,
           NEW setting, setting.select = SettingOf(a, i).select, setting.select # <<>>
    PROVE  /\ Given(setting) <=> Given(SettingOf(a, i))
           /\ Given(setting) => HasItem(SettingOf(a, i), ValueOf(setting))
PROOF
  <1> DEFINE o == SettingOf(a, i)
  <1>1. DOMAIN o.select \subseteq Nat
    BY SettingForm
  <1> HIDE DEF o
  <1>2. Selected(setting) = Selected(o) /\ setting.select = o.select
    BY DEF Selected, o
  <1>3. Given(setting) <=> Given(o)
    BY <1>2 DEF Given
  <1>4. ASSUME Given(setting) PROVE HasItem(o, ValueOf(setting))
    <2>1. Selected(o) # {} /\ Selected(o) \subseteq DOMAIN o.select
      BY <1>2, <1>4 DEF Given, Selected
    <2>2. First(Selected(o)) \in DOMAIN o.select
      BY <1>1, <2>1, FirstIsLeast
    <2>3. ValueOf(setting) = o.select[First(Selected(o))].value
      BY <1>2 DEF ValueOf
    <2> QED
      BY <2>2, <2>3 DEF HasItem
  <1> QED
    BY <1>3, <1>4 DEF o

\* What is read from an environment where lists find their items is well chosen.
LEMMA CombinedWell ==
    ASSUME NEW a \in AddOns, NEW env, ItemsIn(a, env)
    PROVE  WellChosen(a, CombineManifestSettingsWithSettingsMap(ManifestOf[a].settings, env))
PROOF
  <1> DEFINE settings == CombineManifestSettingsWithSettingsMap(ManifestOf[a].settings, env)
  <1>1. SameNames(a, settings)
    BY NamesStay
  <1>2. DOMAIN settings = DOMAIN ManifestOf[a].settings
    BY <1>1 DEF SameNames
  <1>3. ASSUME NEW i \in DOMAIN ManifestOf[a].settings
        PROVE  /\ SettingOf(a, i).select = <<>> => settings[i].select = <<>>
               /\ SettingOf(a, i).select # <<>> =>
                    /\ settings[i].select # <<>>
                    /\ Given(settings[i]) => HasItem(SettingOf(a, i), ValueOf(settings[i]))
                    /\ Given(SettingOf(a, i)) => Given(settings[i])
    <2> DEFINE o == SettingOf(a, i)
               q == settings[i]
    <2>1. /\ o.name \notin DOMAIN env => q = o
          /\ o.select = <<>> => q.select = <<>>
          /\ o.name \in DOMAIN env /\ o.select # <<>> =>
               /\ q.select # <<>>
               /\ Given(q) <=> HasItem(o, env[o.name])
               /\ Given(q) => ValueOf(q) = env[o.name]
      BY Combined
    <2>2. o.select # <<>> /\ Given(o) /\ o.name \in DOMAIN env => HasItem(o, env[o.name])
      BY DEF ItemsIn
    <2>3. o.select # <<>> /\ Given(o) => HasItem(o, ValueOf(o))
      BY SelectedIsItem
    <2> HIDE DEF o, q
    <2>4. /\ o.select = <<>> => q.select = <<>>
          /\ o.select # <<>> => /\ q.select # <<>>
                                /\ Given(q) => HasItem(o, ValueOf(q))
                                /\ Given(o) => Given(q)
      BY <2>1, <2>2, <2>3
    <2> QED
      BY <2>4 DEF o, q
  <1> HIDE DEF settings
  <1>4. WellChosen(a, settings)
    BY <1>1, <1>2, <1>3 DEF WellChosen
  <1> QED
    BY <1>4 DEF settings

\* What the user sends is well chosen.
LEMMA UserWell ==
    ASSUME ListsAreClear, NEW a \in AddOns
    PROVE  /\ ItemsIn(a, UserEnv[a])
           /\ WellChosen(a, SettingsSent(ManifestOf[a].settings, UserEnv[a]))
PROOF
  <1> DEFINE settings == SettingsSent(ManifestOf[a].settings, UserEnv[a])
             env == UserEnv[a]
  <1>1. SameNames(a, settings)
    BY NamesStay
  <1>2. DOMAIN settings = DOMAIN ManifestOf[a].settings
    BY <1>1 DEF SameNames
  <1>3. ASSUME NEW i \in DOMAIN ManifestOf[a].settings, SettingOf(a, i).select # <<>>,
               SettingOf(a, i).name \in DOMAIN env
        PROVE  HasItem(SettingOf(a, i), env[SettingOf(a, i).name])
    <2>1. CanTake(SettingOf(a, i), env[SettingOf(a, i).name])
      BY <1>3 DEF ListsAreClear, SettingOf
    <2>2. ~ IsTextBox(SettingOf(a, i))
      BY <1>3 DEF IsTextBox
    <2> QED
      BY <2>1, <2>2 DEF CanTake, HasItem
  <1>4. ItemsIn(a, env)
    BY <1>3 DEF ItemsIn
  <1>5. ASSUME NEW i \in DOMAIN ManifestOf[a].settings
        PROVE  /\ SettingOf(a, i).select = <<>> => settings[i].select = <<>>
               /\ SettingOf(a, i).select # <<>> =>
                    /\ settings[i].select # <<>>
                    /\ Given(settings[i]) => HasItem(SettingOf(a, i), ValueOf(settings[i]))
                    /\ Given(SettingOf(a, i)) => Given(settings[i])
    <2> DEFINE o == SettingOf(a, i)
               q == settings[i]
    <2>1. /\ o.select = <<>> => q.select = <<>>
          /\ o.name \notin DOMAIN env => q.select = o.select
          /\ o.name \in DOMAIN env /\ o.select # <<>> =>
               /\ q.select # <<>>
               /\ Given(q) <=> HasItem(o, env[o.name])
               /\ Given(q) => ValueOf(q) = env[o.name]
      BY SentBack
    <2>2. o.select # <<>> /\ o.name \in DOMAIN env => HasItem(o, env[o.name])
      BY <1>3
    <2>3. o.select # <<>> /\ q.select = o.select =>
            (Given(q) <=> Given(o)) /\ (Given(q) => HasItem(o, ValueOf(q)))
      BY SelectedIsItem
    <2> HIDE DEF o, q, env
    <2>4. /\ o.select = <<>> => q.select = <<>>
          /\ o.select # <<>> => /\ q.select # <<>>
                                /\ Given(q) => HasItem(o, ValueOf(q))
                                /\ Given(o) => Given(q)
      BY <2>1, <2>2, <2>3
    <2> QED
      BY <2>4 DEF o, q
  <1> HIDE DEF settings
  <1>6. WellChosen(a, settings)
    BY <1>1, <1>2, <1>5 DEF WellChosen
  <1> QED
    BY <1>4, <1>6 DEF settings

\* The variables of a container that was made with some settings.
LEMMA MadeEnvironment ==
    ASSUME NEW a \in AddOns, NEW services, NEW settings, SameNames(a, settings),
           MadeWith(a, services, settings), NEW s \in DOMAIN ManifestOf[a].services,
           NEW i \in DOMAIN ManifestOf[a].settings
    PROVE  LET n == SettingOf(a, i).name
               own == ManifestOf[a].services[s].environment
               env == services[s].environment
           IN  /\ Given(settings[i]) => n \in DOMAIN env /\ env[n] = ValueOf(settings[i])
               /\ ~ Given(settings[i]) => /\ n \in DOMAIN env <=> n \in DOMAIN own
                                          /\ n \in DOMAIN env => env[n] = own[n]
PROOF
  <1> DEFINE n == SettingOf(a, i).name
             own == ManifestOf[a].services[s].environment
             env == services[s].environment
             chosen == getDockerComposeEnvironmentMapFrom(settings)
  <1>1. settings[i].name = n /\ i \in DOMAIN settings
    BY DEF SameNames
  <1>2. /\ Given(settings[i]) <=> n \in DOMAIN chosen
        /\ Given(settings[i]) => chosen[n] = ValueOf(settings[i])
    BY <1>1, ComposeMap
  <1>3. env = mergeEnvironmentVariables(own, settings)
    BY DEF MadeWith
  <1>4. env = [k \in DOMAIN own \cup DOMAIN chosen |-> IF k \in DOMAIN chosen THEN chosen[k] ELSE own[k]]
    BY <1>3 DEF mergeEnvironmentVariables
  <1> HIDE DEF n, own, env, chosen
  <1>5. /\ Given(settings[i]) => n \in DOMAIN env /\ env[n] = ValueOf(settings[i])
        /\ ~ Given(settings[i]) => /\ n \in DOMAIN env <=> n \in DOMAIN own
                                   /\ n \in DOMAIN env => env[n] = own[n]
    BY <1>2, <1>4
  <1> QED
    BY <1>5 DEF n, own, env

\* Containers that were made with well chosen settings show lists their items.
LEMMA MadeHasItems ==
    ASSUME NEW a \in AddOns, NEW services, NEW settings, WellChosen(a, settings),
           MadeWith(a, services, settings), NEW s \in DOMAIN ManifestOf[a].services
    PROVE  ItemsIn(a, services[s].environment)
PROOF
  <1>1. SUFFICES ASSUME NEW i \in DOMAIN ManifestOf[a].settings, SettingOf(a, i).select # <<>>,
                        Given(SettingOf(a, i))
                 PROVE  HasItem(SettingOf(a, i), services[s].environment[SettingOf(a, i).name])
    BY DEF ItemsIn
  <1>2. /\ SameNames(a, settings) /\ Given(settings[i])
        /\ HasItem(SettingOf(a, i), ValueOf(settings[i]))
    BY <1>1 DEF WellChosen, SameNames
  <1>3. services[s].environment[SettingOf(a, i).name] = ValueOf(settings[i])
    BY <1>2, MadeEnvironment
  <1> QED
    BY <1>2, <1>3

\* What is shown of one setting and sent back: the value that it had, or one that all
\* services have anyway.
LEMMA SentBackSetting ==
    ASSUME ListsAreClear, NEW a \in AddOns, NEW services, NEW settings, WellChosen(a, settings),
           MadeWith(a, services, settings), NEW first \in DOMAIN ManifestOf[a].services,
           NEW i \in DOMAIN ManifestOf[a].settings
    PROVE  LET n == SettingOf(a, i).name
               old == settings[i]
               new == SettingsSent(ManifestOf[a].settings, services[first].environment)[i]
           IN  \/ (Given(new) <=> Given(old)) /\ (Given(old) => ValueOf(new) = ValueOf(old))
               \/ /\ Given(new) /\ ~ Given(old)
                  /\ \A s \in DOMAIN ManifestOf[a].services :
                       /\ n \in DOMAIN ManifestOf[a].services[s].environment
                       /\ ManifestOf[a].services[s].environment[n] = ValueOf(new)
PROOF
  <1> DEFINE o == SettingOf(a, i)
             n == o.name
             env == services[first].environment
             Own(s) == ManifestOf[a].services[s].environment
             old == settings[i]
             new == SettingsSent(ManifestOf[a].settings, env)[i]
  <1>1. SameNames(a, settings) /\ i \in DOMAIN settings
    BY DEF WellChosen, SameNames
  <1>2. /\ o.select = <<>> => old.select = <<>>
        /\ o.select # <<>> => /\ old.select # <<>>
                              /\ Given(old) => HasItem(o, ValueOf(old))
                              /\ Given(o) => Given(old)
    BY <1>1 DEF WellChosen
  <1>3. /\ Given(old) => n \in DOMAIN env /\ env[n] = ValueOf(old)
        /\ ~ Given(old) => /\ n \in DOMAIN env <=> n \in DOMAIN Own(first)
                           /\ n \in DOMAIN env => env[n] = Own(first)[n]
    BY <1>1, MadeEnvironment
  <1>4. /\ o.select = <<>> => new.select = <<>> /\ new.value = IF n \in DOMAIN env THEN env[n] ELSE o.value
        /\ n \notin DOMAIN env => new.select = o.select
        /\ n \in DOMAIN env /\ o.select # <<>> =>
             /\ new.select # <<>>
             /\ Given(new) <=> HasItem(o, env[n])
             /\ Given(new) => ValueOf(new) = env[n]
    BY SentBack
  <1>5. o.select # <<>> /\ new.select = o.select => (Given(new) <=> Given(o))
    BY SelectedIsItem
  <1>6. o.select # <<>> /\ ~ Given(o) => \A s \in DOMAIN ManifestOf[a].services : n \in DOMAIN Own(first) =>
            n \in DOMAIN Own(s) /\ Own(s)[n] = Own(first)[n]
    BY DEF ListsAreClear, SettingOf, Given
  <1> HIDE DEF o, n, env, old, new
  <1>7. CASE o.select = <<>>
    <2>1. Given(old) /\ Given(new) /\ ValueOf(new) = new.value
      BY <1>2, <1>4, <1>7 DEF Given, ValueOf
    <2> QED
      BY <1>3, <1>4, <1>7, <2>1 DEF o, n, env, old, new
  <1>8. CASE o.select # <<>> /\ Given(old)
    <2>1. Given(new) /\ ValueOf(new) = ValueOf(old)
      BY <1>2, <1>3, <1>4, <1>8
    <2> QED
      BY <1>8, <2>1 DEF o, n, env, old, new
  <1>9. CASE o.select # <<>> /\ ~ Given(old)
    <2>1. ~ Given(o)
      BY <1>2, <1>9
    <2>2. CASE n \notin DOMAIN env
      <3>1. ~ Given(new)
        BY <1>4, <1>5, <1>9, <2>1, <2>2
      <3> QED
        BY <1>9, <3>1 DEF o, n, env, old, new
    <2>3. CASE n \in DOMAIN env
      <3>1. Given(new) => \A s \in DOMAIN ManifestOf[a].services :
              n \in DOMAIN Own(s) /\ Own(s)[n] = ValueOf(new)
        BY <1>3, <1>4, <1>6, <1>9, <2>1, <2>3
      <3> QED
        BY <1>9, <3>1 DEF o, n, env, old, new
    <2> QED
      BY <2>2, <2>3
  <1> QED
    BY <1>7, <1>8, <1>9

\* Services are created alike from the settings they have and from those that were sent back.
LEMMA SentBackSame ==
    ASSUME ListsAreClear, NEW a \in AddOns, NEW services, NEW settings, WellChosen(a, settings),
           MadeWith(a, services, settings), NEW first \in DOMAIN ManifestOf[a].services,
           NEW s \in DOMAIN ManifestOf[a].services
    PROVE  LET own == ManifestOf[a].services[s].environment
               sent == SettingsSent(ManifestOf[a].settings, services[first].environment)
           IN  mergeEnvironmentVariables(own, sent) = mergeEnvironmentVariables(own, settings)
PROOF
  <1> DEFINE own == ManifestOf[a].services[s].environment
             sent == SettingsSent(ManifestOf[a].settings, services[first].environment)
             I == DOMAIN ManifestOf[a].settings
             Name(i) == SettingOf(a, i).name
             old == getDockerComposeEnvironmentMapFrom(settings)
             new == getDockerComposeEnvironmentMapFrom(sent)
  <1>1. /\ DOMAIN settings = I /\ \A i \in I : settings[i].name = Name(i)
        /\ SameNames(a, settings)
    BY DEF WellChosen, SameNames
  <1>2. /\ DOMAIN sent = I /\ \A i \in I : sent[i].name = Name(i)
        /\ SameNames(a, sent)
    BY NamesStay DEF SameNames
  <1>3. \A i \in I :
          \/ /\ Given(sent[i]) <=> Given(settings[i])
             /\ Given(settings[i]) => ValueOf(sent[i]) = ValueOf(settings[i])
          \/ /\ Given(sent[i]) /\ ~ Given(settings[i])
             /\ Name(i) \in DOMAIN own /\ own[Name(i)] = ValueOf(sent[i])
    <2> TAKE i \in I
    <2> QED
      BY SentBackSetting
  <1> HIDE DEF own, sent, I, Name
  <1>4. /\ DOMAIN old = {settings[i].name : i \in {j \in DOMAIN settings : Given(settings[j])}}
        /\ \A i \in I : /\ Given(settings[i]) <=> Name(i) \in DOMAIN old
                        /\ Given(settings[i]) => old[Name(i)] = ValueOf(settings[i])
    <2> HIDE DEF old
    <2>1. LET chosen == old
          IN  /\ DOMAIN chosen = {settings[i].name : i \in {j \in DOMAIN settings : Given(settings[j])}}
              /\ \A i \in DOMAIN settings :
                    /\ Given(settings[i]) <=> settings[i].name \in DOMAIN chosen
                    /\ Given(settings[i]) => chosen[settings[i].name] = ValueOf(settings[i])
      BY <1>1, ComposeMap DEF old
    <2> QED
      BY <1>1, <2>1
  <1>5. /\ DOMAIN new = {sent[i].name : i \in {j \in DOMAIN sent : Given(sent[j])}}
        /\ \A i \in I : /\ Given(sent[i]) <=> Name(i) \in DOMAIN new
                        /\ Given(sent[i]) => new[Name(i)] = ValueOf(sent[i])
    <2> HIDE DEF new
    <2>1. LET chosen == new
          IN  /\ DOMAIN chosen = {sent[i].name : i \in {j \in DOMAIN sent : Given(sent[j])}}
              /\ \A i \in DOMAIN sent :
                    /\ Given(sent[i]) <=> sent[i].name \in DOMAIN chosen
                    /\ Given(sent[i]) => chosen[sent[i].name] = ValueOf(sent[i])
      BY <1>2, ComposeMap DEF new
    <2> QED
      BY <1>2, <2>1
  <1> HIDE DEF old, new
  <1>6. /\ \A k \in DOMAIN old : \E i \in I : k = Name(i)
        /\ \A k \in DOMAIN new : \E i \in I : k = Name(i)
    BY <1>1, <1>2, <1>4, <1>5
  <1>7. /\ DOMAIN old \subseteq DOMAIN new
        /\ \A k \in DOMAIN new : k \in DOMAIN old \/ k \in DOMAIN own
        /\ \A k \in DOMAIN old : new[k] = old[k]
        /\ \A k \in DOMAIN new \ DOMAIN old : new[k] = own[k]
    <2>1. ASSUME NEW k \in DOMAIN old PROVE k \in DOMAIN new /\ new[k] = old[k]
      <3>1. PICK i \in I : k = Name(i)
        BY <1>6
      <3>2. Given(settings[i]) /\ old[k] = ValueOf(settings[i])
        BY <1>4, <2>1, <3>1
      <3>3. Given(sent[i]) /\ ValueOf(sent[i]) = ValueOf(settings[i])
        BY <1>3, <3>2
      <3> QED
        BY <1>5, <3>1, <3>2, <3>3
    <2>2. ASSUME NEW k \in DOMAIN new, k \notin DOMAIN old PROVE k \in DOMAIN own /\ new[k] = own[k]
      <3>1. PICK i \in I : k = Name(i)
        BY <1>6
      <3>2. Given(sent[i]) /\ new[k] = ValueOf(sent[i])
        BY <1>5, <2>2, <3>1
      <3>3. ~ Given(settings[i])
        BY <1>4, <2>2, <3>1
      <3> QED
        BY <1>3, <3>1, <3>2, <3>3
    <2> QED
      BY <2>1, <2>2
  <1>8. [k \in DOMAIN own \cup DOMAIN new |-> IF k \in DOMAIN new THEN new[k] ELSE own[k]] =
        [k \in DOMAIN own \cup DOMAIN old |-> IF k \in DOMAIN old THEN old[k] ELSE own[k]]
    <2>1. DOMAIN own \cup DOMAIN new = DOMAIN own \cup DOMAIN old
      BY <1>7
    <2>2. \A k \in DOMAIN own \cup DOMAIN old :
            (IF k \in DOMAIN new THEN new[k] ELSE own[k]) = (IF k \in DOMAIN old THEN old[k] ELSE own[k])
      BY <1>7
    <2> QED
      BY <2>1, <2>2
  <1>9. mergeEnvironmentVariables(own, sent) = mergeEnvironmentVariables(own, settings)
    BY <1>8 DEF mergeEnvironmentVariables, old, new
  <1> QED
    BY <1>9 DEF own, sent

\* What has to be shown of a step.
LEMMA EnvironmentAfter ==
    ASSUME \A p \in Projects : stack'[p].exists => WellMade(p[1], stack'[p].services),
           pc' \in ChosenLabels => WellChosen(Head1', migrated'.settings)
    PROVE  EnvironmentInv'
PROOF
  <1>1. WellChosen(Head1, migrated.settings)' <=> WellChosen(Head1', migrated'.settings)
    BY DEF WellChosen, SameNames, SettingOf
  <1>2. \A p \in Projects : WellMade(p[1], stack[p].services)' <=> WellMade(p[1], stack'[p].services)
    OBVIOUS
  <1> QED
    BY <1>1, <1>2 DEF EnvironmentInv

\* Steps that keep the containers, or stop, reconnect or start them.
LEMMA EnvironmentAlike ==
    ASSUME EnvironmentInv, AlikeStacks,
           pc' \in ChosenLabels => pc \in ChosenLabels /\ UNCHANGED <<todo, migrated>>
    PROVE  EnvironmentInv'
PROOF
  <1>1. ASSUME NEW p \in Projects, stack'[p].exists PROVE WellMade(p[1], stack'[p].services)
    <2>1. stack[p].exists /\ stack'[p].services = stack[p].services
      BY <1>1 DEF AlikeStacks, Alike
    <2> QED
      BY <2>1 DEF EnvironmentInv
  <1>2. pc' \in ChosenLabels => WellChosen(Head1', migrated'.settings)
    BY DEF EnvironmentInv, Head1
  <1> QED
    BY <1>1, <1>2, EnvironmentAfter

\* Steps that replace the containers of one project by well made ones or by none.
LEMMA EnvironmentOfOne ==
    ASSUME EnvironmentInv, StackInv, NEW q \in Projects, NEW c, stack' = [stack EXCEPT ![q] = c],
           c.exists => WellMade(q[1], c.services),
           pc' \in ChosenLabels => pc \in ChosenLabels /\ UNCHANGED <<todo, migrated>>
    PROVE  EnvironmentInv'
PROOF
  <1>1. ASSUME NEW p \in Projects, stack'[p].exists PROVE WellMade(p[1], stack'[p].services)
    <2>1. stack'[p] = IF p = q THEN c ELSE stack[p]
      BY DEF StackInv
    <2> QED
      BY <1>1, <2>1 DEF EnvironmentInv
  <1>2. pc' \in ChosenLabels => WellChosen(Head1', migrated'.settings)
    BY DEF EnvironmentInv, Head1
  <1> QED
    BY <1>1, <1>2, EnvironmentAfter

\* The environment of a project's first container, if there is one.
LEMMA FirstEnvironment ==
    ASSUME EnvironmentInv, NEW p \in Projects, stack[p].exists
    PROVE  \E settings : \E first \in DOMAIN ManifestOf[p[1]].services :
             /\ WellChosen(p[1], settings) /\ MadeWith(p[1], stack[p].services, settings)
             /\ EnvironmentOf(p) = stack[p].services[first].environment
PROOF
  <1> DEFINE services == stack[p].services
             first == CHOOSE n \in DOMAIN services : TRUE
  <1>1. PICK settings : WellChosen(p[1], settings) /\ MadeWith(p[1], services, settings)
    BY DEF EnvironmentInv, WellMade
  <1>2. p[1] \in AddOns
    BY ProjectOf
  <1>3. DOMAIN ManifestOf[p[1]].services # {}
    BY <1>2, StartupAssumption DEF IsManifestV0_1
  <1>4. DOMAIN services = DOMAIN ManifestOf[p[1]].services
    BY <1>1 DEF MadeWith
  <1>5. first \in DOMAIN services /\ services # <<>>
    BY <1>3, <1>4
  <1>6. EnvironmentOf(p) = services[first].environment
    BY <1>5 DEF EnvironmentOf
  <1> HIDE DEF first
  <1> QED
    BY <1>1, <1>4, <1>5, <1>6

\* Whatever containers there are when the settings are read, lists find their items in them.
LEMMA FetchEnvironment ==
    ASSUME EnvironmentInv, StackInv, CoreInv, FetchAndMigrateManifest
    PROVE  EnvironmentInv'
PROOF
  <1>1. /\ pc = "fetch" /\ UNCHANGED <<stack, todo>>
        /\ MigrateUcManifest(manifest[Head1]) # NoManifest
        /\ migrated' = [MigrateUcManifest(manifest[Head1]) EXCEPT !.settings =
             getSettingsForReplaceRoutine(Head1, MigrateUcManifest(manifest[Head1]))]
    BY DEF FetchAndMigrateManifest, disk
  <1>2. Head1 \in AddOns /\ Old(Head1) \in Projects /\ Old(Head1)[1] = Head1 /\ Head1' = Head1
    BY <1>1, HeadWhenGone, ProjectNames DEF FetchLabels, Head1
  <1>3. MigrateUcManifest(manifest[Head1]) = Migrated(Head1)
    BY <1>1, <1>2, ManifestsOnDisk DEF CoreInv
  <1> DEFINE env == EnvironmentOf(Old(Head1))
             settings == CombineManifestSettingsWithSettingsMap(ManifestOf[Head1].settings, env)
  <1>4. migrated' = [Migrated(Head1) EXCEPT !.settings = settings]
    BY <1>1, <1>2, <1>3, MigratedForm DEF getSettingsForReplaceRoutine
  <1>5. migrated'.settings = settings
    <2> HIDE DEF settings
    <2> QED
      BY <1>2, <1>4, WithSettings
  <1>6. ItemsIn(Head1, env)
    <2>1. CASE stack[Old(Head1)].exists
      <3>1. PICK chosen : \E first \in DOMAIN ManifestOf[Head1].services :
              /\ WellChosen(Head1, chosen) /\ MadeWith(Head1, stack[Old(Head1)].services, chosen)
              /\ EnvironmentOf(Old(Head1)) = stack[Old(Head1)].services[first].environment
        BY <1>2, <2>1, FirstEnvironment
      <3> HIDE DEF settings
      <3> QED
        BY <1>2, <3>1, MadeHasItems
    <2>2. CASE ~ stack[Old(Head1)].exists
      BY <2>2 DEF EnvironmentOf, ItemsIn
    <2> QED
      BY <2>1, <2>2
  <1>7. WellChosen(Head1, settings)
    <2> HIDE DEF env
    <2> QED
      BY <1>2, <1>6, CombinedWell
  <1>8. \A p \in Projects : stack'[p].exists => WellMade(p[1], stack'[p].services)
    BY <1>1 DEF EnvironmentInv
  <1> HIDE DEF settings
  <1> QED
    BY <1>2, <1>5, <1>7, <1>8, EnvironmentAfter

\* Portainer's containers are deleted, the new ones are made with the settings at hand.
LEMMA ReplaceEnvironment ==
    ASSUME EnvironmentInv, StackInv, CoreInv, DeletePortainerStack \/ CreateStackWithoutStart
    PROVE  EnvironmentInv'
PROOF
  <1>1. CASE DeletePortainerStack
    <2>1. /\ pc = "delete_stack" /\ pc \in ChosenLabels /\ UNCHANGED <<todo, migrated>>
          /\ stack' = IF Head1 \in portainer THEN [stack EXCEPT ![Old(Head1)] = NoContainers] ELSE stack
      BY <1>1 DEF DeletePortainerStack, ChosenLabels, locals
    <2>2. Old(Head1) \in Projects
      BY <2>1, HeadWhenGone DEF FetchLabels
    <2>3. ~ NoContainers.exists
      BY DEF NoContainers
    <2>4. CASE Head1 \in portainer
      BY <2>1, <2>2, <2>3, <2>4, EnvironmentOfOne
    <2>5. CASE Head1 \notin portainer
      BY <2>1, <2>5, SameAlike, EnvironmentAlike
    <2> QED
      BY <2>4, <2>5
  <1>2. CASE CreateStackWithoutStart
    <2>1. pc = "create_stack" /\ pc' \notin ChosenLabels
      BY <1>2 DEF CreateStackWithoutStart, Goto, ChosenLabels
    <2>2. New(Head1) \in Projects /\ New(Head1)[1] = Head1
      BY <2>1, HeadWhenGone, ProjectNames DEF FetchLabels
    <2>3. PICK c : /\ stack' = [stack EXCEPT ![New(Head1)] = c]
                   /\ c.exists /\ MadeWith(Head1, c.services, migrated.settings)
      BY <1>2, CreatedWith
    <2>4. WellMade(Head1, c.services)
      BY <2>1, <2>3 DEF EnvironmentInv, ChosenLabels, WellMade
    <2> QED
      BY <2>1, <2>2, <2>3, <2>4, EnvironmentOfOne
  <1> QED
    BY <1>1, <1>2

\* A drop-in is made with the values of the user.
LEMMA DropInEnvironment ==
    ASSUME ListsAreClear, EnvironmentInv, StackInv, CoreInv, InstallDropIns
    PROVE  EnvironmentInv'
PROOF
  <1>1. pc' = "serving" /\ (UNCHANGED disk \/ \E a \in AddOns : DropsIn(a))
    BY InstallDropInsCases
  <1>2. pc' \notin ChosenLabels
    BY <1>1 DEF ChosenLabels
  <1>3. CASE UNCHANGED disk
    <2>1. UNCHANGED stack
      BY <1>3 DEF disk
    <2> QED
      BY <1>2, <2>1, SameAlike, EnvironmentAlike
  <1>4. ASSUME NEW a \in AddOns, DropsIn(a) PROVE EnvironmentInv'
    <2>1. PICK c : /\ stack' = [stack EXCEPT ![New(a)] = c]
                   /\ Attached(a, c) /\ c.services = DroppedServices(a)
      BY <1>4, DropInStack
    <2> DEFINE settings == CombineManifestSettingsWithSettingsMap(ManifestOf[a].settings, UserEnv[a])
    <2>2. MadeWith(a, c.services, settings)
      BY <2>1, DroppedKeepUser DEF Attached
    <2>3. ItemsIn(a, UserEnv[a])
      BY UserWell
    <2>4. WellChosen(a, settings)
      BY <2>3, CombinedWell
    <2>5. WellMade(a, c.services)
      BY <2>2, <2>4 DEF WellMade
    <2>6. New(a) \in Projects /\ New(a)[1] = a
      BY ProjectNames
    <2> QED
      BY <1>2, <2>1, <2>5, <2>6, EnvironmentOfOne
  <1> QED
    BY <1>1, <1>3, <1>4

\* The containers an older release left were made with what the user had sent.
LEMMA InitEnvironment ==
    ASSUME ListsAreClear PROVE Init => EnvironmentInv
PROOF
  <1> SUFFICES ASSUME Init PROVE EnvironmentInv
    OBVIOUS
  <1>1. /\ pc = "down"
        /\ \A p \in Projects : stack[p] = RunningWith(p[1], ManifestOf[p[1]]) \/ stack[p] = NoContainers
    BY DEF Init
  <1>2. ~ NoContainers.exists
    BY DEF NoContainers
  <1>3. ASSUME NEW p \in Projects, stack[p].exists PROVE WellMade(p[1], stack[p].services)
    <2>1. stack[p] = RunningWith(p[1], ManifestOf[p[1]]) /\ p[1] \in AddOns
      BY <1>1, <1>2, <1>3, ProjectOf
    <2>2. MadeWith(p[1], stack[p].services, SettingsSent(ManifestOf[p[1]].settings, UserEnv[p[1]]))
      BY <2>1, OldContainers
    <2>3. WellChosen(p[1], SettingsSent(ManifestOf[p[1]].settings, UserEnv[p[1]]))
      BY <2>1, UserWell
    <2> QED
      BY <2>2, <2>3 DEF WellMade
  <1> QED
    BY <1>1, <1>3 DEF EnvironmentInv, ChosenLabels

\* No step of the service breaks the invariant.
LEMMA NextEnvironment ==
    ASSUME ListsAreClear, EnvironmentInv, StackInv, CoreInv, [Next]_vars
    PROVE  EnvironmentInv'
PROOF
  <1>1. CASE UNCHANGED vars
    <2>1. UNCHANGED <<stack, pc, todo, migrated>>
      BY <1>1 DEF vars, bootVars, disk, locals
    <2> QED
      BY <2>1, SameAlike, EnvironmentAlike
  <1>2. CASE FetchAndMigrateManifest \/ DeletePortainerStack \/ CreateStackWithoutStart \/ InstallDropIns
    BY <1>2, FetchEnvironment, ReplaceEnvironment, DropInEnvironment
  <1>3. CASE ConnectToPortainer
    <2>1. UNCHANGED <<stack, todo, migrated>> /\ pc \in ChosenLabels
      BY <1>3 DEF ConnectToPortainer, ChosenLabels, disk, locals
    <2> QED
      BY <2>1, SameAlike, EnvironmentAlike
  <1>4. CASE \/ ResolveVersion \/ RecordVersion \/ GetVersion \/ RefuseVersion \/ Migrate
             \/ FetchFails \/ CreateStackFails \/ PushManifest
    <2>1. UNCHANGED stack /\ pc' \notin ChosenLabels
      BY <1>4 DEF ResolveVersion, RecordVersion, GetVersion, RefuseVersion, Migrate, FetchFails,
         CreateStackFails, PushManifest, Goto, Loop, Enter, disk, ChosenLabels
    <2> QED
      BY <2>1, SameAlike, EnvironmentAlike
  <1>5. CASE \/ \E v \in VolumeNames : InspectVolumes(v) \/ InspectFails(v)
             \/ RemoveContentOfOld \/ RemoveContentOfNew \/ CopyFromCache \/ RemoveUnusedVolumes
             \/ DeleteRoutes \/ CreateRoutes \/ TruncateRelease \/ UpdateVersion \/ UpdateVersionFails
    <2>1. UNCHANGED stack /\ pc' \notin ChosenLabels
      BY <1>5 DEF InspectVolumes, InspectFails, RemoveContentOfOld, RemoveContentOfNew,
         CopyFromCache, RemoveUnusedVolumes, DeleteRoutes, CreateRoutes, TruncateRelease,
         UpdateVersion, UpdateVersionFails, Goto, Loop, disk, ChosenLabels
    <2> QED
      BY <2>1, SameAlike, EnvironmentAlike
  <1>6. CASE \/ Boot \/ Setup \/ GetRegistryCredentials \/ StopStack \/ StopStackFails
             \/ ServeVolumeDrivers \/ RemoveInternalBridge \/ CreateInternalBridge
             \/ Reconnect \/ ReconnectFails \/ Start \/ StartFails
             \/ \E reboot \in BOOLEAN : Restart(reboot) \/ Die(reboot)
    <2>1. AlikeStacks
      BY <1>6, StartupAlike
    <2>2. pc' \notin ChosenLabels
      BY <1>6 DEF Boot, Setup, GetRegistryCredentials, StopStack, StopStackFails,
         ServeVolumeDrivers, RemoveInternalBridge, CreateInternalBridge, Reconnect, ReconnectFails,
         Start, StartFails, Restart, Die, Goto, Loop, Enter, ChosenLabels
    <2> QED
      BY <2>1, <2>2, EnvironmentAlike
  <1> QED
    BY <1>1, <1>2, <1>3, <1>4, <1>5, <1>6 DEF Next, Step, MigrationNext

\* Where containers are made from what they show, sending it back changes nothing.
LEMMA EnvironmentImpliesStay ==
    ASSUME ListsAreClear, CoreInv, EnvironmentInv
    PROVE  UnchangedSettingsStay
PROOF
  <1>1. SUFFICES ASSUME pc = "serving", NEW a \in Installed, stack[New(a)].exists
                 PROVE  LET compose == GetDockerComposeFromManifest([manifest[a] EXCEPT !.settings = Resent(a)])
                        IN  \A s \in DOMAIN compose.services :
                              compose.services[s].environment = stack[New(a)].services[s].environment
    BY DEF UnchangedSettingsStay
  <1>2. a \in AddOns /\ manifest[a] = Migrated(a)
    BY <1>1, InstalledAddOns DEF CoreInv, LoopInv, AfterLabels, AllMigrated, IsMigrated
  <1> DEFINE services == stack[New(a)].services
  <1>3. PICK settings : \E first \in DOMAIN ManifestOf[a].services :
          /\ WellChosen(a, settings) /\ MadeWith(a, services, settings)
          /\ EnvironmentOf(New(a)) = services[first].environment
    <2>1. New(a) \in Projects /\ New(a)[1] = a
      BY <1>2, ProjectNames
    <2>2. \E settings : \E first \in DOMAIN ManifestOf[New(a)[1]].services :
             /\ WellChosen(New(a)[1], settings) /\ MadeWith(New(a)[1], services, settings)
             /\ EnvironmentOf(New(a)) = services[first].environment
      BY <1>1, <2>1, FirstEnvironment
    <2> HIDE DEF services
    <2> QED
      BY <2>1, <2>2
  <1>4. PICK first \in DOMAIN ManifestOf[a].services : EnvironmentOf(New(a)) = services[first].environment
    BY <1>3
  <1> DEFINE sent == SettingsSent(ManifestOf[a].settings, services[first].environment)
             compose == GetDockerComposeFromManifest([manifest[a] EXCEPT !.settings = Resent(a)])
  <1>5. Resent(a) = sent
    BY <1>2, <1>4, MigratedForm DEF Resent
  <1>6. MadeWith(a, compose.services, sent)
    <2> HIDE DEF sent
    <2> QED
      BY <1>2, <1>5, ComposeWithSettings
  <1> HIDE DEF compose
  <1>7. ASSUME NEW s \in DOMAIN compose.services
        PROVE  compose.services[s].environment = services[s].environment
    <2> DEFINE own == ManifestOf[a].services[s].environment
    <2>1. /\ s \in DOMAIN ManifestOf[a].services
          /\ compose.services[s].environment = mergeEnvironmentVariables(own, sent)
          /\ services[s].environment = mergeEnvironmentVariables(own, settings)
      <3> HIDE DEF sent, services
      <3> QED
        BY <1>3, <1>6, <1>7 DEF MadeWith
    <2>2. mergeEnvironmentVariables(own, sent) = mergeEnvironmentVariables(own, settings)
      <3> HIDE DEF services
      <3> QED
        BY <1>2, <1>3, <2>1, SentBackSame
    <2> QED
      BY <2>1, <2>2
  <1> QED
    BY <1>7 DEF compose

\* A client that sends back the settings it was shown changes nothing, where the lists of the
\* manifests are clear (getInstalledAddOn and UpdateAddOn of server.go).
THEOREM Unchanged ==
    ASSUME ListsAreClear PROVE Spec => []UnchangedSettingsStay
PROOF
  <1>1. Init => EnvironmentInv
    BY InitEnvironment
  <1>2. CoreInv /\ (StackInv /\ ServingInv) /\ EnvironmentInv /\ [Next]_vars => EnvironmentInv'
    BY NextEnvironment
  <1>3. CoreInv /\ EnvironmentInv => UnchangedSettingsStay
    BY EnvironmentImpliesStay
  <1> QED
    BY <1>1, <1>2, <1>3, CoreAlways, StacksAlways, PTL DEF Spec
================================================================================
