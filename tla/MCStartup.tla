------------------------------- MODULE MCStartup -------------------------------
EXTENDS Startup

\* a1 has two volumes and settings, a2 a volume and the internal bridge; the name
\* of a2 has no dash, so that its stack has the same name under portainer.
MCAddOnOrder == <<"my-addon", "addon">>

Service(mode, volumes) ==
    [type |-> ComposeType, image |-> "img", restart |-> "always", networkMode |-> mode,
     networks |-> {}, volumes |-> volumes, environment |-> [lang |-> "c"], user |-> ""]
Volume(key, driver) == [key |-> key, name |-> "", driver |-> driver]

MCManifestOf == [a \in {"my-addon", "addon"} |->
    IF a = "addon"
    THEN Manifests([s |-> Service(InternalAddOnNetworkName, {"v1"})],
            [e |-> NewEnvironment(ComposeType, {Volume("v1", "local-public")}, {})],
            <<NewSettings("p1", "default", <<>>)>>, {"r1"}, TRUE)
    ELSE Manifests([s |-> Service("", {"v1", "v2"})],
            [e |-> NewEnvironment(ComposeType, {Volume("v1", ""), Volume("v2", "")}, {})],
            <<NewSettings("p1", "", <<[value |-> "x", selected |-> TRUE], [value |-> "y", selected |-> FALSE]>>),
              NewSettings("p2", "default", <<>>), NewSettings("p3", "", <<>>),
              NewSettings("p4", "", <<[value |-> "x", selected |-> FALSE]>>)>>, {}, TRUE)]

MCUserEnv == [a \in {"my-addon", "addon"} |->
    IF a = "addon" THEN [p1 |-> "mine"]
    ELSE [p1 |-> "y", p2 |-> "mine", p3 |-> "mine"]]

ASSUME MCListsAssumption == ListsAreClear
================================================================================
