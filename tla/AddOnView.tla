-------------------------------- MODULE AddOnView -------------------------------
(***************************************************************************)
(* Installed add-ons as the gRPC server shows them to a client             *)
(* (internal/aom/server/server.go): which of them, with what status, and   *)
(* their settings, which it also takes back.                               *)
(***************************************************************************)
EXTENDS Manifest

\* What docker says of a container: "created" until it is started, "exited" when it
\* has ended, and "up" in between, or what its health check says.
convertContainerStatusToAddOnStatus(state) ==
    CASE state = "exited" -> "Error"
      [] state = "unhealthy" -> "Unhealthy"
      [] state = "starting" -> "Starting"
      [] OTHER -> "Running"

\* The first container that does not run decides; no containers are an error.
GetAddOnStatus(states) ==
    LET statuses == {convertContainerStatusToAddOnStatus(s) : s \in states}
    IN  CASE statuses = {} -> "Error"
          [] statuses = {"Running"} -> "Running"
          [] OTHER -> CHOOSE s \in statuses : s # "Running"

\* Who may not manage add-ons sees those with a permission of their own.
filterAddOnsWithPermission(addOns, access) == addOns \cap access

transformCatalogueAddOnsToGrpcAddOnsWithStatus(addOns, states) ==
    [a \in addOns |-> GetAddOnStatus(states[a])]

listInstalledAddOns(addOns, manage, access, states) ==
    transformCatalogueAddOnsToGrpcAddOnsWithStatus(
        IF manage THEN addOns ELSE filterAddOnsWithPermission(addOns, access), states)

--------------------------------------------------------------------------------
\* Settings

mapSettingToGrpcSetting(settings) ==
    [i \in DOMAIN settings |->
        IF settings[i].select = <<>>
        THEN [name |-> settings[i].name, oneof |-> "TextBox", value |-> settings[i].value]
        ELSE [name |-> settings[i].name, oneof |-> "DropDownList", elements |-> settings[i].select]]

\* Faulty variant: the selection is left as it is in the manifest.
SetTextBoxesOnly(shown, env) ==
    [i \in DOMAIN shown |->
        IF shown[i].name \in DOMAIN env /\ shown[i].oneof = "TextBox"
        THEN [shown[i] EXCEPT !.value = env[shown[i].name]] ELSE shown[i]]

\* The manifest has the defaults; the containers have the values.
setCurrentEnvironmentValues(shown, env) ==
    [i \in DOMAIN shown |->
        IF shown[i].name \notin DOMAIN env THEN shown[i]
        ELSE IF shown[i].oneof = "TextBox" THEN [shown[i] EXCEPT !.value = env[shown[i].name]]
        ELSE [shown[i] EXCEPT !.elements = [e \in DOMAIN @ |->
                [@[e] EXCEPT !.selected = (shown[i].elements[e].value = env[shown[i].name])]]]]

mapGrpcSettingToSetting(sent) ==
    [i \in DOMAIN sent |->
        IF sent[i].oneof = "TextBox" THEN NewSettings(sent[i].name, sent[i].value, <<>>)
        ELSE NewSettings(sent[i].name, "", sent[i].elements)]
================================================================================
