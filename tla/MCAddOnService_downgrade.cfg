CONSTANTS
    Clients = {c1, c2}
    AddOns = {a1, codesys}
    MaxVersion = 2
    Images = {"base", "2"}
    VolumeNames = {"data", "1"}
    RouteIds = {"ui"}
    ImagesOf <- MCImagesOf
    VolumesOf <- MCVolumesOf
    RoutesOf <- MCRoutesOf
    Delivered <- MCDelivered
    Codesys = {codesys}
SPECIFICATION Spec
PROPERTY NoDowngrade
