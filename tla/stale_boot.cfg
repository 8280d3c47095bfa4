SPECIFICATION Spec
CONSTANTS
    Devices = {d1, d2}
    NoDevice = NoDevice
    Images = {"disk.img", "none/disk.img"}
    Openable = {"disk.img"}
    HostFiles = {"t.bin", "boot.bin", "out"}
    Exports = {"out"}
    Names = {"n"}
    Texts = {"", "text", "boot"}
    Nothing = ""
    Size <- MCSize
    HostText <- MCHostText
    Missing = Missing
    Shapes <- MCShapes
SYMMETRY MCDevices
INVARIANTS
    MissingBootRefused
