SPECIFICATION Spec
CONSTANTS
    Nombres = {n1}
    Hosts = {s1, s2}
    Tareas = {h1, h2}
    Paquetes <- PaquetesMC
    Ninguno = Ninguno
    MaxTokens = 2
    MaxAverias = 1
    MaxEdiciones = 1
SYMMETRY Simetria
CHECK_DEADLOCK FALSE
INVARIANTS
    TypeOK
    UltimaPalabra
    KeyCreadaSirve
    SinResiduos
PROPERTIES
    HuellaFirme
