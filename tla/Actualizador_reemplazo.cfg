SPECIFICATION Spec
CONSTANTS
    Versiones <- VersionesMC
    Aplicaciones = {a1, a2}
    Ayudantes = {h1, h2}
    Peticiones = {q1, q2}
    Portable = TRUE
    Reintentos = 2
    Cambio = 0
SYMMETRY Simetria
INVARIANTS
    TypeOK
    HayEjecutable
PROPERTIES
    PanelDelFallo
CHECK_DEADLOCK FALSE
