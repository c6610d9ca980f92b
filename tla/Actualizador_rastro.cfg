SPECIFICATION Spec
CONSTANTS
    Versiones <- VersionesMC
    Aplicaciones = {a1, a2}
    Ayudantes = {h1}
    Peticiones = {q1}
    Portable = FALSE
    Reintentos = 2
    Cambio = 0
SYMMETRY Simetria
PROPERTIES
    PanelDelFallo
CHECK_DEADLOCK FALSE
