SPECIFICATION Spec
CONSTANTS
    Puertos = {p1, p2}
    Tokens = {t1}
    Tareas = {h1}
    Entornos <- EntornoIdeal
    Ninguno = Ninguno
    MaxAverias = 1
CHECK_DEADLOCK FALSE
INVARIANTS
    ArchivoAplicado
