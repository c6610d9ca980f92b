SPECIFICATION Spec
CONSTANTS
    Puertos = {p1, p2}
    Tokens = {t1, t2}
    Tareas = {h1, h2}
    Entornos <- EntornosMC
    Ninguno = Ninguno
    MaxAverias = 1
SYMMETRY Simetria
CHECK_DEADLOCK FALSE
INVARIANTS
    TypeOK
    CambioExclusivo
    PerfilAlcanzable
    PerfilRecuperable
    ClavesDeFlujo
