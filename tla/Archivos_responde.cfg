SPECIFICATION LiveSpecResponde
CONSTANTS
    Con = {c1}
    Gestores = {s1, s2}
    Cierres = {d1}
    Otras = {e1}
    Textos = {x1, x2}
    Nadie = Nadie
INVARIANTS
    ArchivosTypeOK
    UnSoloCanal
PROPERTIES
    SoloLoLeido
    ApiNoCongelada
