SPECIFICATION Spec
CONSTANTS
    Puertos = {p1, p2}
    Endurecen = {h1}
    Cortan = {q1}
    Entornos <- EntornosNft
    Ninguno = Ninguno
    MaxAverias = 0
SYMMETRY Simetria
CHECK_DEADLOCK FALSE
PROPERTIES
    RestauraSiempre
