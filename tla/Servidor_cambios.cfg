SPECIFICATION Spec
CONSTANTS
    Puertos = {p1, p2, p3}
    Endurecen = {h1}
    Cortan = {q1, q2}
    Entornos <- EntornosMC
    Ninguno = Ninguno
    MaxAverias = 1
SYMMETRY Simetria
CONSTRAINT
    SinMezcla
    SinCruces
CHECK_DEADLOCK FALSE
INVARIANTS
    TypeOK
    PuertoProtegido
PROPERTIES
    TodoONada
