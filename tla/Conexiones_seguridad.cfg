SPECIFICATION Spec
CONSTANTS
    n1 = n1
    n2 = n2
    n3 = n3
    Nombres = {n1, n2}
    Orden <- OrdenEmpate
    Puertos = {p1, p2}
    Con = {c1, c2, c3}
    Peticiones = {q1, q2}
    Nadie = Nadie
    MaxReloj = 1
SYMMETRY Simetria
INVARIANTS
    TypeOK
    PuertosDelPropietario
    SinClientesHuerfanos
PROPERTIES
    CierreSoloPropio
