SPECIFICATION Spec
CONSTANTS
    n1 = n1
    n2 = n2
    n3 = n3
    Nombres = {n1, n2, n3}
    Orden <- OrdenDistinto
    Puertos = {p1}
    Con = {c1, c2, c3}
    Peticiones = {q1}
    Nadie = Nadie
    MaxReloj = 1
SYMMETRY Simetria
INVARIANTS
    LocalhostValido
PROPERTIES
    RelevoSinCorte
    EstadoEstable
    ImplementaPromesa
