SPECIFICATION LiveSpec
CONSTANTS
    n1 = n1
    n2 = n2
    n3 = n3
    Nombres = {n1, n2}
    Orden <- OrdenDistinto
    Puertos = {p1}
    Con = {c1, c2}
    Peticiones = {q1, q2}
    Nadie = Nadie
    MaxReloj = 1
PROPERTIES
    CaidaDetectada
    PuertoReabierto
    ImplementaPromesa
