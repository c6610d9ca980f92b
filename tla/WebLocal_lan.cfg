SPECIFICATION LiveSpec
CONSTANTS
    Servidores = {s1, s2}
    Puertos = {p1, p2}
    Paradas = {k1, k2}
    Peticiones = {q1, q2, q3}
    Ips = {i1}
    Sesiones = {t1, t2}
    MaxFailed = 2
    Nadie = Nadie
INVARIANTS
    TypeOK
    SesionesDelCodigo
    FallosAcotados
    EscuchaConDueno
PROPERTIES
    EstadoReal
