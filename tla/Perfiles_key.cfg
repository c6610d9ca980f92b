SPECIFICATION Spec
CONSTANTS
    Nombres = {n1}
    Hosts = {s1}
    Tareas = {h1}
    Paquetes <- SinPaquetes
    Ninguno = Ninguno
    MaxTokens = 2
    MaxAverias = 0
    MaxEdiciones = 0
CHECK_DEADLOCK FALSE
INVARIANT KeyDelPerfilQueda
