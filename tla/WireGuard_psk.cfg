SPECIFICATION Spec
CONSTANTS
    x = x
    y = y
    z = z
    a = a
    b = b
    Ids = {i1}
    Textos = {x, y, z}
    Pubs = {a, b}
    Iniciales <- SoloVacio
    Formularios <- FormulariosPeers
    Paquetes <- Ningunos
    Importables <- Ningunos
    Tareas = {h1}
    AlArrancar = AlArrancar
    Ninguno = Ninguno
    Roto = Roto
    MaxAverias = 0
    MaxEdiciones = 2
CHECK_DEADLOCK FALSE
PROPERTIES
    PskConservada
