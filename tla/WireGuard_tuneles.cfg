SPECIFICATION Spec
CONSTANTS
    x = x
    y = y
    z = z
    a = a
    b = b
    Ids = {i1}
    Textos = {x, y, z}
    Pubs = {a, b}
    Iniciales <- InicialesMC
    Formularios <- FormulariosMC
    Paquetes <- PaquetesMC
    Importables <- ImportablesMC
    Tareas = {h1, h2}
    AlArrancar = AlArrancar
    Ninguno = Ninguno
    Roto = Roto
    MaxAverias = 2
    MaxEdiciones = 1
SYMMETRY Simetria
CHECK_DEADLOCK FALSE
INVARIANTS
    TypeOK
    HooksAutorizados
    TunelConPerfil
    BajadaCoherente
    PskDeSuPeer
