SPECIFICATION Spec
CONSTANTS
    sm = sm
    sa = sa
    sb = sb
    Servidores = {sm, sa, sb}
    Orden <- OrdenMC
    Monitores = {sm}
    Rangos <- RangosMC
    RangoInicial <- RangoMC
    Tipos <- TiposMC
    Deseos <- DeseosMC
    Peticiones = {q1}
    Nadie = Nadie
SYMMETRY Simetria
CONSTRAINT
    SinDesvio
PROPERTIES
    SeleccionVerificada
