SPECIFICATION Spec
CONSTANTS
    sm = sm
    sa = sa
    sb = sb
    Servidores = {sm, sa, sb}
    Orden <- OrdenMC
    Monitores = {sm, sa}
    Rangos <- RangosMC
    RangoInicial <- RangoMC
    Tipos <- TiposMC
    Deseos <- DeseosMC
    Peticiones = {q1, q2}
    Nadie = Nadie
SYMMETRY Simetria
CONSTRAINT
    SinDesvio
    UnMonitor
INVARIANTS
    TypeOK
    TunelesDeLaConfig
    PrometheusAlDia
