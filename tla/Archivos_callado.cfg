SPECIFICATION LiveSpec
CONSTANTS
    Con = {c1}
    Gestores = {s1}
    Cierres = {d1}
    Otras = {e1}
    Textos = {x1}
    Nadie = Nadie
PROPERTIES
    ApiNoCongelada
