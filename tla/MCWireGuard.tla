----------------------------- MODULE MCWireGuard -----------------------------
(***************************************************************************)
(* Small instances of WireGuard for TLC.                                   *)
(***************************************************************************)
EXTENDS WireGuard, TLC

CONSTANTS x, y, \* the hooks of the user, and those of somebody else
          z,    \* what the free text of somebody else brings
          a, b  \* two peers

campo(p, n) == [pub |-> p, nueva |-> n]
formulario(h, t, ps) ==
    [texto |-> x, hooks |-> h, tabla |-> {}, auto |-> t, peers |-> ps]

\* The user allows hooks and types a preshared key; or changes the peer and
\* leaves the key empty.
FormulariosMC == {formulario(TRUE, TRUE, <<campo(a, TRUE)>>),
                  formulario(FALSE, FALSE, <<campo(b, FALSE)>>)}

\* Somebody else's backup and .conf file, and a backup with no profiles.
PaquetesMC ==
    {[i \in Ids |-> [texto |-> y, hooks |-> TRUE, tabla |-> {z}, auto |-> TRUE,
                     peers |-> <<[pub |-> b, psk |-> b]>>]], Vacio}
ImportablesMC == {[texto |-> y, peers |-> <<[pub |-> a, psk |-> Ninguno]>>]}

\* A new installation, and one with a profile whose hooks are allowed.
InicialesMC ==
    {[i \in Ids |-> [texto |-> x, hooks |-> TRUE, tabla |-> {}, auto |-> TRUE,
                     peers |-> <<[pub |-> a, psk |-> a]>>]], Vacio}

\* Two peers with their keys, then the first one removed.
FormulariosPeers == {formulario(FALSE, FALSE, <<campo(a, TRUE), campo(b, TRUE)>>),
                     formulario(FALSE, FALSE, <<campo(b, FALSE)>>)}
Ningunos == {}
SoloVacio == {Vacio}

Simetria == Permutations(Tareas)
=============================================================================
