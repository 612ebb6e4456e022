--------------------------- MODULE MCConfigSave ---------------------------
(* ConfigSave on one object of each kind.                                  *)
EXTENDS ConfigSave

CONSTANTS i1, p1, r1, r2

OneInbound == {i1}
OnePlain == {p1}
Both == {i1, p1}
AllObjects == {i1, p1, Tls, Clients, Base}
TwoRequests == {r1, r2}
=============================================================================
