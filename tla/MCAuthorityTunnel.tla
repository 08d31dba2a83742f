------------------------- MODULE MCAuthorityTunnel -------------------------
(* AuthorityTunnel for TLC: two streams, one of them with less traffic.     *)
EXTENDS AuthorityTunnel

UpFrames   == <<2, 1>>
DownFrames == <<1, 0>>
=============================================================================
