----------------------------- MODULE MCUdpSocket -----------------------------
\* Three calls on one socket; an endpoint of each family, and one that leaves the
\* port to the system; one or two blocking threads.
EXTENDS UdpSocket, TLC
MCEndpoints == {<<"v4", 0>>, <<"v4", 1>>, <<"v6", 2>>}
Symmetry == Permutations(Clients)
=============================================================================
