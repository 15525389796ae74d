------------------------------ MODULE MCProxy ------------------------------
\* Instances of the proxy for TLC.
EXTENDS ProxyInvariant, TLC

\* Every instance has an address of its own, or all share one: an instance
\* that was restarted on the same host and port.
OwnAddress    == [c \in Client |-> c]
SharedAddress == [c \in Client |-> "host:port"]

UserMessages     == {ID_USER_PACKET_ENUM}
RelayedAndNot    == {ID_TIMESTAMP, ID_ADVERTISE_SYSTEM}
NoMessages       == {}
Leaves           == {ID_DISCONNECTION_NOTIFICATION}
LeavesOrIsLost   == {ID_DISCONNECTION_NOTIFICATION, ID_CONNECTION_LOST}

Interchangeable == Permutations(Client) \cup Permutations(Slot)
=============================================================================
