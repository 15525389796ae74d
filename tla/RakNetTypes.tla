----------------------------- MODULE RakNetTypes -----------------------------
(***************************************************************************)
(* The plain data of the binding: the message identifiers that make up the *)
(* first byte of every packet.  Only those some part of the system tells   *)
(* apart are named; what the programs do with them is a comparison of      *)
(* numbers, so they keep the values the Rust enum gives them (it counts    *)
(* from 0, one by one).                                                    *)
(***************************************************************************)
EXTENDS Naturals

ID_CONNECTION_REQUEST_ACCEPTED == 16
ID_CONNECTION_ATTEMPT_FAILED   == 17
ID_NEW_INCOMING_CONNECTION     == 19
ID_DISCONNECTION_NOTIFICATION  == 21
ID_CONNECTION_LOST             == 22
ID_TIMESTAMP                   == 27
ID_ADVERTISE_SYSTEM            == 29
ID_USER_PACKET_ENUM            == 134

\* DefaultMessageIDTypes has 135 members, the last of which is the first
\* identifier left to applications; the byte on the wire goes on to 255.
MessageId == 0 .. 255

=============================================================================
