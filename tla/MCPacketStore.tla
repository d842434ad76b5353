--------------------------- MODULE MCPacketStore ----------------------------
(* Instance of PacketStore for TLC; stations that are not the own one are  *)
(* interchangeable.                                                        *)
EXTENDS PacketStore, TLC

OtherStations == Permutations(Names \ {Me})
=============================================================================
