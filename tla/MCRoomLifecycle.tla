--------------------------- MODULE MCRoomLifecycle ----------------------------
(* Small instances of RoomLifecycle; the properties are temporal, so none has *)
(* a symmetry.                                                                *)
EXTENDS RoomLifecycle

=============================================================================
