------------------------------ MODULE MCFirmware ------------------------------
(* Two good images, one for another board and one that does not fit.  Writes of
   one and two cells against sectors of two put every write on, before and across
   the end of a sector. *)
EXTENDS FirmwareUpdate

MCPartitions == {"A", "B"}
MCSize == <<3, 3, 2, 5>>
MCCompatible == {1, 2, 4}

=============================================================================
