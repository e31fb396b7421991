--------------------------- MODULE MCDesktopIcons ---------------------------
(* Names 1 and 3 are candidates for a new file, 2 is a folder, 4 is hidden. *)
EXTENDS DesktopIcons

MCNewName == [file |-> <<1, 3>>, folder |-> <<2>>, shortcut |-> <<3, 4>>]
=============================================================================
