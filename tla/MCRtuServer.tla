---------------------------- MODULE MCRtuServer ----------------------------
(* RtuServer with a TCP session beside the serial port; the role of the TCP
   client may not write to unit 1. *)
EXTENDS RtuServer

MCDenied == {<<"tcp", 1, "write">>}
=============================================================================
