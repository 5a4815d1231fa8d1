------------------------------- MODULE MCUsb -------------------------------
(* What may be plugged in: the Ethernet function, with what it sends and its *)
(* control endpoint, which is not split; a keyboard behind the hub, with its  *)
(* control endpoint; or a keyboard while Ethernet frames come in.             *)
EXTENDS UsbHost

MCPlugged == {{"eth0", "out"}, {"keys0"}, {"in", "keys"}}
=============================================================================
