------------------------------ MODULE MCStream ------------------------------
(* Rings of two characters whose indices wrap around after four, a screen of  *)
(* two short rows, and lines longer than the ring.                           *)
EXTENDS Stream

MCSerial == {"a", "nl", "^U", "^H", "^P"}
MCPrinted == {"p", "nl"}
=============================================================================
