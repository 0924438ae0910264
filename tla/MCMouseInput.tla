---------------------------- MODULE MCMouseInput ----------------------------
(* A screen of 3 by 2 pixels and packets with every button, both signs of  *)
(* both motions, and motions that leave the screen.                          *)
EXTENDS MouseInput

\* flags: bit 3 always set, bits 4 and 5 the signs, bits 0 to 2 the buttons.
MCPackets ==
    {<<8 + 1, 2, 1>>, <<8 + 16 + 32 + 2, 255, 255>>, <<8 + 16 + 4, 254, 0>>}
=============================================================================
