--------------------------- MODULE MCPacketStream ---------------------------
(* PacketStream on a scaled device: the longest packet has 7 bytes, which  *)
(* fills a data_buf of 3 words to the last one, and words can be taken for *)
(* one another: a command and a data header may be payload or a length.    *)
EXTENDS PacketStream

W(cmd, data, len) == [cmd |-> cmd, data |-> data, len |-> len]

MCWords ==
    { W("start", FALSE, 6), W("stop", FALSE, 6), \* also a legal length, as 0x0155 is
      W("none", FALSE, 0), W("none", FALSE, 3),  \* an event, short lengths
      W("none", FALSE, 7), W("none", FALSE, 8),  \* the longest, and too long
      W("none", TRUE, 5), W("none", TRUE, 9) }   \* headers of data
=============================================================================
