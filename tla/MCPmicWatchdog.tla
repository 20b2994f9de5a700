--------------------------- MODULE MCPmicWatchdog ---------------------------
(* The device posing a few of its quests, with the driver's whole table.   *)
EXTENDS PmicWatchdog

MCResponses == [q \in 0..15 |->
    <<<<255, 15, 240,  0>>, <<176,  64, 191,  79>>, <<233,  25, 230,  22>>, <<166,  86, 169,  89>>,
      <<117, 133, 122, 138>>, << 58, 202,  53, 197>>, << 99, 147, 108, 156>>, << 44, 220,  35, 211>>,
      <<210,  34, 221,  45>>, <<157, 109, 146,  98>>, <<196,  52, 203,  59>>, <<139, 123, 132, 116>>,
      << 88, 168,  87, 167>>, << 23, 231,  24, 232>>, << 78, 190,  65, 177>>, <<  1, 241,  14, 254>>>>[q + 1]]
=============================================================================
