----------------------------- MODULE MCIdeDriver -----------------------------
(***************************************************************************)
(* Instances of IdeDriver for TLC: an LBA drive of three sectors and a CHS *)
(* drive of two share the primary channel, an ATAPI drive has the          *)
(* secondary one.  WORD is scaled from 2^32 to 2^30, TLC's integers being  *)
(* signed 32-bit ones.                                                     *)
(***************************************************************************)
EXTENDS IdeDriver, TLC

MCCapacity == (<<0, 0>> :> 3) @@ (<<0, 1>> :> 2) @@ (<<1, 0>> :> 2)
MCTable ==
  0 :> [reserved |-> 1, type |-> "ATA", dev |-> <<0, 0>>, lba |-> TRUE, size |-> 3] @@
  1 :> [reserved |-> 1, type |-> "ATA", dev |-> <<0, 1>>, lba |-> FALSE, size |-> 2] @@
  2 :> [reserved |-> 1, type |-> "ATAPI", dev |-> <<1, 0>>, lba |-> TRUE, size |-> 0] @@
  3 :> Absent @@ 4 :> Absent
MCWord == 1073741824

\* Sectors hold small numbers: which drive and sector they came from, what was
\* written (10 and more), 99 for a port nobody drives.
MCFactory  == [p \in Places |-> 3 * p[1][2] + 6 * p[1][1] + p[2]]
MCFloating == 99
MCData     == 0..11 \cup {99}

Read(drive, lba, n) == [dir |-> "read", drive |-> drive, lba |-> lba, n |-> n, data |-> << >>]
Write(drive, lba, data) ==
  [dir |-> "write", drive |-> drive, lba |-> lba, n |-> Len(data), data |-> data]

Reads  == {Read(0, 0, 3), Read(1, 0, 2), Read(1, 1, 1)}
Writes == {Write(0, 1, <<10, 11>>), Write(1, 1, <<10>>)}
Bad    == {Read(0, 2, 2), Read(3, 0, 1), Read(5, 0, 1), Write(1, 2, <<10>>), Write(9, 0, <<10>>)}

AllRequests  == Reads \cup Writes \cup Bad
WrapRequests == Reads \cup {Read(0, MCWord - 1, 2)}
AtapiReads   == Reads \cup {Read(2, 0, 1)}
ZeroCalls    == Reads \cup {Read(0, 1, 0), Write(1, 0, << >>)}

NoFault     == [op \in {"read", "write", "flush"} |-> {{}}]
ReadFaults  == [NoFault EXCEPT !["read"] = {{}, {"UNC"}, {"DF"}, {"ABRT", "IDNF"}}]
WriteFaults == [ReadFaults EXCEPT !["write"] = {{}, {"DF"}, {"IDNF"}}, !["flush"] = {{}, {"ABRT"}}]

\* What the theorems of IdeDriverProofs ask of requests: these meet it.
ASSUME HonestRequests == Honest(AllRequests)
=============================================================================
