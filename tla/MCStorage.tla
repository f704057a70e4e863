------------------------------ MODULE MCStorage -----------------------------
(***************************************************************************)
(* The drive manager over both drivers, with a disk of three sectors of    *)
(* two words each and requests of one to four bytes, a word for each byte. *)
(***************************************************************************)
EXTENDS DriveMgr

MCSizes == {1, 2, 3, 4}
-----------------------------------------------------------------------------
\* What a caller of the drive manager can rely on when a request has returned:
\* the words that move are those of the drive that was found (ATA-PIO.cc:117),
\* a write is on the disk and a read returns what is there, and a read that the
\* AHCI device has failed is not taken for one with data (AHCI-DMA.cc:289).
TransfersExact == DriveAddressed /\ WriteStored /\ ReadMatches /\ ErrorsSeen

\* Whatever came before, a request changes only the words it is about, a read
\* leaves the commands alone that are still in their slots (AHCI-DMA.cc:205), and
\* a drive is taken for what it is (DriveMgr.cc:170).
RequestsApart == WriteConfined /\ CommandsKept /\ DetectedRight

\* A drive that is found is mounted. A request to an ATA drive returns, whatever
\* fails and however long the drive is busy (ATA-PIO.cc:45). An AHCI read returns
\* exactly when no earlier failed read has halted its port: the first failed read
\* returns, and the next one on a halted port hangs the kernel (AHCI-DMA.cc:272).
RequestsEnd == Mounted /\ RequestsReturn /\ ReadsReturn /\ HaltedWaits
=============================================================================
