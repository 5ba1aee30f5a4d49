------------------------------ MODULE MCVolume ------------------------------
(***************************************************************************)
(* Volume with small cards: FAT16 and FAT32 in a partition or on the whole  *)
(* card, FAT12, one whose clusters have three blocks, and one that is       *)
(* blank.                                                                   *)
(***************************************************************************)
EXTENDS Volume

NoTable == [valid |-> FALSE, first |-> 0]

Boot(perCluster, perFat16, perFat32, rootEntries, total16, total32, cluster) ==
  [blockSize |-> 512, fats |-> 2, reserved |-> 1, perCluster |-> perCluster, perFat16 |-> perFat16,
   perFat32 |-> perFat32, rootEntries |-> rootEntries, total16 |-> total16, total32 |-> total32,
   rootCluster |-> cluster]

SuperFloppy(boot, size) == [table |-> NoTable, boot |-> [b \in {0} |-> boot], rootSize |-> size]

Partitioned(first, boot, size) ==
  [table |-> [valid |-> TRUE, first |-> first], boot |-> [b \in {first} |-> boot], rootSize |-> size]

Fat16Card == SuperFloppy(Boot(2, 1, 0, 3, 12, 0, 0), 0)
Fat32Card == Partitioned(2, Boot(1, 0, 1, 0, 0, 14, 2), 2)
Fat32Whole == SuperFloppy(Boot(2, 0, 1, 0, 0, 21, 3), 4)
Fat12Card == SuperFloppy(Boot(4, 1, 0, 4, 10, 0, 0), 0)
OddCard == Partitioned(2, Boot(3, 1, 0, 4, 20, 0, 0), 0)
BlankCard == [table |-> NoTable, boot |-> << >>, rootSize |-> 0]

MCCards == {Fat16Card, Fat32Card, Fat32Whole, Fat12Card, OddCard, BlankCard}

=============================================================================
