------------------------------ MODULE MCFiles -------------------------------
(***************************************************************************)
(* Disks and a directory for Files: volumes as they are formatted in       *)
(* practice, with the layout their formatter documents, the cluster counts *)
(* on both sides of the limits between the kinds included.                 *)
(***************************************************************************)
EXTENDS Files

Boot(cluster_size, fats, dir_number, sectors) ==
  [sector_size |-> 512, cluster_size |-> cluster_size, reserved |-> 1,
   fat_number |-> 2, dir_number |-> dir_number, fatsz16 |-> fats, fatsz32 |-> 0,
   totsec16 |-> sectors, totsec32 |-> 0, rootclus |-> 0]

Fat32Boot(sectors, fats, rootclus) ==
  [Boot(1, 0, 0, 0) EXCEPT !.reserved = 32, !.fatsz32 = fats,
                           !.totsec32 = sectors, !.rootclus = rootclus]

Entry(main, ext, written, id, clusters) ==
  [main |-> main, ext |-> ext, long_name |-> FALSE, written |-> written, id |-> id,
   cluster |-> 100 + id, clusters |-> clusters]

\* Two characters stand for the eight of a name, two for the three of an
\* extension.  The last entry is behind what sys_open reads.
Directory83 == <<
  [Entry(<<"a", "b">>, <<" ", " ">>, <<"a", "b">>, 1, 1) EXCEPT !.long_name = TRUE],
  Entry(<<"0xE5", "b">>, <<" ", " ">>, <<"a", "b">>, 2, 1),
  Entry(<<"a", " ">>, <<"b", " ">>, <<"a", ".", "b">>, 3, 2),
  Entry(<<"a", "b">>, <<" ", " ">>, <<"a", "b">>, 4, 1),
  Entry(<<"c", " ">>, <<" ", " ">>, <<"c">>, 5, 1) >>

\* A file whose map runs over the inode behind its own and the link of that,
\* and one whose map just stays in its own slot.
Overlong == [Directory83 EXCEPT ![3].clusters = INODE_WORDS + NR_BLOCK + 2,
                                ![4].clusters = NR_BLOCK + 2]

\* A 1.44 MB floppy, which has no partition table.
Floppy == [signature |-> FALSE, first_log |-> 0, boot |-> Boot(1, 9, 224, 2880),
           kind |-> 1, root |-> 19, data |-> 33, dir |-> <<>>]

\* 4084 clusters are the most FAT12 has, 4085 the least of FAT16.  A root
\* directory of 20 entries fills a sector and a part of another.
LargestFat12 == [signature |-> TRUE, first_log |-> 63, boot |-> Boot(1, 12, 20, 4111),
                 kind |-> 1, root |-> 25, data |-> 27, dir |-> <<>>]

SmallestFat16 == [signature |-> TRUE, first_log |-> 63, boot |-> Boot(1, 16, 512, 4150),
                  kind |-> 2, root |-> 33, data |-> 65, dir |-> <<>>]

\* 65524 clusters are the most FAT16 has, 65525 the least of FAT32.
LargestFat16 ==
  [signature |-> TRUE, first_log |-> 63,
   boot |-> [Boot(1, 256, 512, 0) EXCEPT !.totsec32 = 66069],
   kind |-> 2, root |-> 513, data |-> 545, dir |-> <<>>]

SmallestFat32 == [signature |-> TRUE, first_log |-> 63, boot |-> Fat32Boot(66581, 512, 5),
                  kind |-> 3, root |-> 1059, data |-> 1056, dir |-> Directory83]

WithLongFile == [SmallestFat32 EXCEPT !.dir = Overlong]

\* Sectors of 1024 bytes, which read_super refuses.
OtherSectors == [Floppy EXCEPT !.boot.sector_size = 1024]

MCDisks == {Floppy, LargestFat12, SmallestFat16, LargestFat16, SmallestFat32,
            WithLongFile, OtherSectors}

MCNames == {<<"a", "b">>, <<"a", ".", "b">>, <<"c">>}
=============================================================================
