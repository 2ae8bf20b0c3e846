---------------------------- MODULE MCFatImage ----------------------------
(* Small boot partitions for FatImage: seven or eight clusters, four slots *)
(* in a directory cluster, root directories filled to every level.         *)
EXTENDS FatImage

MCNames == {"kernel", "markos", "net", "wpa1", "wpa2"}
MCShort == [n \in MCNames |-> IF n \in {"wpa1", "wpa2"} THEN "WPA~1" ELSE n]
MCLfn == [n \in MCNames |-> IF n \in {"wpa1", "wpa2"} THEN 2 ELSE 1]

\* Content over the last two cells: one free cluster taken, one in the kernel.
MCScrawl == [c \in {8, 9} |-> IF c = 8 THEN Eoc ELSE 3]

In(dirs, n) == [dirs |-> dirs, name |-> n]
MCPaths == {In(<<>>, "kernel"), In(<<"markos">>, "net"),
            In(<<"markos">>, "wpa1"), In(<<"markos">>, "wpa2")}

\* An image whose root holds the kernel, of two clusters, and fill - 1 more
\* entries; with sub > 0 it also has the directory markos with sub of its
\* slots taken.
Base(fill, sub) ==
  LET root == [j \in 1..SlotsPer |->
                 CASE j = 1 -> Entry("kernel", 3, 2, FALSE)
                   [] j > 1 /\ j <= fill -> Long
                   [] j = fill + 1 /\ sub > 0 -> Entry("markos", 5, 0, TRUE)
                   [] OTHER -> Zero]
      dir == [j \in 1..SlotsPer |->
                CASE j = 1 -> Entry(".", 5, 0, TRUE)
                  [] j = 2 -> Entry("..", 0, 0, TRUE)
                  [] j > 2 /\ j <= sub -> Long
                  [] OTHER -> Zero]
      fat == [c \in {0} \cup Clusters |->
                CASE c = 3 -> 4
                  [] c \in {0, Root, 4} \/ (c = 5 /\ sub > 0) -> Eoc
                  [] OTHER -> Free]
  IN [data |-> [c \in Clusters |->
                  CASE c = Root -> root
                    [] c = 3 -> Chunk(0, 1)
                    [] c = 4 -> Chunk(0, 2)
                    [] c = 5 /\ sub > 0 -> dir
                    [] OTHER -> Blank],
      fats |-> <<fat, fat>>,
      free |-> Cardinality({c \in Clusters : fat[c] = Free})]

AnyFill == {Base(fill, 0) : fill \in 1..4}
           \cup {Base(fill, sub) : fill \in {1}, sub \in 2..4}
=============================================================================
