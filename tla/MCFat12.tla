------------------------------- MODULE MCFat12 -------------------------------
(***************************************************************************)
(* Volumes of four clusters with two files, for TLC: every way to lay a    *)
(* file of one to three clusters out, with another one in what is left.    *)
(* A sector has three bytes, a directory entry two, the table nine.        *)
(***************************************************************************)
EXTENDS Fat12, FiniteSets

Chains(n)   == {c \in [1..n -> 2..5] : Cardinality({c[k] : k \in 1..n}) = n}
Used(c)     == {c[k] : k \in DOMAIN c}
File(n, c, size) == [name |-> n, chain |-> c, size |-> size]

\* Files that fill their last cluster, or have one byte in it.
Sizes(c) == {(Len(c) - 1) * ClusterSize + 1, Len(c) * ClusterSize}

Pairs ==
  {<<a, b>> \in (UNION {Chains(n) : n \in 1..3}) \X (UNION {Chains(n) : n \in 1..2}) :
     Used(a) \cap Used(b) = {}}

Volume(files, length) == [files |-> files, eoc |-> 4088, length |-> length]
Whole == UNION {{Volume(<<File("A", p[1], s), File("B", p[2], 1 + (Len(p[2]) - 1) * ClusterSize)>>,
                        WholeLength) : s \in Sizes(p[1])} : p \in Pairs}
\* Images of one of these volumes, cut off at each place.
Cut == {Volume(<<File("A", <<4, 2, 5>>, 2 * ClusterSize + 2), File("B", <<3>>, ClusterSize)>>, n) :
          n \in 0..WholeLength}

MCVolumes == Whole \cup Cut
ASSUME VolumesWellFormed == \A v \in MCVolumes : WellFormed(v) /\ Minimal(v)

MCNames   == {"A", "B", "C"}

\* An empty file has no cluster.
EmptyVolumes == {Volume(<<File("A", << >>, 0), File("B", <<3>>, 3)>>, WholeLength)}
=============================================================================
