---------------------------- MODULE ToolLogProofs ----------------------------
(***************************************************************************)
(* Safety proofs about ToolLog, for every capacity, every length of lines,  *)
(* any number of them and every set of faults.                              *)
(*                                                                         *)
(* What the log promises is about sums of lengths.  The prover takes no     *)
(* induction over sequences, but it knows that a set of natural numbers has *)
(* a least element: two sums that differ would differ first somewhere.      *)
(***************************************************************************)
EXTENDS ToolLog, TLAPS, WellFoundedInduction, NaturalsInduction

-----------------------------------------------------------------------------
(* The inductive invariant *)

\* A handle points to a file that is there, and a line in hand bears a number that was given.
HandInv ==
    \A w \in Logs :
        /\ handle[w] = "backup" => backup # None
        /\ line[w] # None => line[w].id \in 1..next - 1

\* A file the manager has to itself is as long as it counts and as failed appends left it, and
\* has no room when it is rotated.
OwnFileInv ==
    ~shared =>
        /\ pc[Helper] = "idle" /\ handle[Manager] \in {"file", "none"}
        /\ handle[Manager] = "file" => Length(file) = count[Manager] + left
        /\ pc[Manager] = "append" => handle[Manager] = "file" /\ file = EmptyFile
        /\ pc[Manager] = "remove" =>
             file # None /\ Length(file) + DiskLength(Manager) > MaxFileBytes
        /\ pc[Manager] = "rename" => backup = None
        /\ pc[Manager] = "reopen" => file = None

IdsOf(f) == {l.id : l \in LinesOf(f)}

\* A line whose write is over is in the file or was hit by a fault.
MissedInv ==
    ~shared =>
        /\ pc[Manager] = "push" => line[Manager].id \in hit \cup IdsOf(file)
        /\ pc[Manager] = "reopenFailed" => line[Manager].id \in hit

\* Lines are kept in the order of their numbers, the backup before the file, and what was
\* dropped came before them; it was dropped for a whole file.
OrderInv ==
    ~shared =>
        /\ \A id \in logged \cup KeptIds : id < next
        /\ pc[Manager] \notin {"idle", "push"} =>
             \A id \in logged \cup KeptIds : id < line[Manager].id
        /\ \A old \in IdsOf(backup), new \in IdsOf(file) : old < new
        /\ \A id \in logged \ KeptIds : \A kept \in KeptIds : id < kept
        /\ logged \ KeptIds # {} =>
             \A bytes \in LineBytes :
                (\A b \in LineBytes : b <= bytes) => KeptBytes + bytes + 1 > MaxFileBytes

\* A file that only the helper appends to was never shorter than what was measured of it.
WindowInv ==
    shared /\ ~disturbed =>
        /\ file # None /\ pc[Manager] = "idle"
        /\ measured # None => measured <= Length(file)
        /\ cached # None => cached <= Length(file)
        /\ cached = Length(file) => lines = Shown(file, cached)

Inv == TypeOK /\ BufferBounded /\ HandInv /\ OwnFileInv /\ MissedInv /\ OrderInv /\ WindowInv

-----------------------------------------------------------------------------
(* Sums of lengths *)

LEMMA NatMinimum ==
    ASSUME NEW T, T \subseteq Nat, T # {}
    PROVE  \E n \in T : \A m \in T : n <= m
<1> DEFINE Less == {p \in Nat \X Nat : p[1] < p[2]}
<1>1. IsWellFoundedOn(Less, Nat)
  BY NatLessThanWellFounded DEF OpToRel
<1>2. PICK n \in T : \A m \in T : ~(<<m, n>> \in Less)
  <2> HIDE DEF Less
  <2> QED BY <1>1, WFMin
<1>3. ASSUME NEW m \in T
      PROVE  n <= m
  <2>1. <<m, n>> \in Nat \X Nat /\ m \in Nat /\ n \in Nat
    OBVIOUS
  <2>2. m < n => <<m, n>> \in Less
    BY <2>1
  <2> QED BY <1>2, <2>1, <2>2
<1> QED BY <1>3

\* The function Bytes is defined by, as the prover reads a recursive definition.
IsSum(sum, ls, top) ==
    sum = [n \in 0..top |-> IF n = 0 THEN 0 ELSE sum[n - 1] + ls[n].bytes]

Sums(ls) == CHOOSE sum : IsSum(sum, ls, Len(ls))

\* Every sequence has its sums: a first length without them would follow one that has them.
LEMMA SumExists ==
    ASSUME NEW ls, Len(ls) \in Nat
    PROVE  IsSum(Sums(ls), ls, Len(ls))
  <1> DEFINE Unsummed(n) == ~\E sum : IsSum(sum, ls, n)
             bad == {n \in Nat : Unsummed(n)}
  <1> SUFFICES ASSUME bad # {}
               PROVE  FALSE
    BY DEF Sums
  <1>1. PICK n \in bad : \A m \in bad : n <= m
    <2> HIDE DEF bad
    <2>1. bad \subseteq Nat
      BY DEF bad
    <2> QED BY <2>1, NatMinimum
  <1>2. n # 0
    <2>1. IsSum([m \in 0..0 |-> 0], ls, 0)
      BY DEF IsSum
    <2> QED BY <1>1, <2>1
  <1>3. PICK sum : IsSum(sum, ls, n - 1)
    <2>1. n - 1 \in Nat /\ ~(n <= n - 1)
      BY <1>2
    <2> QED BY <1>1, <2>1
  <1> DEFINE more == [m \in 0..n |-> IF m = n THEN sum[n - 1] + ls[n].bytes ELSE sum[m]]
  <1>4. IsSum(more, ls, n)
    <2>1. \A m \in 0..n : more[m] = IF m = 0 THEN 0 ELSE more[m - 1] + ls[m].bytes
      <3> TAKE m \in 0..n
      <3>1. CASE m = n
        BY <1>2, <3>1
      <3>2. CASE m # n
        <4>1. m \in 0..n - 1 /\ more[m] = sum[m]
          BY <3>2
        <4>2. m # 0 => m - 1 \in 0..n /\ m - 1 # n /\ more[m - 1] = sum[m - 1]
          BY <3>2
        <4>3. sum[m] = IF m = 0 THEN 0 ELSE sum[m - 1] + ls[m].bytes
          BY <1>3, <4>1 DEF IsSum
        <4> QED BY <4>1, <4>2, <4>3
      <3> QED BY <3>1, <3>2
    <2>2. more = [m \in 0..n |-> more[m]]
      OBVIOUS
    <2> HIDE DEF more
    <2> QED BY <2>1, <2>2 DEF IsSum
  <1> HIDE DEF more
  <1> QED BY <1>1, <1>4

\* A sum starts at zero and grows by the length of each line.
LEMMA SumSteps ==
    ASSUME NEW ls \in Seq(Line)
    PROVE  /\ Sums(ls) \in [0..Len(ls) -> Nat]
           /\ Sums(ls)[0] = 0
           /\ \A n \in 1..Len(ls) : Sums(ls)[n] = Sums(ls)[n - 1] + ls[n].bytes
           /\ \A n \in 1..Len(ls) : ls[n].bytes \in Nat \ {0}
  <1> DEFINE sum == Sums(ls)
  <1>1. /\ sum = [n \in 0..Len(ls) |-> IF n = 0 THEN 0 ELSE sum[n - 1] + ls[n].bytes]
        /\ Len(ls) \in Nat
    BY SumExists DEF IsSum
  <1> HIDE DEF sum
  <1>2. sum[0] = 0 /\ \A n \in 1..Len(ls) : sum[n] = sum[n - 1] + ls[n].bytes
    BY <1>1
  <1>3. \A n \in 1..Len(ls) : ls[n].bytes \in Nat \ {0}
    <2> TAKE n \in 1..Len(ls)
    <2>1. ls[n] \in Line
      OBVIOUS
    <2> QED BY <2>1, CapacityAssumption DEF Line
  <1>4. \A n \in 0..Len(ls) : sum[n] \in Nat
    <2> DEFINE bad == {n \in 0..Len(ls) : sum[n] \notin Nat}
    <2> SUFFICES ASSUME bad # {}
                 PROVE  FALSE
      OBVIOUS
    <2>1. PICK n \in bad : \A m \in bad : n <= m
      <3>1. bad \subseteq Nat
        BY <1>1
      <3> HIDE DEF bad
      <3> QED BY <3>1, NatMinimum
    <2>2. n \in 1..Len(ls)
      BY <1>1, <1>2, <2>1
    <2>3. n - 1 \in 0..Len(ls) /\ ~(n <= n - 1)
      BY <1>1, <2>2
    <2>4. sum[n - 1] \in Nat
      BY <2>1, <2>3
    <2> QED BY <1>2, <1>3, <2>1, <2>2, <2>4
  <1>5. sum \in [0..Len(ls) -> Nat]
    BY <1>1, <1>4
  <1> QED BY <1>2, <1>3, <1>5 DEF sum

LEMMA BytesIsSum ==
    ASSUME NEW ls
    PROVE  Bytes(ls) = Sums(ls)[Len(ls)]
  BY DEF Bytes, Sums, IsSum

\* The sums of a part of a sequence are differences of those of the sequence.
LEMMA PartSum ==
    ASSUME NEW ls \in Seq(Line), NEW ks \in Seq(Line), NEW d \in Nat,
           d + Len(ks) <= Len(ls), \A j \in 1..Len(ks) : ks[j] = ls[d + j]
    PROVE  \A n \in 0..Len(ks) : Sums(ls)[d + n] = Sums(ls)[d] + Sums(ks)[n]
  <1> DEFINE sum == Sums(ls)
             part == Sums(ks)
  <1>1. /\ sum \in [0..Len(ls) -> Nat] /\ part \in [0..Len(ks) -> Nat]
        /\ part[0] = 0 /\ Len(ls) \in Nat /\ Len(ks) \in Nat
        /\ \A n \in 1..Len(ls) : sum[n] = sum[n - 1] + ls[n].bytes
        /\ \A n \in 1..Len(ks) : part[n] = part[n - 1] + ks[n].bytes
    BY SumSteps
  <1> HIDE DEF sum, part
  <1> DEFINE bad == {n \in 0..Len(ks) : sum[d + n] # sum[d] + part[n]}
  <1>2. ASSUME bad # {}
        PROVE  FALSE
    <2>1. PICK n \in bad : \A m \in bad : n <= m
      <3>1. bad \subseteq Nat
        BY <1>1
      <3> HIDE DEF bad
      <3> QED BY <1>2, <3>1, NatMinimum
    <2>2. n \in 0..Len(ks) /\ sum[d + n] # sum[d] + part[n]
      BY <2>1
    <2>3. n # 0
      <3>1. d + 0 = d /\ d \in 0..Len(ls)
        BY <1>1
      <3>2. sum[d] \in Nat
        BY <1>1, <3>1
      <3> QED BY <1>1, <2>2, <3>1, <3>2
    <2>4. n - 1 \in 0..Len(ks) /\ ~(n <= n - 1) /\ n \in 1..Len(ks)
      BY <1>1, <2>2, <2>3
    <2>5. sum[d + (n - 1)] = sum[d] + part[n - 1]
      BY <2>1, <2>4
    <2>6. d + n \in 1..Len(ls) /\ (d + n) - 1 = d + (n - 1)
      BY <1>1, <2>4
    <2>7. sum[d + n] = sum[d + (n - 1)] + ks[n].bytes
      BY <1>1, <2>4, <2>6
    <2>8. part[n] = part[n - 1] + ks[n].bytes
      BY <1>1, <2>4
    <2>9. /\ ks[n].bytes \in Nat /\ part[n - 1] \in Nat /\ sum[d] \in Nat
      <3>1. d \in 0..Len(ls)
        BY <1>1
      <3>2. ks[n].bytes \in Nat
        BY <2>4, SumSteps
      <3> QED BY <1>1, <2>4, <3>1, <3>2
    <2> QED BY <2>2, <2>5, <2>7, <2>8, <2>9
  <1> QED BY <1>2 DEF sum, part

LEMMA BytesType ==
    ASSUME NEW ls \in Seq(Line)
    PROVE  Bytes(ls) \in Nat /\ DiskBytes(ls) \in Nat /\ Len(ls) \in Nat
  BY SumSteps, BytesIsSum DEF DiskBytes

LEMMA BytesOfNothing == Bytes(<<>>) = 0 /\ DiskBytes(<<>>) = 0
  <1>1. <<>> \in Seq(Line) /\ Len(<<>>) = 0
    OBVIOUS
  <1>2. Sums(<<>>)[0] = 0
    BY <1>1, SumSteps
  <1> QED BY <1>1, <1>2, BytesIsSum DEF DiskBytes

LEMMA BytesOfAppend ==
    ASSUME NEW ls \in Seq(Line), NEW l \in Line
    PROVE  /\ Append(ls, l) \in Seq(Line) /\ Len(Append(ls, l)) = Len(ls) + 1
           /\ Bytes(Append(ls, l)) = Bytes(ls) + l.bytes
           /\ DiskBytes(Append(ls, l)) = DiskBytes(ls) + l.bytes + 1
           /\ l.bytes \in Nat \ {0}
  <1> DEFINE all == Append(ls, l)
  <1>1. /\ all \in Seq(Line) /\ Len(all) = Len(ls) + 1 /\ Len(ls) \in Nat
        /\ \A j \in 1..Len(ls) : all[j] = ls[j]
        /\ all[Len(ls) + 1] = l
    OBVIOUS
  <1> HIDE DEF all
  <1>2. Sums(all)[Len(ls)] = Sums(ls)[Len(ls)]
    <2>1. /\ 0 + Len(ls) <= Len(all) /\ Len(ls) \in 0..Len(ls) /\ 0 + Len(ls) = Len(ls)
          /\ \A j \in 1..Len(ls) : ls[j] = all[0 + j]
      BY <1>1
    <2>2. Sums(all)[0 + Len(ls)] = Sums(all)[0] + Sums(ls)[Len(ls)]
      BY <1>1, <2>1, PartSum
    <2>3. Sums(all)[0] = 0 /\ Sums(ls)[Len(ls)] \in Nat
      BY <1>1, <2>1, SumSteps
    <2> QED BY <2>1, <2>2, <2>3
  <1>3. Sums(all)[Len(ls) + 1] = Sums(all)[Len(ls)] + l.bytes
    <2>1. Len(ls) + 1 \in 1..Len(all) /\ (Len(ls) + 1) - 1 = Len(ls)
      BY <1>1
    <2> QED BY <1>1, <2>1, SumSteps
  <1>4. Bytes(all) = Bytes(ls) + l.bytes
    BY <1>1, <1>2, <1>3, BytesIsSum
  <1>5. l.bytes \in Nat \ {0}
    BY CapacityAssumption DEF Line
  <1>6. DiskBytes(all) = DiskBytes(ls) + l.bytes + 1
    <2>1. Bytes(ls) \in Nat
      BY BytesType
    <2>2. DiskBytes(all) = (Bytes(ls) + l.bytes) + (Len(ls) + 1)
      BY <1>1, <1>4 DEF DiskBytes
    <2> QED BY <1>1, <1>5, <2>1, <2>2 DEF DiskBytes
  <1> QED BY <1>1, <1>4, <1>5, <1>6 DEF all

\* A sequence is the lines that are dropped from it and those that stay.
LEMMA BytesOfParts ==
    ASSUME NEW ls \in Seq(Line), NEW n \in 0..Len(ls)
    PROVE  /\ Without(ls, n) \in Seq(Line) /\ SubSeq(ls, 1, n) \in Seq(Line)
           /\ Len(Without(ls, n)) = Len(ls) - n /\ Len(SubSeq(ls, 1, n)) = n
           /\ Bytes(ls) = Bytes(SubSeq(ls, 1, n)) + Bytes(Without(ls, n))
           /\ \A i \in 1..Len(ls) - n : Without(ls, n)[i] = ls[n + i]
  <1> DEFINE front == SubSeq(ls, 1, n)
             back == Without(ls, n)
  <1>0. Len(ls) \in Nat /\ n \in Nat
    OBVIOUS
  <1>1. front \in Seq(Line) /\ Len(front) = n /\ \A i \in 1..n : front[i] = ls[i]
    OBVIOUS
  <1>2. /\ back \in Seq(Line) /\ Len(back) = Len(ls) - n
        /\ \A i \in 1..Len(ls) - n : back[i] = ls[n + i]
    BY DEF Without
  <1> HIDE DEF front, back
  <1>3. Sums(ls)[0 + n] = Sums(ls)[0] + Sums(front)[n]
    <2>1. 0 + Len(front) <= Len(ls) /\ \A j \in 1..Len(front) : front[j] = ls[0 + j]
      BY <1>0, <1>1
    <2>2. n \in 0..Len(front) /\ 0 \in Nat
      BY <1>1
    <2> QED BY <1>1, <2>1, <2>2, PartSum
  <1>4. Sums(ls)[n + (Len(ls) - n)] = Sums(ls)[n] + Sums(back)[Len(ls) - n]
    <2>1. n + Len(back) <= Len(ls) /\ \A j \in 1..Len(back) : back[j] = ls[n + j]
      BY <1>0, <1>2
    <2>2. Len(ls) - n \in 0..Len(back)
      BY <1>0, <1>2
    <2> QED BY <1>0, <1>2, <2>1, <2>2, PartSum
  <1>5. 0 + n = n /\ n + (Len(ls) - n) = Len(ls)
    BY <1>0
  <1>6. Sums(front)[n] \in Nat /\ Sums(back)[Len(ls) - n] \in Nat /\ Sums(ls)[0] = 0
    BY <1>1, <1>2, BytesIsSum, BytesType, SumSteps
  <1>7. Bytes(ls) = Bytes(front) + Bytes(back)
    <2>1. Sums(ls)[n] = Sums(front)[n]
      BY <1>3, <1>5, <1>6
    <2>2. Sums(ls)[Len(ls)] = Sums(front)[n] + Sums(back)[Len(ls) - n]
      BY <1>4, <1>5, <2>1
    <2> QED BY <1>1, <1>2, <2>2, BytesIsSum
  <1> QED BY <1>1, <1>2, <1>7 DEF front, back

-----------------------------------------------------------------------------
(* Files *)

LEMMA GivenIsLine == Given \subseteq Line /\ None \notin Given
  <1>1. ASSUME NEW l \in Given
        PROVE  l \in Line
    <2>1. l = [id |-> l.id, bytes |-> l.bytes] /\ l.id \in 1..MaxLines /\ l.bytes \in LineBytes
      BY DEF Given
    <2>2. l.id \in 0..MaxLines /\ l.bytes \in Nat \ {0}
      BY <2>1, BoundAssumption, CapacityAssumption
    <2> QED BY <2>1, <2>2 DEF Line
  <1> QED BY <1>1, NoneAssumption

LEMMA FileParts ==
    ASSUME NEW f \in File
    PROVE  /\ f.lines \in Seq(Line) /\ f.torn \in Nat /\ f # None
           /\ DiskBytes(f.lines) \in Nat /\ Length(f) \in Nat
           /\ Length(f) = DiskBytes(f.lines) + f.torn
           /\ Texts(f) \in Seq(Line)
  <1>1. f.lines \in Seq(Line) /\ f.torn \in Nat /\ f # None
    BY NoneAssumption DEF File
  <1>2. DiskBytes(f.lines) \in Nat
    BY <1>1, BytesType
  <1>3. Texts(f) \in Seq(Line)
    <2>1. CASE f.torn = 0
      BY <1>1, <2>1 DEF Texts
    <2>2. CASE f.torn # 0
      <3>1. [id |-> 0, bytes |-> f.torn] \in Line
        BY <1>1, <2>2, BoundAssumption DEF Line
      <3> QED BY <1>1, <2>2, <3>1, BytesOfAppend DEF Texts
    <2> QED BY <2>1, <2>2
  <1> QED BY <1>1, <1>2, <1>3 DEF Length

LEMMA FileEmpty ==
    EmptyFile \in File /\ Length(EmptyFile) = 0 /\ LinesOf(EmptyFile) = {} /\ EmptyFile # None
  <1>1. EmptyFile \in File /\ EmptyFile.lines = <<>> /\ EmptyFile.torn = 0
    BY DEF EmptyFile, File
  <1>2. EmptyFile # None
    BY <1>1, NoneAssumption
  <1>3. Length(EmptyFile) = 0
    BY <1>1, BytesOfNothing DEF Length
  <1>4. LinesOf(EmptyFile) = {}
    BY <1>1, <1>2 DEF LinesOf, ToSet
  <1> QED BY <1>1, <1>2, <1>3, <1>4

\* A line that is appended takes what a failed append left with it.
LEMMA AppendedFile ==
    ASSUME NEW f \in File, NEW w \in Logs, line[w] \in Line
    PROVE  /\ Appended(f, w) \in File
           /\ Length(Appended(f, w)) = Length(f) + DiskLength(w)
           /\ IdsOf(Appended(f, w)) = IdsOf(f) \cup {line[w].id}
           /\ DiskLength(w) \in Nat \ {0}
  <1> DEFINE l == [line[w] EXCEPT !.bytes = @ + f.torn]
             all == Append(f.lines, l)
             g == Appended(f, w)
  <1>1. f.lines \in Seq(Line) /\ f.torn \in Nat /\ f # None /\ DiskBytes(f.lines) \in Nat
    BY FileParts
  <1>2. line[w].bytes \in Nat \ {0} /\ line[w].id \in 0..MaxLines
    BY DEF Line
  <1>3. l \in Line /\ l.id = line[w].id /\ l.bytes = line[w].bytes + f.torn
    BY <1>1, <1>2 DEF Line
  <1> HIDE DEF l
  <1>4. all \in Seq(Line) /\ DiskBytes(all) = DiskBytes(f.lines) + l.bytes + 1
    BY <1>1, <1>3, BytesOfAppend
  <1>5. ToSet(all) = ToSet(f.lines) \cup {l}
    <2>1. /\ Len(all) = Len(f.lines) + 1 /\ Len(f.lines) \in Nat
          /\ \A i \in 1..Len(f.lines) : all[i] = f.lines[i]
          /\ all[Len(f.lines) + 1] = l
          /\ DOMAIN all = 1..Len(f.lines) + 1 /\ DOMAIN f.lines = 1..Len(f.lines)
      BY <1>1, <1>3
    <2> HIDE DEF all
    <2>2. 1..Len(f.lines) + 1 = 1..Len(f.lines) \cup {Len(f.lines) + 1}
      BY <2>1
    <2> QED BY <2>1, <2>2 DEF ToSet
  <1> HIDE DEF all
  <1>6. g = [lines |-> all, torn |-> 0]
    BY DEF Appended, all, l
  <1> HIDE DEF g
  <1>7. g \in File /\ g.lines = all /\ g.torn = 0
    BY <1>4, <1>6 DEF File
  <1>8. g # None
    BY <1>7, NoneAssumption
  <1>9. Length(g) = Length(f) + DiskLength(w) /\ DiskLength(w) \in Nat \ {0}
    BY <1>1, <1>2, <1>3, <1>4, <1>7 DEF Length, DiskLength
  <1>10. LinesOf(g) = LinesOf(f) \cup {l}
    BY <1>1, <1>5, <1>7, <1>8 DEF LinesOf
  <1>11. IdsOf(g) = IdsOf(f) \cup {line[w].id}
    BY <1>3, <1>10 DEF IdsOf
  <1> QED BY <1>7, <1>9, <1>11 DEF g

LEMMA TornFile ==
    ASSUME NEW f \in File, NEW bytes \in Nat
    PROVE  /\ Torn(f, bytes) \in File
           /\ Length(Torn(f, bytes)) = Length(f) + bytes
           /\ IdsOf(Torn(f, bytes)) = IdsOf(f)
  <1> DEFINE g == Torn(f, bytes)
  <1>1. f.lines \in Seq(Line) /\ f.torn \in Nat /\ f # None /\ DiskBytes(f.lines) \in Nat
    BY FileParts
  <1>2. g \in File /\ g.lines = f.lines /\ g.torn = f.torn + bytes
    BY <1>1 DEF Torn, File
  <1> HIDE DEF g
  <1>3. g # None
    BY <1>2, NoneAssumption
  <1>4. Length(g) = Length(f) + bytes
    BY <1>1, <1>2 DEF Length
  <1>5. IdsOf(g) = IdsOf(f)
    BY <1>1, <1>2, <1>3 DEF IdsOf, LinesOf
  <1> QED BY <1>2, <1>4, <1>5 DEF g

-----------------------------------------------------------------------------
(* What stays of a sequence of lines *)

LEMMA FirstExists ==
    ASSUME NEW last \in Nat, NEW T \in SUBSET (0..last), last \in T
    PROVE  \E n \in T : \A k \in 0..n - 1 : k \notin T
  <1>1. PICK n \in T : \A m \in T : n <= m
    <2>1. T \subseteq Nat /\ T # {}
      OBVIOUS
    <2> QED BY <2>1, NatMinimum
  <1>2. \A k \in 0..n - 1 : ~(n <= k)
    BY <1>1
  <1> QED BY <1>1, <1>2

\* The loop of push_bounded ends, at the latest when nothing is left.
LEMMA PoppedEnough ==
    ASSUME NEW ls \in Seq(Line), NEW bytes, NEW capacity
    PROVE  LET n == Popped(ls, bytes, capacity)
           IN  /\ n \in 0..Len(ls)
               /\ \/ n = Len(ls)
                  \/ /\ Len(ls) - n <= capacity
                     /\ bytes - Bytes(SubSeq(ls, 1, n)) <= ByteCapacity
  <1> DEFINE Enough(k) == \/ k = Len(ls)
                          \/ /\ Len(ls) - k <= capacity
                             /\ bytes - Bytes(SubSeq(ls, 1, k)) <= ByteCapacity
             enough == {k \in 0..Len(ls) : Enough(k)}
             First(n) == Enough(n) /\ \A k \in 0..n - 1 : ~Enough(k)
  <1>1. Len(ls) \in Nat /\ Len(ls) \in enough /\ enough \in SUBSET (0..Len(ls))
    OBVIOUS
  <1>2. PICK n \in enough : \A k \in 0..n - 1 : k \notin enough
    <2> HIDE DEF enough
    <2> QED BY <1>1, FirstExists
  <1>3. n \in 0..Len(ls) /\ First(n)
    BY <1>2
  <1> DEFINE popped == CHOOSE k \in 0..Len(ls) : First(k)
  <1>4. popped \in 0..Len(ls) /\ First(popped)
    <2> HIDE DEF First
    <2> QED BY <1>3
  <1>5. Popped(ls, bytes, capacity) = popped
    BY DEF Popped
  <1> HIDE DEF popped
  <1> QED BY <1>4, <1>5

LEMMA TailFromType ==
    ASSUME NEW ls \in Seq(Line), NEW start \in Int
    PROVE  TailFrom(ls, start) \in Seq(Line)
  <1> DEFINE Past(k) == k = Len(ls) \/ DiskBytes(SubSeq(ls, 1, k)) > start
             past == {k \in 0..Len(ls) : Past(k)}
             First(n) == Past(n) /\ \A k \in 0..n - 1 : ~Past(k)
  <1>1. Len(ls) \in Nat /\ Len(ls) \in past /\ past \in SUBSET (0..Len(ls))
    OBVIOUS
  <1>2. PICK n \in past : \A k \in 0..n - 1 : k \notin past
    <2> HIDE DEF past
    <2> QED BY <1>1, FirstExists
  <1>3. n \in 0..Len(ls) /\ First(n)
    BY <1>2
  <1> DEFINE dropped == CHOOSE k \in 0..Len(ls) : First(k)
  <1>4. dropped \in 0..Len(ls)
    <2> HIDE DEF First
    <2> QED BY <1>3
  <1>5. TailFrom(ls, start) = IF start <= 0 THEN ls ELSE Without(ls, dropped)
    BY DEF TailFrom
  <1> HIDE DEF dropped
  <1> QED BY <1>4, <1>5, BytesOfParts

\* What a snapshot shows fits into the buffer.
LEMMA ShownFits ==
    ASSUME NEW f \in File, NEW length \in Nat
    PROVE  /\ Shown(f, length) \in Seq(Line)
           /\ Len(Shown(f, length)) <= LineCapacity
           /\ Bytes(Shown(f, length)) <= ByteCapacity
  <1> DEFINE tail == TailFrom(Texts(f), length - MaxTailBytes)
             all == Latest(tail)
             n == Popped(all, Bytes(all), Len(all))
             front == SubSeq(all, 1, n)
             back == Without(all, n)
  <1>1. tail \in Seq(Line) /\ Len(tail) \in Nat
    <2>1. length - MaxTailBytes \in Int /\ Texts(f) \in Seq(Line)
      BY CapacityAssumption, FileParts
    <2> HIDE DEF tail
    <2> QED BY <2>1, TailFromType DEF tail
  <1> HIDE DEF tail
  <1>2. all \in Seq(Line) /\ Len(all) <= LineCapacity /\ Len(all) \in Nat
    <2>1. CASE Len(tail) > LineCapacity
      <3>1. Len(tail) - LineCapacity \in 0..Len(tail)
        BY <1>1, <2>1, CapacityAssumption
      <3>2. all = Without(tail, Len(tail) - LineCapacity)
        BY <2>1 DEF Latest
      <3>3. all \in Seq(Line) /\ Len(all) = Len(tail) - (Len(tail) - LineCapacity)
        BY <1>1, <3>1, <3>2, BytesOfParts
      <3> QED BY <1>1, <3>3, CapacityAssumption
    <2>2. CASE ~(Len(tail) > LineCapacity)
      <3>1. 0 \in 0..Len(tail) /\ all = Without(tail, 0)
        BY <1>1, <2>2 DEF Latest
      <3>2. all \in Seq(Line) /\ Len(all) = Len(tail) - 0
        BY <1>1, <3>1, BytesOfParts
      <3> QED BY <1>1, <2>2, <3>2, CapacityAssumption
    <2> QED BY <2>1, <2>2
  <1> HIDE DEF all
  <1>3. /\ n \in 0..Len(all)
        /\ n = Len(all) \/ Bytes(all) - Bytes(front) <= ByteCapacity
    BY <1>2, PoppedEnough
  <1> HIDE DEF n
  <1>4. /\ back \in Seq(Line) /\ front \in Seq(Line) /\ Len(back) = Len(all) - n
        /\ Bytes(all) = Bytes(front) + Bytes(back)
    BY <1>2, <1>3, BytesOfParts
  <1>5. Bytes(all) \in Nat /\ Bytes(front) \in Nat /\ Bytes(back) \in Nat
    BY <1>2, <1>4, BytesType
  <1>6. Len(back) <= LineCapacity
    BY <1>2, <1>3, <1>4, CapacityAssumption
  <1> HIDE DEF front, back
  <1>7. Bytes(back) <= ByteCapacity
    <2>1. CASE n = Len(all)
      <3>1. Len(back) = 0
        BY <1>2, <1>4, <2>1
      <3>2. back = <<>>
        BY <1>4, <3>1
      <3> QED BY <3>2, BytesOfNothing, CapacityAssumption
    <2>2. CASE Bytes(all) - Bytes(front) <= ByteCapacity
      BY <1>4, <1>5, <2>2, CapacityAssumption
    <2> QED BY <1>3, <2>1, <2>2
  <1>8. Shown(f, length) = back
    BY DEF Shown, back, n, all, tail
  <1> QED BY <1>4, <1>6, <1>7, <1>8

-----------------------------------------------------------------------------
(* Types *)

\* The line a ToolLog has in hand
LEMMA InHand ==
    ASSUME TypeOK, HandInv, NEW w \in Logs, pc[w] # "idle"
    PROVE  /\ line[w] \in Line /\ line[w] # None
           /\ line[w].id \in 1..next - 1 /\ line[w].id \in 1..MaxLines
           /\ line[w].bytes \in LineBytes /\ line[w].bytes \in Nat \ {0}
           /\ DiskLength(w) = line[w].bytes + 1
  <1>1. line[w] \in Given /\ line[w] # None
    BY DEF TypeOK
  <1>2. line[w].id \in 1..next - 1
    BY <1>1 DEF HandInv
  <1>3. line[w].id \in 1..MaxLines /\ line[w].bytes \in LineBytes
    BY <1>1 DEF Given
  <1> QED BY <1>1, <1>2, <1>3, GivenIsLine, CapacityAssumption DEF DiskLength

\* open_private_log leaves the file as it was, or an empty one.
LEMMA OpenedFile ==
    ASSUME TypeOK, NEW w \in Logs, Opened(w)
    PROVE  /\ file' \in File /\ file' # None
           /\ file # None => file' = file
           /\ file = None => file' = EmptyFile
           /\ handle' = [handle EXCEPT ![w] = "file"]
           /\ handle' \in [Logs -> {"file", "backup", "gone", "none"}]
           /\ Length(file') \in Nat /\ count' \in [Logs -> Nat]
           /\ count' = [count EXCEPT ![w] = Length(file')] /\ left' = 0
  <1>1. /\ file' \in File
        /\ file # None => file' = file
        /\ file = None => file' = EmptyFile
    BY FileEmpty DEF Opened, TypeOK
  <1>2. file' # None /\ Length(file') \in Nat
    BY <1>1, FileParts
  <1>3. /\ handle' = [handle EXCEPT ![w] = "file"] /\ left' = 0
        /\ count' = [count EXCEPT ![w] = Length(file')]
    BY DEF Opened
  <1> QED BY <1>1, <1>2, <1>3 DEF TypeOK

\* What push_bounded leaves fits into the buffer, and is what it counts.
LEMMA PushedFits ==
    ASSUME TypeOK, BufferBounded, NEW l \in Line
    PROVE  LET all == Append(lines, l)
               bytes == buffered + l.bytes
               n == Popped(all, bytes, LineCapacity)
           IN  /\ Without(all, n) \in Seq(Line) /\ Len(Without(all, n)) <= LineCapacity
               /\ bytes - Bytes(SubSeq(all, 1, n)) = Bytes(Without(all, n))
               /\ Bytes(Without(all, n)) \in Nat /\ Bytes(Without(all, n)) <= ByteCapacity
  <1> DEFINE all == Append(lines, l)
             bytes == buffered + l.bytes
             n == Popped(all, bytes, LineCapacity)
             front == SubSeq(all, 1, n)
             back == Without(all, n)
  <1>1. all \in Seq(Line) /\ Len(all) \in Nat /\ bytes = Bytes(all)
    BY BytesOfAppend DEF TypeOK, BufferBounded
  <1> HIDE DEF all, bytes
  <1>2. n \in 0..Len(all) /\ (n = Len(all) \/ (Len(all) - n <= LineCapacity
                                                 /\ bytes - Bytes(front) <= ByteCapacity))
    BY <1>1, PoppedEnough
  <1> HIDE DEF n
  <1>3. /\ back \in Seq(Line) /\ front \in Seq(Line) /\ Len(back) = Len(all) - n
        /\ Bytes(all) = Bytes(front) + Bytes(back)
    BY <1>1, <1>2, BytesOfParts
  <1> HIDE DEF front, back
  <1>4. Bytes(all) \in Nat /\ Bytes(front) \in Nat /\ Bytes(back) \in Nat
    BY <1>1, <1>3, BytesType
  <1>5. bytes - Bytes(front) = Bytes(back)
    BY <1>1, <1>3, <1>4
  <1>6. Len(back) <= LineCapacity /\ Bytes(back) <= ByteCapacity
    <2>1. CASE n = Len(all)
      <3>1. Len(back) = 0
        BY <1>1, <1>3, <2>1
      <3>2. back = <<>>
        BY <1>3, <3>1
      <3> QED BY <3>1, <3>2, BytesOfNothing, CapacityAssumption
    <2> QED BY <1>2, <1>3, <1>5, <2>1
  <1> QED BY <1>3, <1>4, <1>5, <1>6 DEF back, front, n, all, bytes

LEMMA TypeStep ==
    ASSUME Inv, [Next]_vars
    PROVE  TypeOK' /\ HandInv'
  <1>0. TypeOK /\ HandInv /\ BufferBounded
    BY DEF Inv
  <1> USE DEF TypeOK, HandInv, bufferVars, history, Go
  <1>1. ASSUME NEW w \in Logs, NEW bytes \in LineBytes, Write(w, bytes)
        PROVE  TypeOK' /\ HandInv'
    <2>1. /\ next \in 1..MaxLines /\ next' = next + 1 /\ next' \in 1..MaxLines + 1
          /\ \A id \in 1..next - 1 : id \in 1..next' - 1
          /\ next \in 1..next' - 1
      BY <1>0, <1>1, BoundAssumption DEF Write
    <2>2. [id |-> next, bytes |-> bytes] \in Given
      BY <2>1 DEF Given
    <2> QED BY <1>0, <1>1, <2>1, <2>2, GivenIsLine DEF Write
  <1>2. ASSUME NEW w \in Logs, OpenFile(w)
        PROVE  TypeOK' /\ HandInv'
    <2>1. CASE Go(w, "check", "check") /\ Opened(w) /\ UNCHANGED <<history, faults>>
      BY <1>0, <1>2, <2>1, OpenedFile DEF OpenFile
    <2>2. CASE Go(w, "check", "push") /\ Fault("open") /\ Lost(w)
                 /\ UNCHANGED <<file, handle, count, left>>
      BY <1>0, <1>2, <2>2, InHand DEF OpenFile, Fault, Lost
    <2> QED BY <1>2, <2>1, <2>2 DEF OpenFile
  <1>3. ASSUME NEW w \in Logs, AppendLine(w)
        PROVE  TypeOK' /\ HandInv'
    <2>1. /\ pc[w] \in {"check", "append"} /\ pc' = [pc EXCEPT ![w] = "push"]
          /\ UNCHANGED <<shared, handle, line, bufferVars, next, left, hit, disturbed, faults>>
      BY <1>3 DEF AppendLine, StartsAppending
    <2>2. line[w] \in Line /\ line[w].id \in 1..MaxLines
      BY <1>0, <2>1, InHand
    <2>3. /\ handle[w] = "file" => file \in File
          /\ handle[w] = "backup" => backup \in File
      BY <1>0
    <2>4. /\ handle[w] = "file" => Appended(file, w) \in File
          /\ handle[w] = "backup" => Appended(backup, w) \in File
          /\ DiskLength(w) \in Nat
      <3>1. DiskLength(w) \in Nat
        BY <2>2, CapacityAssumption DEF DiskLength, Line
      <3> QED BY <2>2, <2>3, <3>1, AppendedFile
    <2>5. /\ file' = file \/ (handle[w] = "file" /\ file' = Appended(file, w))
          /\ backup' = backup \/ (handle[w] = "backup" /\ backup' = Appended(backup, w))
      BY <1>3 DEF AppendLine
    <2>6. /\ file' \in File \cup {None} /\ backup' \in File \cup {None}
          /\ (file # None => file' # None) /\ (backup # None => backup' # None)
      BY <1>0, <2>4, <2>5, NoneAssumption
    <2>7. count' \in [Logs -> Nat]
      <3>1. count' = [count EXCEPT ![w] = @ + DiskLength(w)]
        BY <1>3 DEF AppendLine
      <3>2. count \in [Logs -> Nat] /\ count[w] + DiskLength(w) \in Nat
        BY <1>0, <2>4
      <3> HIDE DEF TypeOK, HandInv
      <3> QED BY <3>1, <3>2
    <2>8. logged' \subseteq 1..MaxLines
      BY <1>0, <1>3, <2>2 DEF AppendLine
    <2> QED BY <1>0, <2>1, <2>6, <2>7, <2>8
  <1>15. ASSUME NEW w \in Logs, AppendFails(w)
         PROVE  TypeOK' /\ HandInv'
    <2>1. /\ pc[w] \in {"check", "append"} /\ pc' = [pc EXCEPT ![w] = "push"]
          /\ UNCHANGED <<shared, handle, count, line, bufferVars, next, logged, disturbed>>
          /\ hit' = hit \cup {line[w].id} /\ faults' \subseteq Faults
      BY <1>0, <1>15 DEF AppendFails, StartsAppending, Lost, Fault
    <2>2. line[w].id \in 1..MaxLines /\ line[w].bytes \in Nat
      BY <1>0, <2>1, InHand
    <2>3. PICK bytes \in 0..line[w].bytes :
            /\ file' = IF handle[w] = "file" THEN Torn(file, bytes) ELSE file
            /\ backup' = IF handle[w] = "backup" THEN Torn(backup, bytes) ELSE backup
            /\ left' = IF handle[w] = "file" THEN left + bytes ELSE left
      BY <1>15 DEF AppendFails
    <2>4. bytes \in Nat
      BY <2>2
    <2>5. /\ handle[w] = "file" => file \in File
          /\ handle[w] = "backup" => backup \in File
      BY <1>0
    <2>6. /\ handle[w] = "file" => Torn(file, bytes) \in File
          /\ handle[w] = "backup" => Torn(backup, bytes) \in File
      BY <2>4, <2>5, TornFile
    <2>7. /\ file' \in File \cup {None} /\ backup' \in File \cup {None}
          /\ (file # None => file' # None) /\ (backup # None => backup' # None)
      BY <1>0, <2>3, <2>6, NoneAssumption
    <2>8. left' \in Nat /\ hit' \subseteq 1..MaxLines
      <3>1. left \in Nat /\ hit \subseteq 1..MaxLines
        BY <1>0
      <3>2. left' = left \/ left' = left + bytes
        BY <2>3
      <3> HIDE DEF TypeOK, HandInv
      <3>3. left' \in Nat
        BY <2>4, <3>1, <3>2
      <3> QED BY <2>1, <2>2, <3>1, <3>3
    <2>9. HandInv'
      BY <1>0, <2>1, <2>7
    <2> QED BY <1>0, <2>1, <2>7, <2>8, <2>9
  <1>4. ASSUME NEW w \in Logs, BeginRotation(w)
        PROVE  TypeOK' /\ HandInv'
    BY <1>0, <1>4 DEF BeginRotation
  <1>5. ASSUME NEW w \in Logs, RemoveBackup(w)
        PROVE  TypeOK' /\ HandInv'
    BY <1>0, <1>5, InHand DEF RemoveBackup, Redirect, Fault
  <1>6. ASSUME NEW w \in Logs, RenameFile(w)
        PROVE  TypeOK' /\ HandInv'
    <2>1. CASE Go(w, "rename", "reopen") /\ file = None /\ UNCHANGED <<file, backup, handle>>
                 /\ disturbed' = (disturbed \/ shared) /\ UNCHANGED <<hit, faults>>
      BY <1>0, <1>6, <2>1 DEF RenameFile
    <2>2. CASE /\ Go(w, "rename", "reopen") /\ file # None /\ backup' = file /\ file' = None
               /\ handle' = [v \in Logs |-> CASE handle[v] = "file" -> "backup"
                                                [] handle[v] = "backup" -> "gone"
                                                [] OTHER -> handle[v]]
               /\ disturbed' = (disturbed \/ shared) /\ UNCHANGED <<hit, faults>>
      <3>1. \A v \in Logs :
              /\ handle'[v] \in {"backup", "gone", "none"}
              /\ handle[v] = "none" => handle'[v] = "none"
        BY <1>0, <2>2
      <3>2. handle' \in [Logs -> {"file", "backup", "gone", "none"}]
        BY <2>2, <3>1
      <3>3. /\ pc' = [pc EXCEPT ![w] = "reopen"] /\ pc[w] = "rename" /\ backup' # None
            /\ backup' \in File
            /\ UNCHANGED <<shared, count, line, bufferVars, next, left, logged, hit, faults>>
        BY <1>0, <1>6, <2>2 DEF RenameFile
      <3> QED BY <1>0, <2>2, <3>1, <3>2, <3>3
    <2>3. CASE Go(w, "rename", "reopenFailed") /\ Fault("rename")
                 /\ hit' = hit \cup {line[w].id} /\ UNCHANGED <<file, backup, handle, disturbed>>
      BY <1>0, <1>6, <2>3, InHand DEF RenameFile, Fault
    <2> QED BY <1>6, <2>1, <2>2, <2>3 DEF RenameFile
  <1>7. ASSUME NEW w \in Logs, Reopen(w)
        PROVE  TypeOK' /\ HandInv'
    <2>1. CASE Go(w, "reopen", "append") /\ Opened(w)
                 /\ cached' = (IF w = Manager THEN None ELSE cached)
                 /\ UNCHANGED <<history, faults>>
      BY <1>0, <1>7, <2>1, OpenedFile DEF Reopen
    <2>2. CASE Go(w, "reopen", "push") /\ Fault("open") /\ Lost(w)
                 /\ UNCHANGED <<file, handle, count, left, cached>>
      BY <1>0, <1>7, <2>2, InHand DEF Reopen, Fault, Lost
    <2> QED BY <1>7, <2>1, <2>2 DEF Reopen
  <1>8. ASSUME NEW w \in Logs, ReopenFailed(w)
        PROVE  TypeOK' /\ HandInv'
    <2>1. CASE Opened(w) /\ UNCHANGED faults
      BY <1>0, <1>8, <2>1, OpenedFile DEF ReopenFailed
    <2>2. CASE Fault("open") /\ UNCHANGED <<file, handle, count, left>>
      BY <1>0, <1>8, <2>2 DEF ReopenFailed, Fault
    <2> QED BY <1>8, <2>1, <2>2 DEF ReopenFailed
  <1>9. ASSUME NEW w \in Logs, PushBounded(w)
        PROVE  TypeOK' /\ HandInv'
    <2>1. lines' \in Seq(Line) /\ buffered' \in Nat
      <3>1. line[w] \in Line
        BY <1>0, <1>9, InHand DEF PushBounded
      <3> QED BY <1>0, <1>9, <3>1, PushedFits DEF PushBounded
    <2> QED BY <1>0, <1>9, <2>1 DEF PushBounded
  <1>10. CASE MeasureFile
    <2>1. measured' \in Nat
      BY <1>0, <1>10, FileParts DEF MeasureFile
    <2> QED BY <1>0, <1>10, <2>1 DEF MeasureFile
  <1>11. CASE SnapshotCached
    BY <1>0, <1>11 DEF SnapshotCached
  <1>12. CASE ReadExternal
    <2>1. lines' \in Seq(Line) /\ buffered' \in Nat
      BY <1>0, <1>12, ShownFits, BytesType DEF ReadExternal
    <2> QED BY <1>0, <1>12, <2>1 DEF ReadExternal
  <1>13. CASE ReadFails
    BY <1>0, <1>13 DEF ReadFails, Fault
  <1>14. CASE UNCHANGED vars
    BY <1>0, <1>14 DEF vars
  <1> QED
    BY <1>1, <1>2, <1>3, <1>4, <1>5, <1>6, <1>7, <1>8, <1>9, <1>10, <1>11, <1>12, <1>13, <1>14,
       <1>15 DEF Next, Continue, Snapshot

-----------------------------------------------------------------------------
(* The buffer *)

LEMMA BufferStep ==
    ASSUME Inv, [Next]_vars
    PROVE  BufferBounded'
  <1>0. TypeOK /\ HandInv /\ BufferBounded
    BY DEF Inv
  <1>1. ASSUME UNCHANGED <<lines, buffered>>
        PROVE  BufferBounded'
    BY <1>0, <1>1 DEF BufferBounded
  <1>2. ASSUME NEW w \in Logs, PushBounded(w)
        PROVE  BufferBounded'
    <2>1. CASE w = Manager
      <3>1. line[w] \in Line
        BY <1>0, <1>2, InHand DEF PushBounded, Go
      <3> QED BY <1>0, <1>2, <2>1, <3>1, PushedFits DEF PushBounded, BufferBounded
    <2>2. CASE w # Manager
      BY <1>1, <1>2, <2>2 DEF PushBounded
    <2> QED BY <2>1, <2>2
  <1>3. CASE ReadExternal
    <2>1. file \in File /\ measured \in Nat
      BY <1>0, <1>3 DEF ReadExternal, TypeOK
    <2> QED BY <1>3, <2>1, ShownFits DEF ReadExternal, BufferBounded
  <1>4. ASSUME NEW w \in Logs, Continue(w), ~PushBounded(w)
        PROVE  UNCHANGED <<lines, buffered>>
    BY <1>4 DEF Continue, OpenFile, AppendLine, AppendFails, BeginRotation, RemoveBackup,
                RenameFile, Reopen, ReopenFailed, bufferVars
  <1>5. ASSUME Snapshot, ~ReadExternal
        PROVE  UNCHANGED <<lines, buffered>>
    BY <1>5 DEF Snapshot, MeasureFile, SnapshotCached, ReadFails
  <1>6. ASSUME NEW w \in Logs, NEW bytes \in LineBytes, Write(w, bytes)
        PROVE  UNCHANGED <<lines, buffered>>
    BY <1>6 DEF Write, bufferVars
  <1>7. CASE UNCHANGED vars
    BY <1>1, <1>7 DEF vars, bufferVars
  <1> QED BY <1>1, <1>2, <1>3, <1>4, <1>5, <1>6, <1>7 DEF Next

-----------------------------------------------------------------------------
(* A file the manager has to itself *)

LEMMA SharedKept ==
    ASSUME [Next]_vars
    PROVE  shared' = shared
  BY DEF Next, vars, Continue, Snapshot, Write, OpenFile, AppendLine, AppendFails, BeginRotation,
         RemoveBackup, RenameFile, Reopen, ReopenFailed, PushBounded, MeasureFile, SnapshotCached,
         ReadExternal, ReadFails

\* Nobody but the manager takes a step at the file.
LEMMA OwnStep ==
    ASSUME Inv, ~shared, [Next]_vars
    PROVE  \/ UNCHANGED <<shared, file, backup, pc, handle, count, line, left, logged, hit, next>>
           \/ Continue(Manager)
           \/ \E bytes \in LineBytes : Write(Manager, bytes)
  <1>1. pc[Helper] = "idle"
    BY DEF Inv, OwnFileInv
  <1>2. ~Continue(Helper)
    BY <1>1 DEF Continue, OpenFile, StartsAppending, AppendLine, AppendFails, BeginRotation,
                RemoveBackup, RenameFile, Reopen, ReopenFailed, PushBounded, Go
  <1>3. ASSUME NEW bytes \in LineBytes
        PROVE  ~Write(Helper, bytes)
    BY DEF Write
  <1>4. CASE Snapshot
    BY <1>4 DEF Snapshot, MeasureFile, SnapshotCached, ReadExternal, ReadFails, history
  <1>5. CASE UNCHANGED vars
    BY <1>5 DEF vars, history
  <1> QED BY <1>2, <1>3, <1>4, <1>5 DEF Next, Logs

\* What an append of the manager starts from: the file has room for the line, and what goes
\* beyond the limit was left by failed appends.
LEMMA HasRoom ==
    ASSUME Inv, ~shared, StartsAppending(Manager)
    PROVE  /\ pc' = [pc EXCEPT ![Manager] = "push"] /\ pc[Manager] \notin {"idle", "push"}
           /\ handle[Manager] = "file" /\ file \in File
           /\ Length(file) = count[Manager] + left
           /\ count[Manager] \in Nat /\ left \in Nat /\ DiskLength(Manager) \in Nat \ {0}
           /\ line[Manager] \in Line /\ line[Manager].bytes \in Nat
           /\ DiskLength(Manager) = line[Manager].bytes + 1
           /\ count[Manager] + DiskLength(Manager) <= MaxFileBytes
  <1> DEFINE m == Manager
  <1>0. TypeOK /\ HandInv /\ m \in Logs
    BY DEF Inv, Logs
  <1>1. /\ pc' = [pc EXCEPT ![m] = "push"] /\ pc[m] \in {"check", "append"}
        /\ handle[m] = "file" /\ Length(file) = count[m] + left
        /\ pc[m] = "append" => file = EmptyFile
        /\ pc[m] = "check" => ~Full(m)
    BY DEF StartsAppending, Go, Inv, OwnFileInv
  <1>2. file \in File /\ count[m] \in Nat /\ left \in Nat
    BY <1>0, <1>1 DEF TypeOK
  <1>3. /\ line[m] \in Line /\ line[m].bytes \in LineBytes /\ line[m].bytes \in Nat
        /\ DiskLength(m) = line[m].bytes + 1
    BY <1>0, <1>1, InHand
  <1>4. DiskLength(m) <= MaxFileBytes
    BY <1>3, CapacityAssumption
  <1>5. count[m] + DiskLength(m) <= MaxFileBytes
    <2>1. CASE pc[m] = "append"
      <3>1. count[m] = 0
        BY <1>1, <1>2, <2>1, FileEmpty
      <3> QED BY <1>3, <1>4, <3>1
    <2>2. CASE pc[m] = "check"
      BY <1>1, <1>2, <1>3, <1>4, <2>2, CapacityAssumption DEF Full
    <2> QED BY <1>1, <2>1, <2>2
  <1> QED BY <1>1, <1>2, <1>3, <1>5

\* How an append, whole or in part, leaves the file of the manager
LEMMA OwnAppend ==
    ASSUME Inv, ~shared, AppendLine(Manager)
    PROVE  /\ file' = Appended(file, Manager) /\ file' \in File
           /\ Length(file') = Length(file) + DiskLength(Manager)
           /\ IdsOf(file') = IdsOf(file) \cup {line[Manager].id}
           /\ count'[Manager] = count[Manager] + DiskLength(Manager)
           /\ logged' = logged \cup {line[Manager].id}
           /\ UNCHANGED <<backup, handle, line, next, left, hit>>
  <1>1. /\ handle[Manager] = "file" /\ file \in File /\ line[Manager] \in Line
        /\ Manager \in Logs
    BY HasRoom DEF AppendLine, Logs
  <1>2. /\ file' = Appended(file, Manager) /\ backup' = backup
        /\ logged' = logged \cup {line[Manager].id}
        /\ count' = [count EXCEPT ![Manager] = @ + DiskLength(Manager)]
        /\ UNCHANGED <<handle, line, next, left, hit>>
    BY <1>1 DEF AppendLine
  <1>3. count'[Manager] = count[Manager] + DiskLength(Manager)
    BY <1>1, <1>2 DEF Inv, TypeOK
  <1> QED BY <1>1, <1>2, <1>3, AppendedFile

LEMMA OwnAppendFails ==
    ASSUME Inv, ~shared, AppendFails(Manager)
    PROVE  /\ file' \in File /\ IdsOf(file') = IdsOf(file) /\ left' \in Nat
           /\ \E bytes \in Nat : Length(file') = Length(file) + bytes /\ left' = left + bytes
           /\ UNCHANGED <<backup, handle, count, line, next, logged>>
           /\ hit' = hit \cup {line[Manager].id}
  <1>1. /\ handle[Manager] = "file" /\ file \in File /\ line[Manager].bytes \in Nat
        /\ left \in Nat
    BY HasRoom DEF AppendFails
  <1>2. PICK bytes \in 0..line[Manager].bytes :
          file' = Torn(file, bytes) /\ backup' = backup /\ left' = left + bytes
    BY <1>1 DEF AppendFails
  <1>3. bytes \in Nat
    BY <1>1
  <1>4. /\ UNCHANGED <<handle, count, line, next, logged>>
        /\ hit' = hit \cup {line[Manager].id}
    BY DEF AppendFails, Lost
  <1>5. file' \in File /\ IdsOf(file') = IdsOf(file) /\ Length(file') = Length(file) + bytes
    BY <1>1, <1>2, <1>3, TornFile
  <1> QED BY <1>1, <1>2, <1>3, <1>4, <1>5

LEMMA OwnFileStep ==
    ASSUME Inv, [Next]_vars
    PROVE  OwnFileInv'
  <1> DEFINE m == Manager
  <1> SUFFICES ASSUME ~shared
               PROVE  OwnFileInv'
    BY SharedKept DEF OwnFileInv
  <1>0. /\ TypeOK /\ HandInv /\ ~shared' /\ m \in Logs /\ Helper \in Logs /\ m # Helper
    BY SharedKept, BoundAssumption DEF Inv, Logs
  <1>1. /\ pc[Helper] = "idle" /\ handle[m] \in {"file", "none"}
        /\ handle[m] = "file" => Length(file) = count[m] + left
        /\ pc[m] = "append" => handle[m] = "file" /\ file = EmptyFile
        /\ pc[m] = "remove" => file # None /\ Length(file) + DiskLength(m) > MaxFileBytes
        /\ pc[m] = "rename" => backup = None
        /\ pc[m] = "reopen" => file = None
    BY DEF Inv, OwnFileInv
  <1> USE DEF Go
  <1> HIDE DEF m
  <1>2. ASSUME NEW to, pc' = [pc EXCEPT ![m] = to],
               handle'[m] \in {"file", "none"},
               handle'[m] = "file" => Length(file') = count'[m] + left',
               to = "append" => handle'[m] = "file" /\ file' = EmptyFile,
               to = "remove" => file' # None /\ Length(file') + DiskLength(m)' > MaxFileBytes,
               to = "rename" => backup' = None,
               to = "reopen" => file' = None
        PROVE  OwnFileInv'
    <2>1. pc'[m] = to /\ pc'[Helper] = "idle"
      BY <1>0, <1>1, <1>2 DEF TypeOK
    <2> QED BY <1>0, <1>2, <2>1 DEF OwnFileInv, m
  <1>3. CASE UNCHANGED <<shared, file, backup, pc, handle, count, line, left, logged, hit, next>>
    <2>1. DiskLength(m)' = DiskLength(m)
      BY <1>3 DEF DiskLength
    <2> QED BY <1>1, <1>0, <1>3, <2>1 DEF OwnFileInv, m
  <1>4. ASSUME NEW bytes \in LineBytes, Write(m, bytes)
        PROVE  OwnFileInv'
    BY <1>1, <1>2, <1>4 DEF Write
  \* A file that is opened is the one that was there, or an empty one.
  <1>5. ASSUME Opened(m)
        PROVE  /\ handle'[m] = "file" /\ Length(file') = count'[m] + left'
               /\ file = None => file' = EmptyFile
    <2>1. /\ handle'[m] = "file" /\ count'[m] = Length(file') /\ left' = 0
          /\ Length(file') \in Nat
          /\ file = None => file' = EmptyFile
      BY <1>0, <1>5, OpenedFile DEF TypeOK
    <2> QED BY <2>1
  <1>6. CASE OpenFile(m)
    <2>1. CASE Go(m, "check", "check") /\ Opened(m)
      BY <1>2, <1>5, <2>1
    <2>2. CASE Go(m, "check", "push") /\ UNCHANGED <<file, handle, count, left>>
      BY <1>1, <1>2, <2>2
    <2> QED BY <1>6, <2>1, <2>2 DEF OpenFile
  <1>7. CASE AppendLine(m)
    <2>1. /\ pc' = [pc EXCEPT ![m] = "push"] /\ handle' = handle /\ left' = left
          /\ Length(file) = count[m] + left /\ Length(file') = Length(file) + DiskLength(m)
          /\ count'[m] = count[m] + DiskLength(m)
          /\ count[m] \in Nat /\ left \in Nat /\ DiskLength(m) \in Nat
      BY <1>7, HasRoom, OwnAppend DEF AppendLine, m
    <2>2. Length(file') = count'[m] + left'
      BY <2>1
    <2> QED BY <1>1, <1>2, <2>1, <2>2
  <1>14. CASE AppendFails(m)
    <2>1. /\ pc' = [pc EXCEPT ![m] = "push"] /\ handle' = handle /\ count' = count
          /\ Length(file) = count[m] + left /\ count[m] \in Nat /\ left \in Nat
          /\ \E bytes \in Nat : Length(file') = Length(file) + bytes /\ left' = left + bytes
      BY <1>14, HasRoom, OwnAppendFails DEF AppendFails, m
    <2>2. Length(file') = count'[m] + left'
      BY <2>1
    <2> QED BY <1>1, <1>2, <2>1, <2>2
  <1>8. CASE BeginRotation(m)
    <2>1. /\ pc' = [pc EXCEPT ![m] = "remove"] /\ handle[m] = "file" /\ Full(m)
          /\ handle'[m] = "none" /\ UNCHANGED <<file, line>>
      BY <1>0, <1>1, <1>8 DEF BeginRotation, TypeOK
    <2>2. /\ file # None /\ Length(file) = count[m] + left /\ DiskLength(m)' = DiskLength(m)
          /\ count[m] \in Nat /\ left \in Nat /\ line[m].bytes \in Nat
          /\ DiskLength(m) = line[m].bytes + 1
      BY <1>0, <1>1, <1>8, <2>1, InHand DEF BeginRotation, TypeOK, DiskLength
    <2>3. Length(file) + DiskLength(m) > MaxFileBytes
      BY <2>1, <2>2, CapacityAssumption DEF Full
    <2> QED BY <1>1, <1>2, <2>1, <2>2, <2>3
  <1>9. CASE RemoveBackup(m)
    <2>1. pc[m] = "remove" /\ handle[m] = "none" /\ file' = file
      BY <1>0, <1>9 DEF RemoveBackup, TypeOK
    <2>2. handle'[m] = "none"
      BY <1>0, <1>9, <2>1 DEF RemoveBackup, Redirect
    <2>3. \/ pc' = [pc EXCEPT ![m] = "rename"] /\ backup' = None
          \/ pc' = [pc EXCEPT ![m] = "reopenFailed"]
      BY <1>9 DEF RemoveBackup
    <2> QED BY <1>1, <1>2, <2>1, <2>2, <2>3
  <1>10. CASE RenameFile(m)
    <2>1. pc[m] = "rename" /\ handle[m] = "none"
      BY <1>0, <1>10 DEF RenameFile, TypeOK
    <2>2. handle'[m] = "none"
      BY <1>0, <1>10, <2>1 DEF RenameFile
    <2>3. \/ pc' = [pc EXCEPT ![m] = "reopen"] /\ file' = None
          \/ pc' = [pc EXCEPT ![m] = "reopenFailed"] /\ file' = file
      BY <1>10 DEF RenameFile
    <2> QED BY <1>1, <1>2, <2>2, <2>3
  <1>11. CASE Reopen(m)
    <2>1. CASE Go(m, "reopen", "append") /\ Opened(m)
      BY <1>1, <1>2, <1>5, <2>1
    <2>2. CASE Go(m, "reopen", "push") /\ UNCHANGED <<file, handle, count, left>>
      BY <1>1, <1>2, <2>2
    <2> QED BY <1>11, <2>1, <2>2 DEF Reopen
  <1>12. CASE ReopenFailed(m)
    BY <1>1, <1>2, <1>5, <1>12 DEF ReopenFailed
  <1>13. CASE PushBounded(m)
    BY <1>1, <1>2, <1>13 DEF PushBounded
  <1> QED
    BY <1>3, <1>4, <1>6, <1>7, <1>8, <1>9, <1>10, <1>11, <1>12, <1>13, <1>14, OwnStep
    DEF Continue, m

\* The file of the manager grows within the limit, but for what failed appends left.
LEMMA GrowthStep ==
    ASSUME Inv, [Next]_vars, ~shared, file # None, file' # None,
           Length(file') > Length(file)
    PROVE  Length(file') <= MaxFileBytes + left'
  <1> DEFINE m == Manager
  <1>0. TypeOK /\ m \in Logs /\ Length(file) \in Nat
    BY FileParts DEF Inv, Logs, TypeOK
  <1>1. file' # file
    BY <1>0
  <1>2. ASSUME Opened(m)
        PROVE  FALSE
    BY <1>0, <1>1, <1>2, OpenedFile
  <1>3. AppendLine(m) \/ AppendFails(m)
    <2>1. Continue(m)
      BY <1>1, OwnStep DEF Write
    <2> QED
      BY <1>1, <1>2, <2>1 DEF Continue, OpenFile, BeginRotation, RemoveBackup, RenameFile, Reopen,
                              ReopenFailed, PushBounded
  <1>4. CASE AppendLine(m)
    <2>1. /\ Length(file') = (count[m] + left) + DiskLength(m) /\ left' = left
          /\ count[m] \in Nat /\ left \in Nat /\ DiskLength(m) \in Nat
          /\ count[m] + DiskLength(m) <= MaxFileBytes
      BY <1>4, HasRoom, OwnAppend DEF AppendLine
    <2> QED BY <2>1, CapacityAssumption
  <1>5. CASE AppendFails(m)
    <2>1. /\ count[m] \in Nat /\ left \in Nat /\ DiskLength(m) \in Nat
          /\ Length(file) = count[m] + left
          /\ count[m] + DiskLength(m) <= MaxFileBytes
          /\ \E bytes \in Nat : Length(file') = Length(file) + bytes /\ left' = left + bytes
      BY <1>5, HasRoom, OwnAppendFails DEF AppendFails
    <2> QED BY <2>1, CapacityAssumption
  <1> QED BY <1>3, <1>4, <1>5

\* What is missing in the file: the line in hand is there or was hit once its write is over.
LEMMA MissedStep ==
    ASSUME Inv, [Next]_vars
    PROVE  MissedInv'
  <1> DEFINE m == Manager
  <1> SUFFICES ASSUME ~shared
               PROVE  MissedInv'
    BY SharedKept DEF MissedInv
  <1>0. TypeOK /\ m \in Logs /\ ~shared'
    BY SharedKept DEF Inv, Logs
  <1>1. /\ pc[m] = "push" => line[m].id \in hit \cup IdsOf(file)
        /\ pc[m] = "reopenFailed" => line[m].id \in hit
    BY DEF Inv, MissedInv
  <1> USE DEF Go
  <1> HIDE DEF m
  <1>2. ASSUME NEW to, pc' = [pc EXCEPT ![m] = to],
               to = "push" => line'[m].id \in hit' \cup IdsOf(file'),
               to = "reopenFailed" => line'[m].id \in hit'
        PROVE  MissedInv'
    <2>1. pc'[m] = to
      BY <1>0, <1>2 DEF TypeOK
    <2> QED BY <1>2, <2>1 DEF MissedInv, m
  <1>3. CASE UNCHANGED <<shared, file, backup, pc, handle, count, line, left, logged, hit, next>>
    BY <1>1, <1>3 DEF MissedInv, IdsOf, LinesOf, m
  <1>4. ASSUME NEW bytes \in LineBytes, Write(m, bytes)
        PROVE  MissedInv'
    BY <1>2, <1>4 DEF Write
  <1>5. CASE OpenFile(m)
    BY <1>2, <1>5 DEF OpenFile, Lost
  <1>6. CASE AppendLine(m)
    <2>1. /\ pc' = [pc EXCEPT ![m] = "push"] /\ line' = line
          /\ IdsOf(file') = IdsOf(file) \cup {line[m].id}
      BY <1>6, HasRoom, OwnAppend DEF AppendLine, m
    <2> QED BY <1>2, <2>1
  <1>7. CASE AppendFails(m)
    <2>1. /\ pc' = [pc EXCEPT ![m] = "push"] /\ line' = line /\ hit' = hit \cup {line[m].id}
      BY <1>7, HasRoom, OwnAppendFails DEF AppendFails, m
    <2> QED BY <1>2, <2>1
  <1>8. CASE BeginRotation(m)
    BY <1>2, <1>8 DEF BeginRotation
  <1>9. CASE RemoveBackup(m)
    BY <1>2, <1>9 DEF RemoveBackup
  <1>10. CASE RenameFile(m)
    <2>1. \/ pc' = [pc EXCEPT ![m] = "reopen"]
          \/ pc' = [pc EXCEPT ![m] = "reopenFailed"] /\ line' = line /\ line[m].id \in hit'
      BY <1>10 DEF RenameFile
    <2> QED BY <1>2, <2>1
  <1>11. CASE Reopen(m)
    BY <1>2, <1>11 DEF Reopen, Lost
  <1>12. CASE ReopenFailed(m)
    BY <1>1, <1>2, <1>12 DEF ReopenFailed, history
  <1>13. CASE PushBounded(m)
    BY <1>2, <1>13 DEF PushBounded
  <1> QED
    BY <1>3, <1>4, <1>5, <1>6, <1>7, <1>8, <1>9, <1>10, <1>11, <1>12, <1>13, OwnStep
    DEF Continue, m

-----------------------------------------------------------------------------
(* The order of the lines that are kept *)

LEMMA KeptTypes ==
    ASSUME TypeOK
    PROVE  /\ IdsOf(file) \subseteq Nat /\ IdsOf(backup) \subseteq Nat
           /\ logged \subseteq Nat /\ KeptIds \subseteq Nat
           /\ KeptBytes \in Nat /\ next \in Nat
           /\ \A bytes \in LineBytes : bytes \in Nat
           /\ KeptIds = IdsOf(backup) \cup IdsOf(file)
  <1>1. ASSUME NEW f \in File \cup {None}
        PROVE  /\ IdsOf(f) \subseteq Nat
               /\ (IF f = None THEN 0 ELSE Length(f)) \in Nat
    <2>1. CASE f = None
      BY <2>1 DEF IdsOf, LinesOf
    <2>2. CASE f # None
      <3>1. f.lines \in Seq(Line) /\ Length(f) \in Nat
        BY <2>2, FileParts
      <3>2. \A i \in DOMAIN f.lines : f.lines[i] \in Line
        BY <3>1
      <3>3. \A l \in LinesOf(f) : l \in Line
        BY <2>2, <3>2 DEF LinesOf, ToSet
      <3>4. \A l \in LinesOf(f) : l.id \in Nat
        BY <3>3, BoundAssumption DEF Line
      <3> QED BY <2>2, <3>1, <3>4 DEF IdsOf
    <2> QED BY <2>1, <2>2
  <1>2. /\ IdsOf(file) \subseteq Nat /\ IdsOf(backup) \subseteq Nat
        /\ (IF file = None THEN 0 ELSE Length(file)) \in Nat
        /\ (IF backup = None THEN 0 ELSE Length(backup)) \in Nat
    BY <1>1 DEF TypeOK
  <1>3. logged \subseteq Nat /\ next \in Nat /\ \A bytes \in LineBytes : bytes \in Nat
    BY BoundAssumption, CapacityAssumption DEF TypeOK
  <1>4. KeptIds = IdsOf(backup) \cup IdsOf(file)
    BY DEF KeptIds, IdsOf
  <1> QED BY <1>2, <1>3, <1>4 DEF KeptBytes

LEMMA OrderStep ==
    ASSUME Inv, [Next]_vars
    PROVE  OrderInv'
  <1> DEFINE m == Manager
             ids == logged \cup KeptIds
             Enough(bytes) == \A b \in LineBytes : b <= bytes
  <1> SUFFICES ASSUME ~shared
               PROVE  OrderInv'
    BY SharedKept DEF OrderInv
  <1>0. /\ TypeOK /\ HandInv /\ m \in Logs /\ handle[m] \in {"file", "none"}
        /\ pc[m] = "remove" => file # None /\ Length(file) + DiskLength(m) > MaxFileBytes
        /\ pc[m] = "rename" => backup = None
    BY DEF Inv, Logs, OwnFileInv
  <1>1. /\ \A id \in ids : id < next
        /\ pc[m] \notin {"idle", "push"} => \A id \in ids : id < line[m].id
        /\ \A old \in IdsOf(backup), new \in IdsOf(file) : old < new
        /\ \A id \in logged \ KeptIds : \A kept \in KeptIds : id < kept
        /\ logged \ KeptIds # {} =>
             \A bytes \in LineBytes : Enough(bytes) => KeptBytes + bytes + 1 > MaxFileBytes
    BY DEF Inv, OrderInv
  <1>2. /\ IdsOf(file) \subseteq Nat /\ IdsOf(backup) \subseteq Nat
        /\ logged \subseteq Nat /\ KeptIds \subseteq Nat
        /\ KeptBytes \in Nat /\ next \in Nat
        /\ \A bytes \in LineBytes : bytes \in Nat
        /\ KeptIds = IdsOf(backup) \cup IdsOf(file)
    BY <1>0, KeptTypes
  <1>17. KeptIds' = IdsOf(backup') \cup IdsOf(file')
    BY DEF KeptIds, IdsOf
  <1> USE DEF Go
  <1> HIDE DEF m
  \* Nothing is written or dropped; at most the file has become the backup.
  <1>3. ASSUME NEW to, pc' = [pc EXCEPT ![m] = to], pc[m] # "idle", pc[m] # "push" \/ to = "idle",
               UNCHANGED <<logged, next, KeptIds, KeptBytes>>,
               line'[m] = line[m] \/ to = "idle",
               \A old \in IdsOf(backup'), new \in IdsOf(file') : old < new
        PROVE  OrderInv'
    <2>1. pc'[m] = to
      BY <1>0, <1>3 DEF TypeOK
    <2> QED BY <1>1, <1>3, <2>1 DEF OrderInv, m
  <1>4. ASSUME IdsOf(file') = IdsOf(file), UNCHANGED backup,
               (IF file' = None THEN 0 ELSE Length(file')) = IF file = None THEN 0 ELSE Length(file)
        PROVE  /\ UNCHANGED <<KeptIds, KeptBytes>>
               /\ \A old \in IdsOf(backup'), new \in IdsOf(file') : old < new
    <2>1. KeptIds' = KeptIds
      BY <1>2, <1>4, <1>17
    <2>2. KeptBytes' = KeptBytes
      BY <1>4 DEF KeptBytes
    <2> QED BY <1>1, <1>4, <2>1, <2>2
  <1>5. ASSUME UNCHANGED <<file, backup>>
        PROVE  /\ UNCHANGED <<KeptIds, KeptBytes>>
               /\ \A old \in IdsOf(backup'), new \in IdsOf(file') : old < new
    BY <1>4, <1>5
  <1>6. ASSUME Opened(m), UNCHANGED backup
        PROVE  /\ UNCHANGED <<KeptIds, KeptBytes>>
               /\ \A old \in IdsOf(backup'), new \in IdsOf(file') : old < new
    <2>1. file' # None /\ (file # None => file' = file) /\ (file = None => file' = EmptyFile)
      BY <1>0, <1>6, OpenedFile
    <2>2. CASE file = None
      <3>1. IdsOf(file') = {} /\ Length(file') = 0
        BY <2>1, <2>2, FileEmpty DEF IdsOf
      <3>2. IdsOf(file) = {}
        BY <2>2 DEF IdsOf, LinesOf
      <3> QED BY <1>4, <1>6, <2>1, <2>2, <3>1, <3>2
    <2> QED BY <1>5, <1>6, <2>1, <2>2
  <1>7. CASE UNCHANGED <<shared, file, backup, pc, handle, count, line, left, logged, hit, next>>
    BY <1>1, <1>5, <1>7 DEF OrderInv, m
  <1>8. ASSUME NEW bytes \in LineBytes, Write(m, bytes)
        PROVE  OrderInv'
    <2>1. /\ pc'[m] = "check" /\ line'[m].id = next /\ next' = next + 1
          /\ UNCHANGED <<file, backup, logged>>
      BY <1>0, <1>8 DEF Write, TypeOK
    <2>2. UNCHANGED <<KeptIds, KeptBytes>>
      BY <1>5, <2>1
    <2>3. \A id \in ids : id < next'
      BY <1>1, <1>2, <2>1
    <2> QED BY <1>1, <2>1, <2>2, <2>3 DEF OrderInv, m
  <1>9. CASE OpenFile(m)
    BY <1>3, <1>5, <1>6, <1>9 DEF OpenFile, Lost, history
  <1>10. CASE AppendLine(m)
    <2>1. /\ pc' = [pc EXCEPT ![m] = "push"] /\ pc[m] \notin {"idle", "push"}
          /\ UNCHANGED <<line, next, backup>> /\ file \in File /\ file' \in File
          /\ Length(file') = Length(file) + DiskLength(m) /\ DiskLength(m) \in Nat
          /\ IdsOf(file') = IdsOf(file) \cup {line[m].id}
          /\ logged' = logged \cup {line[m].id}
      BY <1>10, HasRoom, OwnAppend DEF AppendLine, m
    <2>2. line[m].id \in 1..next - 1
      BY <1>0, <2>1, InHand
    <2>3. KeptIds' = KeptIds \cup {line[m].id}
      BY <1>2, <1>17, <2>1
    <2>4. KeptBytes' = KeptBytes + DiskLength(m)
      <3> DEFINE old == IF backup = None THEN 0 ELSE Length(backup)
      <3>1. old \in Nat /\ Length(file) \in Nat /\ file # None /\ file' # None
        BY <1>0, <2>1, FileParts DEF TypeOK
      <3>2. KeptBytes = old + Length(file) /\ KeptBytes' = old + Length(file')
        BY <2>1, <3>1 DEF KeptBytes
      <3> HIDE DEF old
      <3> QED BY <2>1, <3>1, <3>2
    <2>5. \A id \in ids : id < line[m].id
      BY <1>1, <2>1
    <2>6. line[m].id < next /\ pc'[m] = "push"
      BY <1>0, <1>2, <2>1, <2>2 DEF TypeOK
    <2>7. \A id \in logged' \cup KeptIds' : id < next'
      BY <1>1, <2>1, <2>3, <2>6
    <2>8. \A old \in IdsOf(backup'), new \in IdsOf(file') : old < new
      BY <1>1, <1>2, <2>1, <2>5
    <2>9. \A id \in logged' \ KeptIds' : \A kept \in KeptIds' : id < kept
      BY <1>1, <2>1, <2>3, <2>5
    <2>10. ASSUME logged' \ KeptIds' # {}, NEW bytes \in LineBytes, Enough(bytes)
           PROVE  KeptBytes' + bytes + 1 > MaxFileBytes
      <3>1. logged \ KeptIds # {}
        BY <2>1, <2>3, <2>10
      <3>2. KeptBytes + bytes + 1 > MaxFileBytes
        BY <1>1, <2>10, <3>1
      <3> QED BY <1>2, <2>1, <2>4, <3>2, CapacityAssumption
    <2> QED BY <2>6, <2>7, <2>8, <2>9, <2>10 DEF OrderInv, m
  <1>18. CASE AppendFails(m)
    <2>1. /\ pc' = [pc EXCEPT ![m] = "push"] /\ pc[m] \notin {"idle", "push"}
          /\ UNCHANGED <<line, next, backup, logged>> /\ file \in File /\ file' \in File
          /\ \E bytes \in Nat : Length(file') = Length(file) + bytes
          /\ IdsOf(file') = IdsOf(file)
      BY <1>18, HasRoom, OwnAppendFails DEF AppendFails, m
    <2>2. KeptIds' = KeptIds
      BY <1>2, <1>17, <2>1
    <2>3. \E more \in Nat : KeptBytes' = KeptBytes + more
      <3> DEFINE old == IF backup = None THEN 0 ELSE Length(backup)
      <3>1. old \in Nat /\ Length(file) \in Nat /\ file # None /\ file' # None
        BY <1>0, <2>1, FileParts DEF TypeOK
      <3>2. KeptBytes = old + Length(file) /\ KeptBytes' = old + Length(file')
        BY <2>1, <3>1 DEF KeptBytes
      <3> HIDE DEF old
      <3> QED BY <2>1, <3>1, <3>2
    <2>4. pc'[m] = "push"
      BY <1>0, <2>1 DEF TypeOK
    <2>5. ASSUME logged' \ KeptIds' # {}, NEW bytes \in LineBytes, Enough(bytes)
          PROVE  KeptBytes' + bytes + 1 > MaxFileBytes
      <3>1. KeptBytes + bytes + 1 > MaxFileBytes
        BY <1>1, <2>1, <2>2, <2>5
      <3> QED BY <1>2, <2>3, <3>1, CapacityAssumption
    <2>6. /\ \A id \in logged' \cup KeptIds' : id < next'
          /\ \A old \in IdsOf(backup'), new \in IdsOf(file') : old < new
          /\ \A id \in logged' \ KeptIds' : \A kept \in KeptIds' : id < kept
      BY <1>1, <2>1, <2>2
    <2> QED BY <2>4, <2>5, <2>6 DEF OrderInv, m
  <1>11. CASE BeginRotation(m)
    BY <1>3, <1>5, <1>11 DEF BeginRotation, history
  <1>12. CASE RemoveBackup(m)
    <2>1. /\ pc[m] = "remove" /\ UNCHANGED <<file, line, next, logged>>
      BY <1>12 DEF RemoveBackup
    <2>2. CASE pc' = [pc EXCEPT ![m] = "reopenFailed"] /\ UNCHANGED backup
      BY <1>3, <1>5, <2>1, <2>2
    <2>3. CASE pc' = [pc EXCEPT ![m] = "rename"] /\ backup' = None
      <3>1. pc'[m] = "rename"
        BY <1>0, <2>3 DEF TypeOK
      <3>2. IdsOf(backup') = {} /\ KeptIds' = IdsOf(file)
        <4>1. IdsOf(backup') = {}
          BY <2>3 DEF IdsOf, LinesOf
        <4> QED BY <1>17, <2>1, <4>1
      <3>3. file # None /\ file \in File /\ Length(file) + DiskLength(m) > MaxFileBytes
        BY <1>0, <2>1 DEF TypeOK
      <3>4. KeptBytes' = Length(file) /\ Length(file) \in Nat
        <4>1. Length(file) \in Nat
          BY <3>3, FileParts
        <4>2. KeptBytes' = 0 + Length(file)
          BY <2>1, <2>3, <3>3 DEF KeptBytes
        <4> QED BY <4>1, <4>2
      <3>5. \A id \in logged' \ KeptIds' : \A kept \in KeptIds' : id < kept
        BY <1>1, <1>2, <2>1, <3>2
      <3>6. line[m].bytes \in LineBytes /\ line[m].bytes \in Nat /\ DiskLength(m) = line[m].bytes + 1
        BY <1>0, <2>1, InHand
      <3>7. ASSUME NEW bytes \in LineBytes, Enough(bytes)
            PROVE  KeptBytes' + bytes + 1 > MaxFileBytes
        <4>1. line[m].bytes <= bytes
          BY <3>6, <3>7
        <4> QED BY <1>2, <3>3, <3>4, <3>6, <4>1, CapacityAssumption
      <3>8. \A id \in logged' \cup KeptIds' : id < next' /\ id < line'[m].id
        BY <1>1, <1>2, <2>1, <3>2
      <3> QED BY <2>1, <3>1, <3>2, <3>5, <3>7, <3>8 DEF OrderInv, m
    <2> QED BY <1>12, <2>2, <2>3 DEF RemoveBackup
  <1>13. CASE RenameFile(m)
    <2>1. /\ pc[m] = "rename" /\ UNCHANGED <<line, next, logged>> /\ backup = None
          /\ \/ pc' = [pc EXCEPT ![m] = "reopen"] \/ pc' = [pc EXCEPT ![m] = "reopenFailed"]
          /\ UNCHANGED <<file, backup>> \/ (backup' = file /\ file' = None)
      BY <1>0, <1>13 DEF RenameFile
    <2>2. CASE UNCHANGED <<file, backup>>
      BY <1>3, <1>5, <2>1, <2>2
    <2>3. CASE backup' = file /\ file' = None
      <3>1. IdsOf(file') = {} /\ IdsOf(backup) = {}
        BY <2>1, <2>3 DEF IdsOf, LinesOf
      <3>2. KeptIds' = KeptIds
        BY <1>2, <1>17, <2>3, <3>1
      <3>3. KeptBytes' = KeptBytes
        <4> DEFINE len == IF file = None THEN 0 ELSE Length(file)
        <4>1. len \in Nat
          BY <1>0, FileParts DEF TypeOK
        <4>2. KeptBytes = 0 + len /\ KeptBytes' = len + 0
          BY <2>1, <2>3 DEF KeptBytes
        <4> HIDE DEF len
        <4> QED BY <4>1, <4>2
      <3> QED BY <1>3, <2>1, <3>1, <3>2, <3>3
    <2> QED BY <2>1, <2>2, <2>3
  <1>14. CASE Reopen(m)
    BY <1>3, <1>5, <1>6, <1>14 DEF Reopen, Lost, history
  <1>15. CASE ReopenFailed(m)
    BY <1>3, <1>5, <1>6, <1>15 DEF ReopenFailed, history
  <1>16. CASE PushBounded(m)
    BY <1>3, <1>5, <1>16 DEF PushBounded, history
  <1> QED
    BY <1>7, <1>8, <1>9, <1>10, <1>11, <1>12, <1>13, <1>14, <1>15, <1>16, <1>18, OwnStep
    DEF Continue, m

-----------------------------------------------------------------------------
(* The window of a file that only the helper appends to *)

LEMMA WindowStep ==
    ASSUME Inv, [Next]_vars
    PROVE  WindowInv'
  <1> DEFINE h == Helper
  <1> SUFFICES ASSUME shared, ~disturbed'
               PROVE  WindowInv'
    BY SharedKept DEF WindowInv
  <1>0. /\ TypeOK /\ HandInv /\ h \in Logs /\ Manager \in Logs /\ h # Manager
    BY BoundAssumption DEF Inv, Logs
  <1>1. ~disturbed
    BY DEF Next, vars, history, Continue, Snapshot, Write, OpenFile, AppendLine, AppendFails,
           BeginRotation, RemoveBackup, RenameFile, Reopen, ReopenFailed, PushBounded, MeasureFile,
           SnapshotCached, ReadExternal, ReadFails, Lost
  <1>2. /\ file # None /\ pc[Manager] = "idle"
        /\ measured # None => measured <= Length(file)
        /\ cached # None => cached <= Length(file)
        /\ cached = Length(file) => lines = Shown(file, cached)
        /\ file \in File /\ Length(file) \in Nat
        /\ measured \in Nat \cup {None} /\ cached \in Nat \cup {None}
    BY <1>0, <1>1, FileParts DEF Inv, WindowInv, TypeOK
  <1> USE DEF Go
  <1> HIDE DEF h
  <1>3. ASSUME UNCHANGED <<file, measured, cached, lines>>, pc'[Manager] = "idle"
        PROVE  WindowInv'
    BY <1>2, <1>3 DEF WindowInv
  <1>4. ASSUME NEW to, pc' = [pc EXCEPT ![h] = to], UNCHANGED <<file, measured, cached, lines>>
        PROVE  WindowInv'
    BY <1>0, <1>2, <1>3, <1>4 DEF TypeOK
  <1>5. \A w \in Logs : Continue(w) => w = h
    BY <1>2 DEF Continue, OpenFile, StartsAppending, AppendLine, AppendFails, BeginRotation,
                RemoveBackup, RenameFile, Reopen, ReopenFailed, PushBounded, Logs, h
  <1>6. ASSUME NEW w \in Logs, NEW bytes \in LineBytes, Write(w, bytes)
        PROVE  WindowInv'
    <2>1. w = h
      BY <1>6 DEF Write, Logs, h
    <2> QED BY <1>4, <1>6, <2>1 DEF Write, bufferVars
  <1>7. ASSUME Opened(h)
        PROVE  UNCHANGED file
    BY <1>2, <1>7 DEF Opened
  <1>8. CASE OpenFile(h)
    BY <1>4, <1>7, <1>8 DEF OpenFile, bufferVars
  \* A file that has grown is longer than the length that is remembered.
  <1>21. ASSUME NEW to, pc' = [pc EXCEPT ![h] = to], UNCHANGED <<measured, cached, lines>>,
                file' \in File, Length(file') > Length(file)
         PROVE  WindowInv'
    <2>1. file' # None /\ Length(file') \in Nat
      BY <1>21, FileParts
    <2>2. pc'[Manager] = "idle"
      BY <1>0, <1>2, <1>21 DEF TypeOK
    <2>3. measured # None => measured <= Length(file')
      BY <1>2, <1>21, <2>1
    <2>4. (cached # None => cached <= Length(file')) /\ cached # Length(file')
      BY <1>2, <1>21, <2>1, NoneAssumption
    <2> QED BY <1>21, <2>1, <2>2, <2>3, <2>4 DEF WindowInv
  <1>9. CASE AppendLine(h)
    <2>1. /\ pc' = [pc EXCEPT ![h] = "push"] /\ UNCHANGED <<lines, cached, measured>>
          /\ pc[h] # "idle"
          /\ UNCHANGED file \/ file' = Appended(file, h)
      BY <1>9 DEF AppendLine, StartsAppending, bufferVars
    <2>2. CASE file' = Appended(file, h)
      <3>1. line[h] \in Line
        BY <1>0, <2>1, InHand
      <3>2. file' \in File /\ Length(file') > Length(file)
        BY <1>0, <1>2, <2>2, <3>1, AppendedFile
      <3> QED BY <1>21, <2>1, <3>2
    <2> QED BY <1>4, <2>1, <2>2
  <1>22. CASE AppendFails(h)
    <2>1. /\ pc' = [pc EXCEPT ![h] = "push"] /\ UNCHANGED <<lines, cached, measured>>
          /\ pc[h] # "idle"
      BY <1>22 DEF AppendFails, StartsAppending, bufferVars
    <2>2. line[h].bytes \in Nat
      BY <1>0, <2>1, InHand
    <2>3. PICK bytes \in 0..line[h].bytes :
            file' = IF handle[h] = "file" THEN Torn(file, bytes) ELSE file
      BY <1>22 DEF AppendFails
    <2>4. CASE bytes = 0 /\ file' = Torn(file, bytes)
      <3>1. file' = file
        BY <1>2, <2>4 DEF Torn, File
      <3> QED BY <1>4, <2>1, <3>1
    <2>5. CASE bytes # 0 /\ file' = Torn(file, bytes)
      <3>1. bytes \in Nat \ {0}
        BY <2>2, <2>5
      <3>2. file' \in File /\ Length(file') > Length(file)
        BY <1>2, <2>5, <3>1, TornFile
      <3> QED BY <1>21, <2>1, <3>2
    <2> QED BY <1>4, <2>1, <2>3, <2>4, <2>5
  <1>10. CASE BeginRotation(h)
    BY <1>4, <1>10 DEF BeginRotation, bufferVars
  <1>11. CASE RemoveBackup(h)
    BY <1>4, <1>11 DEF RemoveBackup, bufferVars
  <1>12. CASE RenameFile(h)
    <2>1. pc' = [pc EXCEPT ![h] = "reopenFailed"] /\ UNCHANGED <<file, measured, cached, lines>>
      BY <1>12 DEF RenameFile, bufferVars
    <2> QED BY <1>4, <2>1
  <1>13. CASE Reopen(h)
    <2>1. UNCHANGED <<file, measured, cached, lines>>
      BY <1>0, <1>7, <1>13 DEF Reopen
    <2> QED BY <1>4, <1>13, <2>1 DEF Reopen
  <1>14. CASE ReopenFailed(h)
    <2>1. UNCHANGED <<file, measured, cached, lines>>
      BY <1>7, <1>14 DEF ReopenFailed, bufferVars
    <2> QED BY <1>4, <1>14, <2>1 DEF ReopenFailed
  <1>15. CASE PushBounded(h)
    BY <1>0, <1>4, <1>15 DEF PushBounded
  <1>16. CASE MeasureFile
    BY <1>2, <1>16 DEF MeasureFile, WindowInv
  <1>17. CASE SnapshotCached
    BY <1>2, <1>17 DEF SnapshotCached, WindowInv
  <1>18. CASE ReadExternal
    <2>1. /\ measured # None /\ lines' = Shown(file, measured) /\ cached' = measured
          /\ measured' = None /\ UNCHANGED <<file, pc>>
      BY <1>18 DEF ReadExternal
    <2> QED BY <1>2, <2>1 DEF WindowInv
  <1>19. CASE ReadFails
    BY <1>2, <1>19 DEF ReadFails, WindowInv
  <1>20. CASE UNCHANGED vars
    BY <1>2, <1>3, <1>20 DEF vars, bufferVars
  <1> QED
    BY <1>5, <1>6, <1>8, <1>9, <1>10, <1>11, <1>12, <1>13, <1>14, <1>15, <1>16, <1>17, <1>18,
       <1>19, <1>20, <1>22 DEF Next, Continue, Snapshot

-----------------------------------------------------------------------------
(* The theorems *)

LEMMA InitInv ==
    ASSUME Init
    PROVE  Inv
  <1>1. file \in File /\ (file = EmptyFile \/ IdsOf(file) \subseteq {0})
    <2>1. CASE file = EmptyFile
      BY <2>1, FileEmpty
    <2>2. ASSUME NEW n \in OldBytes,
                 file = [lines |-> <<[id |-> 0, bytes |-> n]>>, torn |-> 0]
          PROVE  file \in File /\ IdsOf(file) \subseteq {0}
      <3> DEFINE l == [id |-> 0, bytes |-> n]
      <3>1. l \in Line /\ l.id = 0
        BY BoundAssumption DEF Line
      <3>2. file.lines = <<l>> /\ file.torn = 0
        BY <2>2
      <3> HIDE DEF l
      <3>3. <<l>> \in Seq(Line) /\ ToSet(<<l>>) = {l}
        BY <3>1 DEF ToSet
      <3>4. file \in File
        BY <2>2, <3>3 DEF File, l
      <3>5. LinesOf(file) \subseteq {l}
        BY <3>2, <3>3 DEF LinesOf
      <3> QED BY <3>1, <3>4, <3>5 DEF IdsOf
    <2>3. ASSUME NEW n \in OldBytes, file = [lines |-> <<>>, torn |-> n]
          PROVE  file \in File /\ IdsOf(file) \subseteq {0}
      <3>1. n \in Nat /\ <<>> \in Seq(Line)
        BY BoundAssumption
      <3>2. file \in File
        BY <2>3, <3>1 DEF File
      <3>3. LinesOf(file) = {}
        BY <2>3 DEF LinesOf, ToSet
      <3> QED BY <3>2, <3>3 DEF IdsOf
    <2> QED BY <2>1, <2>2, <2>3 DEF Init
  <1>2. file # None /\ Length(file) \in Nat /\ IdsOf(file) \subseteq {0}
    BY <1>1, FileParts, FileEmpty DEF IdsOf
  <1>3. /\ pc = [w \in Logs |-> "idle"] /\ handle = [w \in Logs |-> "file"]
        /\ count = [w \in Logs |-> Length(file)] /\ line = [w \in Logs |-> None]
        /\ backup = None /\ lines = <<>> /\ buffered = 0 /\ cached = None /\ measured = None
        /\ next = 1 /\ left = 0 /\ logged = {} /\ hit = {} /\ disturbed = FALSE /\ faults = {}
        /\ shared \in BOOLEAN
    BY DEF Init
  <1>4. Manager \in Logs /\ Helper \in Logs
    BY DEF Logs
  <1>5. TypeOK
    <2>1. lines \in Seq(Line) /\ next \in 1..MaxLines + 1
      BY <1>3, BoundAssumption
    <2>2. count \in [Logs -> Nat]
      BY <1>2, <1>3
    <2>3. \A w \in Logs : pc[w] = "idle" /\ line[w] = None /\ handle[w] = "file"
      BY <1>3
    <2> QED BY <1>1, <1>2, <1>3, <2>1, <2>2, <2>3 DEF TypeOK
  <1>6. BufferBounded
    BY <1>3, BytesOfNothing, CapacityAssumption DEF BufferBounded
  <1>7. OwnFileInv /\ HandInv /\ MissedInv
    BY <1>2, <1>3, <1>4 DEF OwnFileInv, HandInv, MissedInv
  <1>8. OrderInv
    <2>1. IdsOf(backup) = {} /\ KeptIds \subseteq {0}
      BY <1>2, <1>3 DEF IdsOf, LinesOf, KeptIds
    <2>2. /\ \A id \in logged \cup KeptIds : id < next
          /\ logged \ KeptIds = {} /\ pc[Manager] = "idle"
      <3>1. logged = {} /\ next = 1 /\ pc[Manager] = "idle"
        BY <1>3, <1>4
      <3>2. \A id \in KeptIds : id = 0
        BY <2>1
      <3> QED BY <3>1, <3>2
    <2> QED BY <2>1, <2>2 DEF OrderInv
  <1>9. WindowInv
    BY <1>2, <1>3, <1>4, NoneAssumption DEF WindowInv
  <1> QED BY <1>5, <1>6, <1>7, <1>8, <1>9 DEF Inv

LEMMA Invariance == Spec => []Inv
  <1>1. Init => Inv
    BY InitInv
  <1>2. Inv /\ [Next]_vars => Inv'
    BY TypeStep, BufferStep, OwnFileStep, MissedStep, OrderStep, WindowStep DEF Inv
  <1> QED BY <1>1, <1>2, PTL DEF Spec

\* Every variable of a log keeps its type: the buffer holds lines and counts of bytes never
\* go below zero, whichever of the two ToolLogs rotates, fails or reads.
THEOREM SpecTypeOK == Spec => []TypeOK
  <1>1. Inv => TypeOK
    BY DEF Inv
  <1> QED BY <1>1, Invariance, PTL

\* The buffer stays within both capacities and its count of bytes right, for every capacity
\* and every length of lines.
THEOREM SpecBufferBounded == Spec => []BufferBounded
  <1>1. Inv => BufferBounded
    BY DEF Inv
  <1> QED BY <1>1, Invariance, PTL

\* A file that one ToolLog writes grows within its limit only, however long it was when it was
\* opened and whichever step fails, but for the bytes failed appends left in it uncounted.
THEOREM SpecFileBounded == Spec => FileBounded
  <1>1. ASSUME Inv, [Next]_vars
        PROVE  [(~shared /\ file # None /\ file' # None /\ Length(file') > Length(file))
                  => Length(file') <= MaxFileBytes + left']_vars
    BY <1>1, GrowthStep
  <1> QED BY <1>1, Invariance, PTL DEF Spec, FileBounded

\* Of a file that one ToolLog writes only the oldest lines go, for a whole file of later ones.
THEOREM SpecHistoryKept == Spec => []HistoryKept
  <1>1. Inv => HistoryKept
    BY DEF Inv, OrderInv, HistoryKept
  <1> QED BY <1>1, Invariance, PTL

\* A line whose write is over is in the file its ToolLog has to itself, unless a fault hit that
\* very write.
THEOREM SpecMissedOnlyByFault == Spec => []MissedOnlyByFault
  <1>1. ASSUME Inv
        PROVE  MissedOnlyByFault
    <2> SUFFICES ASSUME NEW w \in Logs, ~shared, pc[w] = "push"
                 PROVE  line[w].id \in hit \/ \E l \in LinesOf(file) : l.id = line[w].id
      BY DEF MissedOnlyByFault
    <2>1. w = Manager
      BY <1>1 DEF Inv, OwnFileInv, Logs
    <2> QED BY <1>1, <2>1 DEF Inv, MissedInv, IdsOf
  <1> QED BY <1>1, Invariance, PTL

\* What the window shows of a file that the helper appends to is its end, whenever the
\* length it remembers is that of the file.
THEOREM SpecWindowIsCurrent == Spec => []WindowIsCurrent
  <1>1. Inv => WindowIsCurrent
    BY DEF Inv, WindowInv, WindowIsCurrent
  <1> QED BY <1>1, Invariance, PTL

=============================================================================
