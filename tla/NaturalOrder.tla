----------------------------- MODULE NaturalOrder ----------------------------
(* The order in which the files of a directory become requests and layers of  *)
(* configuration: exploreFS (internal/treewalker/treewalker.go) sorts its     *)
(* entries by Compare (internal/natsort/natsort.go), which takes the runs of  *)
(* digits in a name for numbers.                                              *)
(*                                                                            *)
(* A name is a sequence of bytes, a byte an integer: 0 .. 9 are the digits,   *)
(* what sorts before them is negative, what sorts after them greater than 9.  *)
EXTENDS Integers, Sequences, SequencesExt, FiniteSetsExt

CONSTANTS
  Names,     \* names of directory entries
  Listing,   \* bound: entries of a directory
  MaxInt     \* the greatest number strconv.Atoi accepts

ASSUME NameAssumption ==
  /\ Names \subseteq Seq(Int) \ {<<>>}
  /\ Listing \in Nat /\ MaxInt \in Nat

VARIABLES
  entries,   \* the entries, in the order they have got so far
  ordered    \* how many of them, from the first, SortFunc has dealt with

sortVars == <<entries, ordered>>

Digit(c) == c \in 0 .. 9

(* A byte goes on with the chunk before it if both or neither are digits.     *)
chunkify(s) ==
  LET read[i \in 0 .. Len(s)] ==
        IF i = 0 THEN <<>>
        ELSE LET chunks == read[i - 1] IN
             IF i = 1 \/ Digit(s[i]) # Digit(s[i - 1]) THEN Append(chunks, <<s[i]>>)
             ELSE [chunks EXCEPT ![Len(chunks)] = Append(@, s[i])]
  IN  read[Len(s)]

NumberOf(chunk) ==
  LET number[i \in 0 .. Len(chunk)] ==
        IF i = 0 THEN 0 ELSE 10 * number[i - 1] + chunk[i]
  IN  number[Len(chunk)]

(* strconv.Atoi returns no error. *)
Atoi(chunk) == Digit(chunk[1]) /\ NumberOf(chunk) <= MaxInt

BytesLess(a, b) ==
  LET differ == {i \in DOMAIN a \cap DOMAIN b : a[i] # b[i]}
  IN  IF differ = {} THEN Len(a) < Len(b) ELSE a[Min(differ)] < b[Min(differ)]

SameChunk(x, y) == IF Atoi(x) /\ Atoi(y) THEN NumberOf(x) = NumberOf(y) ELSE x = y

(* Mutant: chunks are compared as strings, numbers or not. *)
ChunkLessBytes(x, y) == BytesLess(x, y)

ChunkLess(x, y) ==
  IF Atoi(x) /\ Atoi(y) THEN NumberOf(x) < NumberOf(y) ELSE BytesLess(x, y)

(* The first chunks that differ decide, and otherwise a name with no more     *)
(* chunks than the other comes first, even if it is the same.                 *)
Compare(a, b) ==
  LET chunksA == chunkify(a)
      chunksB == chunkify(b)
      differ  == {i \in DOMAIN chunksA \cap DOMAIN chunksB : ~SameChunk(chunksA[i], chunksB[i])}
  IN  IF differ = {} THEN Len(chunksA) <= Len(chunksB)
      ELSE ChunkLess(chunksA[Min(differ)], chunksB[Min(differ)])

(* fs.ReadDir lists a directory in the order of bytes. *)
Ascending(s) == \A i \in 1 .. Len(s) - 1 : BytesLess(s[i], s[i + 1])

SortInit ==
  /\ entries \in {s \in [1 .. Listing -> Names] : Ascending(s)}
  /\ ordered = 1

(* slices.SortFunc sorts twelve entries or less by insertion: the next one    *)
(* moves to the left while it is less than the one before it.                 *)
InsertEntry ==
  /\ ordered < Len(entries)
  /\ LET x    == entries[ordered + 1]
         stop == {i \in 1 .. ordered : ~Compare(x, entries[i])}
         to   == 1 + Max(stop \cup {0})
     IN  entries' = InsertAt(RemoveAt(entries, ordered + 1), to, x)
  /\ ordered' = ordered + 1

SortNext == InsertEntry

SortSpec == SortInit /\ [][SortNext]_sortVars

-----------------------------------------------------------------------------
(* strconv.Atoi accepts every number in the name.  One that is too great is   *)
(* compared as a string, which is no order together with the others.          *)
Counted(s) ==
  \A i \in DOMAIN chunkify(s) : Digit(chunkify(s)[i][1]) => Atoi(chunkify(s)[i])

(* No chunk tells the names apart, as in 01.x and 1.x: Compare then says of   *)
(* each of them that it is less than the other.                               *)
Alike(a, b) ==
  /\ Len(chunkify(a)) = Len(chunkify(b))
  /\ \A i \in DOMAIN chunkify(a) : SameChunk(chunkify(a)[i], chunkify(b)[i])

(* Names that Compare can order: numbers may have leading zeros, as in        *)
(* 01_login.sinq, as long as zeros are not all that two names differ in.      *)
Sortable(names) ==
  /\ \A i \in DOMAIN names : Counted(names[i])
  /\ \A i, j \in DOMAIN names : i # j => ~Alike(names[i], names[j])

(* The names differ in one number only, zeros aside, and a has the smaller.   *)
SmallerNumber(a, b) ==
  LET x == chunkify(a)
      y == chunkify(b)
  IN  /\ Len(x) = Len(y)
      /\ \E i \in DOMAIN x :
           /\ Digit(x[i][1]) /\ Digit(y[i][1]) /\ NumberOf(x[i]) < NumberOf(y[i])
           /\ \A j \in DOMAIN x \ {i} : SameChunk(x[j], y[j])

(* In a directory of sortable names no two entries are the wrong way round    *)
(* once they are sorted, 2.sinq and 02.sinq come before 10.sinq, and sorting  *)
(* loses no entry (exploreFS).  SortFunc only compares neighbours, so this    *)
(* needs Compare to be transitive over names that mix numbers and text.       *)
FilesInNaturalOrder ==
  Sortable(entries) =>
    /\ Cardinality(ToSet(entries)) = Len(entries)
    /\ \A i, j \in 1 .. ordered : i < j =>
         /\ ~Compare(entries[j], entries[i])
         /\ ~SmallerNumber(entries[j], entries[i])
=============================================================================
