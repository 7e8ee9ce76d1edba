-------------------------- MODULE RingBufferProofs --------------------------
(***************************************************************************)
(* Theorems about RingBuffer, for every limit, every set of bytes and      *)
(* every length of the caller's buffers: the three counters of the buffer  *)
(* agree, and it implements Fifo.                                          *)
(***************************************************************************)
EXTENDS RingBuffer, SequenceTheorems, TLAPS

IInv == TypeOK /\ Consistent
-----------------------------------------------------------------------------
(* Sequences and the memory file.                                          *)

\* What the assumptions on the constants come to.
LEMMA Constants == Limit \in Nat /\ Limit > 0 /\ MaxIO \in Nat
BY LimitIsPositive, MaxIOIsNatural

\* A function on 1..n is a sequence.
LEMMA FunctionIsSequence ==
  ASSUME NEW S, NEW n \in Nat, NEW f \in [1..n -> S]
  PROVE  f \in Seq(S) /\ Len(f) = n
OBVIOUS

\* A prefix or suffix of a sequence, element by element.
LEMMA Part ==
  ASSUME NEW S, NEW s \in Seq(S), NEW a \in Nat, NEW b \in Nat,
         a >= 1, a <= b + 1, b <= Len(s)
  PROVE  /\ SubSeq(s, a, b) \in Seq(S)
         /\ Len(SubSeq(s, a, b)) = b - a + 1
         /\ \A i \in 1..(b - a + 1) : SubSeq(s, a, b)[i] = s[a + i - 1]
<1>1. \A i \in a..b : s[i] \in S
  OBVIOUS
<1>2. a \in Int /\ b \in Int
  OBVIOUS
<1> QED
  BY <1>1, <1>2, SubSeqProperties

\* A write leaves the cells it covers with the caller's bytes, the others alone.
LEMMA FileAfterWrite ==
  ASSUME NEW file, NEW pos \in Nat, NEW bytes \in Seq(Byte), NEW c \in Cells
  PROVE  /\ pos <= c /\ c < pos + Len(bytes)
              => /\ FileWrite(file, pos, bytes)[c] = bytes[c - pos + 1]
                 /\ FileWrite(file, pos, bytes)[c] \in Byte
         /\ ~ (pos <= c /\ c < pos + Len(bytes)) => FileWrite(file, pos, bytes)[c] = file[c]
<1>1. c \in Nat /\ Len(bytes) \in Nat
  BY Constants DEF Cells
<1>2. FileWrite(file, pos, bytes)[c] = IF pos <= c /\ c < pos + Len(bytes)
                                       THEN bytes[c - pos + 1] ELSE file[c]
  BY DEF FileWrite
<1>3. ASSUME pos <= c, c < pos + Len(bytes) PROVE bytes[c - pos + 1] \in Byte
  BY <1>1, <1>3
<1> QED
  BY <1>2, <1>3

\* A write leaves a file of bytes and stale cells.
LEMMA FileType ==
  ASSUME NEW file \in [Cells -> Byte \cup {Stale}], NEW pos \in Nat, NEW bytes \in Seq(Byte)
  PROVE  FileWrite(file, pos, bytes) \in [Cells -> Byte \cup {Stale}]
<1>1. ASSUME NEW c \in Cells PROVE FileWrite(file, pos, bytes)[c] \in Byte \cup {Stale}
  BY <1>1, FileAfterWrite
<1>2. FileWrite(file, pos, bytes)
        = [c \in Cells |-> FileWrite(file, pos, bytes)[c]]
  BY DEF FileWrite
<1> QED
  BY <1>1, <1>2
-----------------------------------------------------------------------------
(* The contents.                                                           *)

\* Where the i-th byte lies, and that it is written there.
LEMMA CellOfByte ==
  ASSUME IInv, NEW i \in 1..len
  PROVE  /\ Cell(head + i - 1) \in Cells
         /\ Cell(head + i - 1) < size
         /\ data[Cell(head + i - 1)] \in Byte
<1>1. /\ Limit \in Nat /\ Limit > 0 /\ size \in Nat /\ size <= Limit
      /\ head \in Nat /\ head <= Limit /\ end \in Nat /\ end <= Limit
      /\ len \in Nat /\ len <= Limit /\ i \in Nat /\ i >= 1 /\ i <= len
  BY Constants DEF IInv, TypeOK
<1>2. Cell(head + i - 1) \in Cells /\ Cell(head + i - 1) < size
  <2>1. CASE end = head + len
    BY <1>1, <2>1 DEF IInv, Consistent, Cell, Cells
  <2>2. CASE end # head + len
    BY <1>1, <2>2 DEF IInv, Consistent, Cell, Cells
  <2> QED BY <2>1, <2>2
<1> QED
  BY <1>2 DEF IInv, Consistent

\* What the buffer holds is a sequence of bytes.
LEMMA ContentsSequence ==
  ASSUME IInv
  PROVE  /\ Contents \in Seq(Byte)
         /\ Len(Contents) = len
         /\ \A i \in 1..len : Contents[i] = data[Cell(head + i - 1)]
<1>1. len \in Nat
  BY Constants DEF IInv, TypeOK
<1>2. Contents \in [1..len -> Byte]
  BY CellOfByte DEF Contents
<1>3. \A i \in 1..len : Contents[i] = data[Cell(head + i - 1)]
  BY DEF Contents
<1> QED
  BY <1>1, <1>2, <1>3, FunctionIsSequence
-----------------------------------------------------------------------------
(* Reading.                                                                *)

\* What FileRead answers when the range is written.
LEMMA FileReadBytes ==
  ASSUME IInv, NEW pos \in Nat, NEW n \in Nat, pos + n <= size
  PROVE  /\ FileRead(pos, n) \in Seq(Byte)
         /\ Len(FileRead(pos, n)) = n
         /\ \A i \in 1..n : FileRead(pos, n)[i] = data[pos + i - 1]
<1>1. size \in Nat /\ size <= Limit /\ Limit \in Nat
  BY Constants DEF IInv, TypeOK
<1>2. ASSUME NEW i \in 1..n
      PROVE  FileRead(pos, n)[i] = data[pos + i - 1] /\ data[pos + i - 1] \in Byte
  <2>1. pos + i - 1 < size /\ pos + i - 1 \in Cells
    BY <1>1, <1>2 DEF Cells
  <2>2. data[pos + i - 1] \in Byte
    BY <2>1 DEF IInv, Consistent
  <2> QED
    BY <2>1, <2>2 DEF FileRead
<1>3. FileRead(pos, n) \in [1..n -> Byte]
  BY <1>2 DEF FileRead
<1> QED
  BY <1>2, <1>3, FunctionIsSequence

\* The bytes a read hands out are the first of the contents.
LEMMA ReadGetsPrefix ==
  ASSUME IInv, NEW n \in Nat, Read(n)
  PROVE  /\ reply'.call = "read"
         /\ reply' = [call |-> "read", bytes |-> SubSeq(Contents, 1, Least(n, len))]
<1> DEFINE k == Least(n, len)
           till == Limit - head
           piece == IF Straight(head, k) THEN FileRead(head, k)
                    ELSE FileRead(head, till) \o FileRead(0, k - till)
           prefix == SubSeq(Contents, 1, k)
<1>1. /\ Limit \in Nat /\ Limit > 0 /\ size \in Nat /\ size <= Limit
      /\ head \in Nat /\ head <= Limit /\ end \in Nat /\ end <= Limit
      /\ len \in Nat /\ len <= Limit /\ k \in Nat /\ k <= len /\ till \in Nat
  BY Constants DEF IInv, TypeOK, Least
<1>2. reply' = [call |-> "read", bytes |-> piece]
  BY DEF Read
<1>3. prefix \in Seq(Byte) /\ Len(prefix) = k /\ \A i \in 1..k : prefix[i] = Contents[i]
  <2>1. /\ prefix \in Seq(Byte) /\ Len(prefix) = k - 1 + 1
        /\ \A i \in 1..(k - 1 + 1) : prefix[i] = Contents[1 + i - 1]
    BY <1>1, ContentsSequence, Part
  <2>2. k - 1 + 1 = k /\ \A i \in 1..k : 1 + i - 1 = i
    BY <1>1
  <2> QED
    BY <2>1, <2>2
<1>4. ASSUME NEW i \in 1..k PROVE prefix[i] = data[Cell(head + i - 1)]
  <2>1. i \in 1..len
    BY <1>1
  <2> QED
    BY <2>1, <1>3, ContentsSequence
<1>5. piece \in Seq(Byte) /\ Len(piece) = k /\ \A i \in 1..k : piece[i] = data[Cell(head + i - 1)]
  <2>1. CASE Straight(head, k)
    <3>1. head + k <= Limit /\ piece = FileRead(head, k)
      BY <2>1 DEF Straight
    <3>2. head + k <= size
      BY <1>1, <3>1 DEF IInv, Consistent
    <3>3. \A i \in 1..k : Cell(head + i - 1) = head + i - 1
      BY <1>1, <3>1 DEF Cell
    <3> HIDE DEF k, piece
    <3>4. /\ FileRead(head, k) \in Seq(Byte) /\ Len(FileRead(head, k)) = k
          /\ \A i \in 1..k : FileRead(head, k)[i] = data[head + i - 1]
      BY <1>1, <3>2, FileReadBytes
    <3>5. ASSUME NEW i \in 1..k PROVE piece[i] = data[Cell(head + i - 1)]
      BY <3>1, <3>3, <3>4
    <3> QED
      BY <3>1, <3>4, <3>5
  <2>2. CASE ~ Straight(head, k)
    <3> DEFINE first == FileRead(head, till)
               second == FileRead(0, k - till)
    <3>1. head + k > Limit /\ piece = first \o second
      BY <1>1, <2>2 DEF Straight
    <3>2. size = Limit /\ k - till \in Nat /\ head + till <= size /\ 0 + (k - till) <= size
      BY <1>1, <3>1 DEF IInv, Consistent
    <3>3. /\ first \in Seq(Byte) /\ Len(first) = till
          /\ \A i \in 1..till : first[i] = data[head + i - 1]
      BY <1>1, <3>2, FileReadBytes
    <3>4. /\ second \in Seq(Byte) /\ Len(second) = k - till
          /\ \A i \in 1..(k - till) : second[i] = data[0 + i - 1]
      BY <1>1, <3>2, FileReadBytes
    <3> HIDE DEF first, second, piece, k
    <3>6. Len(first) + Len(second) = k
      BY <1>1, <3>3, <3>4
    <3>5. /\ piece \in Seq(Byte) /\ Len(piece) = Len(first) + Len(second)
          /\ \A i \in 1..(Len(first) + Len(second)) :
               piece[i] = IF i <= Len(first) THEN first[i] ELSE second[i - Len(first)]
      <4>1. /\ first \o second \in Seq(Byte)
            /\ Len(first \o second) = Len(first) + Len(second)
            /\ \A i \in 1..(Len(first) + Len(second)) :
                 (first \o second)[i]
                   = IF i <= Len(first) THEN first[i] ELSE second[i - Len(first)]
        BY <3>3, <3>4, ConcatProperties
      <4> QED
        BY <4>1, <3>1
    <3>7. ASSUME NEW i \in 1..k PROVE piece[i] = data[Cell(head + i - 1)]
      <4>1. CASE i <= till
        <5>1. i \in 1..till /\ Cell(head + i - 1) = head + i - 1
          BY <1>1, <4>1 DEF Cell
        <5> QED
          BY <5>1, <4>1, <3>3, <3>5, <3>6
      <4>2. CASE ~ (i <= till)
        <5>1. i - till \in 1..(k - till) /\ Cell(head + i - 1) = 0 + (i - till) - 1
          BY <1>1, <3>2, <4>2 DEF Cell
        <5>2. piece[i] = second[i - till]
          BY <4>2, <3>3, <3>5, <3>6
        <5>3. second[i - till] = data[0 + (i - till) - 1]
          BY <5>1, <3>4
        <5> QED
          BY <5>1, <5>2, <5>3
      <4> QED
        BY <4>1, <4>2
    <3> QED
      BY <3>5, <3>6, <3>7
  <2> QED
    BY <2>1, <2>2
<1>6. piece = prefix
  <2> HIDE DEF piece, prefix, k
  <2> QED
    BY <1>3, <1>4, <1>5, SeqEqual
<1> QED
  BY <1>2, <1>6

\* What is left after a read is the rest of the contents, and the counters agree.
LEMMA ReadStep ==
  ASSUME IInv, NEW n \in Nat, Read(n)
  PROVE  /\ IInv'
         /\ Contents' = SubSeq(Contents, Least(n, len) + 1, len)
<1> DEFINE k == Least(n, len)
           rest == SubSeq(Contents, k + 1, len)
<1>1. /\ Limit \in Nat /\ Limit > 0 /\ size \in Nat /\ size <= Limit
      /\ head \in Nat /\ head <= Limit /\ end \in Nat /\ end <= Limit
      /\ len \in Nat /\ len <= Limit /\ k \in Nat /\ k <= len
  BY Constants DEF IInv, TypeOK, Least
<1>2. /\ head' = IF head + k <= Limit THEN head + k ELSE head + k - Limit
      /\ len' = len - k /\ data' = data /\ size' = size /\ end' = end
  BY DEF Read, Advance, Straight
<1>3. SubSeq(Contents, 1, k) \in Seq(Byte)
  BY <1>1, ContentsSequence, Part
<1>4. TypeOK'
  <2>1. reply' = [call |-> "read", bytes |-> SubSeq(Contents, 1, k)]
    BY ReadGetsPrefix
  <2>2. reply' \in [call : {"new", "read", "write"}, bytes : Seq(Byte)]
    BY <2>1, <1>3
  <2>3. head' \in 0..Limit /\ len' \in 0..Limit
    BY <1>1, <1>2
  <2> QED
    BY <1>1, <1>2, <2>2, <2>3 DEF IInv, TypeOK
<1>5. Consistent'
  BY <1>1, <1>2 DEF IInv, Consistent
<1>6. IInv'
  BY <1>4, <1>5 DEF IInv
<1>7. /\ Contents' \in Seq(Byte) /\ Len(Contents') = len'
      /\ \A i \in 1..len' : Contents'[i] = data'[Cell(head' + i - 1)]
  <2>1. len' \in Nat
    BY <1>1, <1>2
  <2>2. ASSUME NEW i \in 1..len' PROVE data'[Cell(head' + i - 1)] \in Byte
    <3>1. k + i \in 1..len /\ Cell(head' + i - 1) = Cell(head + (k + i) - 1)
      BY <1>1, <1>2, <2>2 DEF Cell
    <3> QED
      BY <3>1, <1>2, CellOfByte
  <2>3. Contents' = [i \in 1..len' |-> data'[Cell(head' + i - 1)]]
    BY DEF Contents, Cell
  <2>4. Contents' \in [1..len' -> Byte]
    BY <2>2, <2>3
  <2> QED
    BY <2>1, <2>3, <2>4, FunctionIsSequence
<1>8. /\ rest \in Seq(Byte) /\ Len(rest) = len - k
      /\ \A i \in 1..(len - k) : rest[i] = Contents[k + i]
  <2>1. /\ rest \in Seq(Byte) /\ Len(rest) = len - (k + 1) + 1
        /\ \A i \in 1..(len - (k + 1) + 1) : rest[i] = Contents[(k + 1) + i - 1]
    <3>1. /\ k + 1 \in Nat /\ k + 1 >= 1 /\ k + 1 <= len + 1
          /\ Contents \in Seq(Byte) /\ len <= Len(Contents)
      BY <1>1, ContentsSequence
    <3> HIDE DEF k
    <3> QED
      BY <1>1, <3>1, Part
  <2>2. len - (k + 1) + 1 = len - k /\ \A i \in 1..(len - k) : (k + 1) + i - 1 = k + i
    BY <1>1
  <2> QED
    BY <2>1, <2>2
<1>9. ASSUME NEW i \in 1..len' PROVE Contents'[i] = rest[i]
  <2>1. /\ k + i \in 1..len /\ i \in 1..(len - k)
        /\ Cell(head' + i - 1) = Cell(head + (k + i) - 1)
    BY <1>1, <1>2 DEF Cell
  <2>2. Contents'[i] = data[Cell(head + (k + i) - 1)]
    BY <2>1, <1>2, <1>7
  <2>3. rest[i] = data[Cell(head + (k + i) - 1)]
    BY <2>1, <1>8, ContentsSequence
  <2> QED
    BY <2>2, <2>3
<1>10. Contents' = rest
  <2> HIDE DEF rest, k
  <2> QED
    BY <1>2, <1>7, <1>8, <1>9, SeqEqual
<1> QED
  BY <1>6, <1>10
-----------------------------------------------------------------------------
(* Writing.                                                                *)

\* After a write, cell by cell: the old bytes stay where they were and the new
\* ones follow them.
LEMMA WriteCells ==
  ASSUME IInv, NEW bytes \in Seq(Byte), Write(bytes), NEW i \in 1..len'
  PROVE  /\ i <= len => data'[Cell(head + i - 1)] = data[Cell(head + i - 1)]
         /\ i > len => data'[Cell(head + i - 1)] = bytes[i - len]
<1> DEFINE k == Least(Len(bytes), Limit - len)
           till == Limit - end
           all == SubSeq(bytes, 1, k)
           first == SubSeq(bytes, 1, till)
           second == SubSeq(bytes, till + 1, k)
           c == Cell(head + i - 1)
<1>1. /\ Limit \in Nat /\ Limit > 0 /\ size \in Nat /\ size <= Limit
      /\ head \in Nat /\ head <= Limit /\ end \in Nat /\ end <= Limit
      /\ len \in Nat /\ len <= Limit /\ till \in Nat
      /\ k \in Nat /\ k <= Len(bytes) /\ k <= Limit - len /\ Len(bytes) \in Nat
  BY Constants DEF IInv, TypeOK, Least
<1>2. len' = len + k /\ i \in Nat /\ i >= 1 /\ i <= len + k
  BY <1>1 DEF Write
<1>3. end = head + len \/ end = head + len - Limit
  BY DEF IInv, Consistent
<1>4. c \in Cells
  BY <1>1, <1>2 DEF Cell, Cells
<1>5. CASE end + k <= Limit
  <2>1. data' = FileWrite(data, end, all)
    BY <1>5 DEF Write, Straight
  <2>2. all \in Seq(Byte) /\ Len(all) = k /\ \A j \in 1..k : all[j] = bytes[j]
    <3>1. /\ all \in Seq(Byte) /\ Len(all) = k - 1 + 1
          /\ \A j \in 1..(k - 1 + 1) : all[j] = bytes[1 + j - 1]
      BY <1>1, Part
    <3>2. k - 1 + 1 = k /\ \A j \in 1..k : 1 + j - 1 = j
      BY <1>1
    <3> QED
      BY <3>1, <3>2
  <2> HIDE DEF all, k
  <2>3. /\ end <= c /\ c < end + k => data'[c] = all[c - end + 1]
        /\ ~ (end <= c /\ c < end + k) => data'[c] = data[c]
    <3> HIDE DEF c
    <3>0. end \in Nat
      BY <1>1
    <3>1. /\ end <= c /\ c < end + Len(all) => FileWrite(data, end, all)[c] = all[c - end + 1]
          /\ ~ (end <= c /\ c < end + Len(all)) => FileWrite(data, end, all)[c] = data[c]
      <4>1. all \in Seq(Byte)
        BY <2>2
      <4> HIDE DEF till, first, second
      <4>2. \A cell \in Cells :
              /\ end <= cell /\ cell < end + Len(all)
                   => FileWrite(data, end, all)[cell] = all[cell - end + 1]
              /\ ~ (end <= cell /\ cell < end + Len(all))
                   => FileWrite(data, end, all)[cell] = data[cell]
        BY <3>0, <4>1, FileAfterWrite
      <4> QED
        BY <4>2, <1>4
    <3> QED
      BY <3>1, <2>1, <2>2
  <2>4. CASE i <= len
    <3>1. ~ (end <= c /\ c < end + k)
      BY <1>1, <1>2, <1>3, <1>5, <2>4 DEF Cell
    <3> QED
      BY <1>1, <1>2, <3>1, <2>3, <2>4
  <2>5. CASE i > len
    <3>1. c = end + (i - len) - 1 /\ end <= c /\ c < end + k /\ i - len \in 1..k
      BY <1>1, <1>2, <1>3, <1>5, <2>5 DEF Cell
    <3>2. c - end + 1 = i - len
      BY <1>1, <1>2, <3>1
    <3> HIDE DEF c
    <3>3. data'[c] = bytes[i - len]
      BY <2>2, <2>3, <3>1, <3>2
    <3> QED
      BY <1>1, <1>2, <2>5, <3>3 DEF c
  <2> QED
    BY <1>1, <1>2, <2>4, <2>5
<1>6. CASE ~ (end + k <= Limit)
  <2>1. data' = FileWrite(FileWrite(data, end, first), 0, second)
    BY <1>6 DEF Write, Straight
  <2>2. till < k /\ end = head + len
    BY <1>1, <1>3, <1>6
  <2>3. first \in Seq(Byte) /\ Len(first) = till /\ \A j \in 1..till : first[j] = bytes[j]
    <3>1. /\ first \in Seq(Byte) /\ Len(first) = till - 1 + 1
          /\ \A j \in 1..(till - 1 + 1) : first[j] = bytes[1 + j - 1]
      <4>1. till \in Nat /\ 1 <= till + 1 /\ till <= Len(bytes)
        BY <1>1, <2>2
      <4> HIDE DEF till
      <4> QED
        BY <4>1, Part
    <3>2. till - 1 + 1 = till /\ \A j \in 1..till : 1 + j - 1 = j
      BY <1>1
    <3> QED
      BY <3>1, <3>2
  <2>4. /\ second \in Seq(Byte) /\ Len(second) = k - till
        /\ \A j \in 1..(k - till) : second[j] = bytes[till + j]
    <3>1. /\ second \in Seq(Byte) /\ Len(second) = k - (till + 1) + 1
          /\ \A j \in 1..(k - (till + 1) + 1) : second[j] = bytes[(till + 1) + j - 1]
      BY <1>1, <2>2, Part
    <3>2. k - (till + 1) + 1 = k - till /\ \A j \in 1..(k - till) : (till + 1) + j - 1 = till + j
      BY <1>1
    <3> QED
      BY <3>1, <3>2
  <2> DEFINE half == FileWrite(data, end, first)
  <2> HIDE DEF first, second, k
  <2>5. /\ end <= c /\ c < end + till => half[c] = first[c - end + 1]
        /\ ~ (end <= c /\ c < end + till) => half[c] = data[c]
    BY <1>1, <1>4, <2>3, FileAfterWrite
  <2>6. /\ 0 <= c /\ c < 0 + (k - till) => data'[c] = second[c - 0 + 1]
        /\ ~ (0 <= c /\ c < 0 + (k - till)) => data'[c] = half[c]
    <3> HIDE DEF c, half
    <3>1. /\ 0 <= c /\ c < 0 + Len(second)
               => FileWrite(half, 0, second)[c] = second[c - 0 + 1]
          /\ ~ (0 <= c /\ c < 0 + Len(second)) => FileWrite(half, 0, second)[c] = half[c]
      BY <1>4, <2>4, FileAfterWrite
    <3>2. data' = FileWrite(half, 0, second)
      BY <2>1 DEF half
    <3> QED
      BY <3>1, <3>2, <2>4
  <2>7. CASE i <= len
    <3>1. ~ (end <= c /\ c < end + till) /\ ~ (0 <= c /\ c < 0 + (k - till))
      BY <1>1, <1>2, <1>6, <2>2, <2>7 DEF Cell
    <3> QED
      BY <1>1, <1>2, <3>1, <2>5, <2>6, <2>7
  <2>8. CASE i > len /\ i - len <= till
    <3>1. /\ c = end + (i - len) - 1 /\ i - len \in 1..till
          /\ end <= c /\ c < end + till /\ ~ (0 <= c /\ c < 0 + (k - till))
      BY <1>1, <1>2, <1>6, <2>2, <2>8 DEF Cell
    <3>2. c - end + 1 = i - len
      BY <1>1, <1>2, <3>1
    <3> HIDE DEF c, half
    <3>3. data'[c] = bytes[i - len]
      BY <2>3, <2>5, <2>6, <3>1, <3>2
    <3> QED
      BY <1>1, <1>2, <2>8, <3>3 DEF c
  <2>9. CASE i > len /\ i - len > till
    <3>1. /\ c = (i - len) - till - 1 /\ 0 <= c /\ c < 0 + (k - till)
      BY <1>1, <1>2, <1>6, <2>2, <2>9 DEF Cell
    <3>2. c - 0 + 1 = (i - len) - till /\ (i - len) - till \in 1..(k - till)
          /\ till + ((i - len) - till) = i - len
      BY <1>1, <1>2, <2>2, <2>9, <3>1
    <3> HIDE DEF c, half
    <3>3. data'[c] = second[(i - len) - till]
      BY <2>6, <3>1, <3>2
    <3>4. data'[c] = bytes[i - len]
      BY <2>4, <3>2, <3>3
    <3> QED
      BY <1>1, <1>2, <2>9, <3>4 DEF c
  <2> QED
    BY <1>1, <1>2, <2>7, <2>8, <2>9
<1> QED
  BY <1>5, <1>6

\* A write appends the accepted bytes to the contents, and the counters agree.
LEMMA WriteStep ==
  ASSUME IInv, NEW bytes \in Seq(Byte), Write(bytes)
  PROVE  /\ IInv'
         /\ Contents' = Contents \o SubSeq(bytes, 1, Least(Len(bytes), Limit - len))
<1> DEFINE k == Least(Len(bytes), Limit - len)
           till == Limit - end
           all == SubSeq(bytes, 1, k)
           first == SubSeq(bytes, 1, till)
           second == SubSeq(bytes, till + 1, k)
<1>1. /\ Limit \in Nat /\ Limit > 0 /\ size \in Nat /\ size <= Limit
      /\ head \in Nat /\ head <= Limit /\ end \in Nat /\ end <= Limit
      /\ len \in Nat /\ len <= Limit /\ till \in Nat
      /\ k \in Nat /\ k <= Len(bytes) /\ k <= Limit - len /\ Len(bytes) \in Nat
      /\ data \in [Cells -> Byte \cup {Stale}]
  BY Constants DEF IInv, TypeOK, Least
<1>2. end = head + len \/ end = head + len - Limit
  BY DEF IInv, Consistent
<1>3. /\ end' = IF end + k <= Limit THEN end + k ELSE end + k - Limit
      /\ len' = len + k /\ head' = head
      /\ reply' = [call |-> "write", bytes |-> all]
  BY DEF Write, Advance, Straight
<1>4. all \in Seq(Byte) /\ Len(all) = k /\ \A j \in 1..k : all[j] = bytes[j]
  <2>1. /\ all \in Seq(Byte) /\ Len(all) = k - 1 + 1
        /\ \A j \in 1..(k - 1 + 1) : all[j] = bytes[1 + j - 1]
    BY <1>1, Part
  <2>2. k - 1 + 1 = k /\ \A j \in 1..k : 1 + j - 1 = j
    BY <1>1
  <2> QED
    BY <2>1, <2>2
<1>5. /\ size' \in 0..Limit
      /\ end + k <= Limit => (size' = size /\ k = 0) \/ (k > 0 /\ size' = Most(size, end + k))
      /\ end + k > Limit => size' = Limit
  <2>1. CASE end + k <= Limit
    BY <1>1, <2>1 DEF Write, Straight, Most
  <2>2. CASE end + k > Limit /\ till > 0
    BY <1>1, <2>2 DEF Write, Straight, Most
  \* The position was at the limit, so the whole file is already written.
  <2>3. CASE end + k > Limit /\ till = 0
    <3>1. end = Limit /\ size = Limit
      BY <1>1, <1>2, <2>3 DEF IInv, Consistent
    <3>2. size' = Most(size, k)
      BY <1>1, <2>3 DEF Write, Straight
    <3> QED
      BY <1>1, <2>3, <3>1, <3>2 DEF Most
  <2> QED
    BY <1>1, <2>1, <2>2, <2>3
<1>6. /\ data' \in [Cells -> Byte \cup {Stale}]
      /\ \A c \in Cells : c < size' => data'[c] \in Byte
  <2>1. CASE end + k <= Limit
    <3>1. data' = FileWrite(data, end, all)
      BY <2>1 DEF Write, Straight
    <3> HIDE DEF all, k
    <3>2. data' \in [Cells -> Byte \cup {Stale}]
      BY <1>1, <1>4, <3>1, FileType
    <3>3. ASSUME NEW c \in Cells, c < size' PROVE data'[c] \in Byte
      <4>1. /\ end <= c /\ c < end + k => data'[c] \in Byte
            /\ ~ (end <= c /\ c < end + k) => data'[c] = data[c]
        <5>1. /\ end <= c /\ c < end + Len(all) => FileWrite(data, end, all)[c] \in Byte
              /\ ~ (end <= c /\ c < end + Len(all)) => FileWrite(data, end, all)[c] = data[c]
          <6>1. end \in Nat /\ all \in Seq(Byte)
            BY <1>1, <1>4
          <6> QED
            BY <6>1, FileAfterWrite
        <5> QED
          BY <5>1, <3>1, <1>4
      \* Below the new end of the file and outside the write: below the old one.
      <4>2. end <= size \/ size = Limit
        BY <1>1, <1>2 DEF IInv, Consistent
      <4>3. ~ (end <= c /\ c < end + k) => c < size
        <5>1. c \in Nat /\ c < Limit
          BY <1>1 DEF Cells
        <5> QED
          BY <1>1, <1>5, <2>1, <3>3, <4>2, <5>1 DEF Most
      <4> QED
        BY <4>1, <4>3 DEF IInv, Consistent
    <3> QED
      BY <3>2, <3>3
  <2>2. CASE end + k > Limit
    <3> DEFINE half == FileWrite(data, end, first)
    <3>1. data' = FileWrite(half, 0, second)
      BY <1>1, <2>2 DEF Write, Straight
    <3>2. till < k /\ end = head + len /\ end <= size
      BY <1>1, <1>2, <2>2 DEF IInv, Consistent
    <3>3. first \in Seq(Byte) /\ Len(first) = till
      <4>1. first \in Seq(Byte) /\ Len(first) = till - 1 + 1
        BY <1>1, <3>2, Part
      <4> QED
        BY <1>1, <4>1
    <3>4. second \in Seq(Byte)
      BY <1>1, <3>2, Part
    <3> HIDE DEF first, second, k
    <3>5. half \in [Cells -> Byte \cup {Stale}]
      BY <1>1, <3>3, FileType
    <3>6. data' \in [Cells -> Byte \cup {Stale}]
      <4> HIDE DEF half
      <4> QED BY <3>1, <3>4, <3>5, FileType
    <3>7. ASSUME NEW c \in Cells PROVE data'[c] \in Byte
      <4>1. c \in Nat /\ c < Limit
        BY <1>1 DEF Cells
      <4>2. half[c] \in Byte
        <5>1. /\ end <= c /\ c < end + Len(first) => half[c] \in Byte
              /\ ~ (end <= c /\ c < end + Len(first)) => half[c] = data[c]
          <6>1. end \in Nat
            BY <1>1
          <6> QED
            BY <6>1, <3>3, FileAfterWrite
        <5>2. CASE c < end
          <6>1. c < size
            BY <1>1, <3>2, <4>1, <5>2
          <6> QED
            BY <5>1, <5>2, <6>1, <4>1, <1>1 DEF IInv, Consistent
        <5>3. CASE c >= end
          BY <1>1, <3>3, <4>1, <5>1, <5>3
        <5> QED
          BY <1>1, <4>1, <5>2, <5>3
      <4> HIDE DEF half
      <4>3. \/ FileWrite(half, 0, second)[c] \in Byte
            \/ FileWrite(half, 0, second)[c] = half[c]
        BY <3>4, FileAfterWrite
      <4> QED
        BY <3>1, <4>2, <4>3
    <3> QED
      BY <3>6, <3>7
  <2> QED
    BY <1>1, <2>1, <2>2
<1>7. IInv'
  <2>1. TypeOK'
    <3>1. reply' \in [call : {"new", "read", "write"}, bytes : Seq(Byte)]
      BY <1>3, <1>4
    <3>2. head' \in 0..Limit /\ end' \in 0..Limit /\ len' \in 0..Limit
      BY <1>1, <1>3
    <3> QED
      BY <1>5, <1>6, <3>1, <3>2 DEF TypeOK
  <2> DEFINE n == k
  <2>0. /\ Limit \in Nat /\ head \in Nat /\ end \in Nat /\ len \in Nat /\ n \in Nat
        /\ size \in Nat /\ head <= Limit /\ end <= Limit /\ len <= Limit
        /\ n <= Limit - len
        /\ end' = (IF end + n <= Limit THEN end + n ELSE end + n - Limit)
        /\ head' = head /\ len' = len + n
        /\ end + n <= Limit => (size' = size /\ n = 0) \/ (n > 0 /\ size' = Most(size, end + n))
        /\ end + n > Limit => size' = Limit
        /\ size <= Limit
    BY <1>1, <1>3, <1>5
  <2> HIDE DEF n
  <2>2. end' = head' + len' \/ end' = head' + len' - Limit
    BY <2>0, <1>2
  <2>3. end' = head' + len' => size' >= end'
    BY <2>0, <1>2 DEF IInv, Consistent, Most
  <2>4. end' # head' + len' => size' = Limit
    BY <2>0, <1>2 DEF IInv, Consistent, Most
  <2>5. Consistent'
    BY <1>6, <2>2, <2>3, <2>4 DEF Consistent
  <2> QED
    BY <2>1, <2>5 DEF IInv
<1>8. /\ Contents' \in Seq(Byte) /\ Len(Contents') = len'
      /\ \A i \in 1..len' : Contents'[i] = data'[Cell(head + i - 1)]
  <2>1. len' \in Nat
    BY <1>1, <1>3
  <2>2. Contents' = [i \in 1..len' |-> data'[Cell(head' + i - 1)]]
    BY DEF Contents, Cell
  <2>3. ASSUME NEW i \in 1..len' PROVE data'[Cell(head' + i - 1)] \in Byte
    <3>1. CASE i <= len
      <4>1. i \in 1..len
        BY <1>1, <1>3, <3>1
      <4> QED
        BY <4>1, <3>1, <1>3, WriteCells, CellOfByte
    <3>2. CASE i > len
      <4>1. i - len \in 1..k /\ bytes[i - len] \in Byte
        BY <1>1, <1>3, <3>2
      <4> QED
        BY <4>1, <3>2, <1>3, WriteCells
    <3> QED
      BY <1>1, <2>1, <3>1, <3>2
  <2>4. Contents' \in [1..len' -> Byte]
    BY <2>2, <2>3
  <2>5. Contents' \in Seq(Byte) /\ Len(Contents') = len'
    BY <2>1, <2>4, FunctionIsSequence
  <2>6. head' = head
    BY <1>3
  <2> QED
    BY <2>2, <2>5, <2>6
<1>9. /\ Contents \o all \in Seq(Byte) /\ Len(Contents \o all) = len'
      /\ \A i \in 1..len' : (Contents \o all)[i]
                              = IF i <= len THEN Contents[i] ELSE all[i - len]
  <2>1. Contents \in Seq(Byte) /\ Len(Contents) = len
    BY ContentsSequence
  <2> HIDE DEF all, k
  <2>2. /\ Contents \o all \in Seq(Byte)
        /\ Len(Contents \o all) = Len(Contents) + Len(all)
        /\ \A i \in 1..(Len(Contents) + Len(all)) :
             (Contents \o all)[i]
               = IF i <= Len(Contents) THEN Contents[i] ELSE all[i - Len(Contents)]
    BY <1>4, <2>1, ConcatProperties
  <2>3. Len(Contents) + Len(all) = len'
    BY <1>3, <1>4, <2>1
  <2> QED
    BY <2>1, <2>2, <2>3
<1>10. ASSUME NEW i \in 1..len' PROVE Contents'[i] = (Contents \o all)[i]
  <2>1. CASE i <= len
    <3>1. i \in 1..len
      BY <1>1, <1>3, <2>1
    <3>2. Contents[i] = data[Cell(head + i - 1)]
      BY <3>1, ContentsSequence
    <3>3. Contents'[i] = data[Cell(head + i - 1)]
      BY <2>1, <1>8, WriteCells
    <3> QED
      BY <2>1, <3>2, <3>3, <1>9
  <2>2. CASE i > len
    <3>1. i - len \in 1..k
      BY <1>1, <1>3, <2>2
    <3>2. Contents'[i] = bytes[i - len]
      BY <2>2, <1>8, WriteCells
    <3>3. all[i - len] = bytes[i - len]
      BY <3>1, <1>4
    <3> HIDE DEF all, k
    <3>4. ~ (i <= len)
      BY <1>1, <1>3, <2>2
    <3> QED
      BY <3>2, <3>3, <3>4, <1>9
  <2>3. i \in Int /\ len \in Int
    BY <1>1, <1>3
  <2>4. i <= len \/ i > len
    BY <2>3
  <2> HIDE DEF all
  <2> QED
    BY <2>1, <2>2, <2>4, Zenon
<1>11. Contents' = Contents \o all
  <2> HIDE DEF all, k
  <2> QED
    BY <1>3, <1>8, <1>9, <1>10, SeqEqual
<1> QED
  BY <1>7, <1>11
-----------------------------------------------------------------------------
(* The theorems.                                                           *)

\* A new buffer is empty.
LEMMA InitEstablishes == Init => IInv /\ Contents = <<>>
<1> SUFFICES ASSUME Init PROVE IInv /\ Contents = <<>>
  OBVIOUS
<1>1. TypeOK
  <2>1. <<>> \in Seq(Byte)
    OBVIOUS
  <2> QED
    BY <2>1, Constants DEF Init, TypeOK
<1>2. Consistent
  BY Constants DEF Init, Consistent, Cells
<1>3. IInv
  BY <1>1, <1>2 DEF IInv
<1>4. Contents \in Seq(Byte) /\ Len(Contents) = 0
  BY <1>3, ContentsSequence DEF Init
<1> QED
  BY <1>3, <1>4

\* Every step of the buffer keeps the counters in agreement and is a step of Fifo.
LEMMA StepImplements == IInv /\ [Next]_vars => IInv' /\ [Abstract!Next]_(Abstract!vars)
<1> SUFFICES ASSUME IInv, [Next]_vars PROVE IInv' /\ [Abstract!Next]_(Abstract!vars)
  OBVIOUS
<1>1. ASSUME NEW n \in 0..MaxIO, Read(n) PROVE IInv' /\ Abstract!Next
  <2>1. n \in Nat
    BY Constants
  <2>2. IInv' /\ Contents' = SubSeq(Contents, Least(n, len) + 1, len)
    BY <1>1, <2>1, ReadStep
  <2>3. reply' = [call |-> "read", bytes |-> SubSeq(Contents, 1, Least(n, len))]
    BY <1>1, <2>1, ReadGetsPrefix
  <2>4. Abstract!Take(n)
    BY <2>2, <2>3, ContentsSequence DEF Abstract!Take, Abstract!Least, Least
  <2> QED
    BY <2>2, <2>4 DEF Abstract!Next
<1>2. ASSUME NEW n \in 0..MaxIO, NEW bytes \in [1..n -> Byte], Write(bytes)
      PROVE  IInv' /\ Abstract!Next
  <2>1. bytes \in Seq(Byte)
    BY Constants, FunctionIsSequence
  <2>2. IInv' /\ Contents' = Contents \o SubSeq(bytes, 1, Least(Len(bytes), Limit - len))
    BY <1>2, <2>1, WriteStep
  <2>3. reply' = [call |-> "write",
                  bytes |-> SubSeq(bytes, 1, Least(Len(bytes), Limit - len))]
    BY <1>2 DEF Write
  <2>4. Abstract!Put(bytes)
    BY <2>2, <2>3, ContentsSequence DEF Abstract!Put, Abstract!Least, Least
  <2> QED
    BY <2>2, <2>4 DEF Abstract!Next
<1>3. CASE UNCHANGED vars
  <2>1. IInv'
    BY <1>3 DEF IInv, TypeOK, Consistent, vars
  <2>2. Contents' = Contents /\ reply' = reply
    BY <1>3 DEF vars, Contents, Cell
  <2> QED
    BY <2>1, <2>2 DEF Abstract!vars
<1> QED
  BY <1>1, <1>2, <1>3 DEF Next

\* The invariant of the proofs: whatever the limit and the calls, the fields
\* of the buffer that pipe.rs:35-74 updates one by one fit together.
THEOREM Inductive == Spec => []IInv
<1>1. IInv /\ [Next]_vars => IInv'
  BY StepImplements
<1> QED
  BY InitEstablishes, <1>1, PTL DEF Spec

\* Every field stays in its range: in particular head and end never pass the
\* limit and the length never does, for any limit.
THEOREM Typing == Spec => []TypeOK
<1>1. IInv => TypeOK
  BY DEF IInv
<1> QED
  BY Inductive, <1>1, PTL

\* head, end, len and the extent of the memory file agree, for any limit: no
\* read copies a byte that was never written.
THEOREM CountersAgree == Spec => []Consistent
<1>1. IInv => Consistent
  BY DEF IInv
<1> QED
  BY Inductive, <1>1, PTL

\* The ring buffer of a pipe implements a bounded first-in first-out queue, for
\* any limit, any bytes and any length of the callers' buffers.
THEOREM Implements == Spec => IsFifo
<1>1. Init => Abstract!Init
  BY InitEstablishes DEF Init, Abstract!Init
<1>2. IInv /\ [Next]_vars => [Abstract!Next]_(Abstract!vars)
  BY StepImplements
<1> QED
  BY Inductive, <1>1, <1>2, PTL DEF Spec, IsFifo, Abstract!Spec
=============================================================================
