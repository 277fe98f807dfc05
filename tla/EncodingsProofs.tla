--------------------------- MODULE EncodingsProofs ---------------------------
(***************************************************************************)
(* Module Encodings for any words, widths, capacities and addresses: the   *)
(* buffers are never written past their end, what is decoded is never read *)
(* past its end, and it is what was encoded.                               *)
(***************************************************************************)
EXTENDS Encodings, InductionProofs, SequenceTheorems

(* What the elements are does not matter here, only how many there are. *)
IsSeq(s) == \E S : s \in Seq(S)

LEMMA EmptyIsSeq == IsSeq(<<>>) /\ Len(<<>>) = 0
<1>1. <<>> \in Seq({}) /\ Len(<<>>) = 0
  BY EmptySeq
<1>2. QED
  BY <1>1 DEF IsSeq

LEMMA PairIsSeq ==
  ASSUME NEW a, NEW b
  PROVE  IsSeq(<<a, b>>) /\ Len(<<a, b>>) = 2
<1>1. <<a, b>> \in Seq({a, b})
  OBVIOUS
<1>2. QED
  BY <1>1 DEF IsSeq

LEMMA AppendIsSeq ==
  ASSUME NEW s, NEW x, IsSeq(s)
  PROVE  /\ IsSeq(Append(s, x))
         /\ Len(s) \in Nat
         /\ Len(Append(s, x)) = Len(s) + 1
<1>1. PICK S : s \in Seq(S)
  BY DEF IsSeq
<1>2. s \in Seq(S \cup {x}) /\ x \in S \cup {x}
  BY <1>1, SeqDef
<1>3. Append(s, x) \in Seq(S \cup {x}) /\ Len(Append(s, x)) = Len(s) + 1 /\ Len(s) \in Nat
  BY <1>2
<1>4. QED
  BY <1>3 DEF IsSeq

LEMMA ConcatIsSeq ==
  ASSUME NEW s, NEW t, IsSeq(s), IsSeq(t)
  PROVE  /\ IsSeq(s \o t)
         /\ Len(s) \in Nat /\ Len(t) \in Nat
         /\ Len(s \o t) = Len(s) + Len(t)
<1>1. PICK S : s \in Seq(S)
  BY DEF IsSeq
<1>2. PICK T : t \in Seq(T)
  BY DEF IsSeq
<1>3. s \in Seq(S \cup T) /\ t \in Seq(S \cup T)
  BY <1>1, <1>2, SeqDef
<1>4. s \o t \in Seq(S \cup T) /\ Len(s \o t) = Len(s) + Len(t) /\ Len(s) \in Nat /\ Len(t) \in Nat
  BY <1>3
<1>5. QED
  BY <1>4 DEF IsSeq

LEMMA FunctionIsSeq ==
  ASSUME NEW n \in Nat, NEW S, NEW f \in [1..n -> S]
  PROVE  IsSeq(f) /\ Len(f) = n
<1>1. f \in Seq(S)
  BY SeqDef
<1>2. Len(f) \in Nat /\ DOMAIN f = 1..Len(f) /\ DOMAIN f = 1..n
  BY <1>1, LenProperties
<1>3. Len(f) = n
  BY <1>2
<1>4. QED
  BY <1>1, <1>3 DEF IsSeq

-----------------------------------------------------------------------------
(* The inductive invariant: a tag has two bytes, and a capacity of at      *)
(* least two makes one doubling enough for it.                             *)
RoomInv ==
  /\ code \in Codes /\ done \in Nat
  /\ IsSeq(header) /\ Len(header) \in {0, 2}
  /\ IsSeq(tail) /\ IsSeq(data) /\ IsSeq(cells)
  /\ capacity \in Nat /\ capacity >= 2 /\ Len(data) <= capacity
  /\ room \in Nat /\ room >= 1 /\ Len(cells) <= room

(* An encoder leaves a tag of two bytes and a tail to append, and touches  *)
(* neither the buffer nor the loader's cells.                              *)
LEMMA EncodeRoom ==
  ASSUME RoomInv, NEW a, NEW b, NEW t, IsSeq(t), Encode(<<a, b>>, t)
  PROVE  RoomInv'
<1>1. header' = <<a, b>> /\ tail' = t /\ done' = done + 1
  BY DEF Encode
<1>2. UNCHANGED <<code, data, capacity, cells, room>>
  BY DEF Encode, linker
<1>3. IsSeq(header)' /\ (Len(header) \in {0, 2})'
  BY <1>1, PairIsSeq DEF IsSeq
<1>4. IsSeq(tail)'
  BY <1>1 DEF IsSeq
<1>5. QED
  BY <1>1, <1>2, <1>3, <1>4 DEF RoomInv, IsSeq

LEMMA AppendCellRoom ==
  ASSUME RoomInv, NEW item, NEW cell, AppendCell(item, cell)
  PROVE  RoomInv'
<1>1. cells' = Append(cells, cell) /\ room' = IF Len(cells) >= room THEN 2 * room ELSE room
  BY DEF AppendCell
<1>2. UNCHANGED <<code, done, header, tail, data, capacity>>
  BY DEF AppendCell, encoder
<1>3. IsSeq(cells)' /\ Len(cells)' = Len(cells) + 1 /\ Len(cells) \in Nat
  BY <1>1, AppendIsSeq DEF RoomInv, IsSeq
<1>4. room' \in Nat /\ room' >= 1 /\ Len(cells)' <= room'
  BY <1>1, <1>3 DEF RoomInv
<1>5. QED
  BY <1>2, <1>3, <1>4 DEF RoomInv, IsSeq

LEMMA InitRoom == Init => RoomInv
BY EncodingsAssumption, EmptyIsSeq DEF Init, RoomInv

LEMMA RefEncodable ==
  ASSUME NEW item \in Encodable, item.tag = "ref"
  PROVE  item.kind \in Kinds /\ item.n \in DOMAIN Digest
<1>1. ~(\E p \in DOMAIN PrimId : item = Prim(p))
  BY DEF Prim
<1>2. ~(\E n \in Numbers : item = InlineLit(n))
  BY DEF InlineLit
<1>3. PICK kind \in Kinds, c \in DOMAIN Digest : item = Ref(kind, c)
  BY <1>1, <1>2 DEF Encodable
<1>4. QED
  BY <1>3 DEF Ref

LEMMA NextRoom == RoomInv /\ [Next]_vars => RoomInv'
<1> SUFFICES ASSUME RoomInv, [Next]_vars PROVE RoomInv'
  OBVIOUS
<1>1. CASE EncodePrimitive
  BY <1>1, EncodeRoom, EmptyIsSeq DEF EncodePrimitive, TagBytes
<1>2. CASE EncodeCidRef
  <2>1. done + 1 \in 1..Len(code) /\ code[done + 1].tag = "ref"
    <3>1. code \in Seq(Items) /\ done < Len(code) /\ code[done + 1].tag = "ref"
      BY <1>2, EncodingsAssumption DEF EncodeCidRef, EncodingItem, RoomInv
    <3>2. QED
      BY <3>1 DEF RoomInv
  <2>2. code[done + 1] \in Encodable
    BY <2>1, EncodingsAssumption DEF RoomInv
  <2>3. code[done + 1].n \in DOMAIN Digest
    BY <2>1, <2>2, RefEncodable
  <2>4. Digest[code[done + 1].n] \in [1..CidSize -> Bytes]
    BY <2>3, EncodingsAssumption
  <2>5. IsSeq(Digest[code[done + 1].n])
    BY <2>4, FunctionIsSeq, EncodingsAssumption
  <2>6. QED
    BY <1>2, <2>5, EncodeRoom DEF EncodeCidRef, TagBytes
<1>3. CASE EncodeInlineLiteral
  <2>1. ASSUME NEW n PROVE IsSeq(LitBytes(n))
    <3> DEFINE S == {(n \div Power[i - 1]) % Byte : i \in 1..LitSize}
    <3>1. LitBytes(n) \in [1..LitSize -> S]
      BY DEF LitBytes
    <3>2. QED
      BY <3>1, FunctionIsSeq, EncodingsAssumption
  <2>2. QED
    BY <1>3, <2>1, EncodeRoom DEF EncodeInlineLiteral, TagBytes
<1>4. CASE AppendU16
  <2>1. /\ capacity' = IF Len(data) + 2 > capacity THEN 2 * capacity ELSE capacity
        /\ data' = data \o header /\ header' = <<>>
        /\ UNCHANGED <<code, done, tail, cells, room>>
    BY <1>4 DEF AppendU16, linker
  <2>2. IsSeq(data)' /\ Len(data)' = Len(data) + Len(header) /\ Len(data) \in Nat
    BY <2>1, ConcatIsSeq DEF RoomInv, IsSeq
  <2>3. capacity' \in Nat /\ capacity' >= 2 /\ Len(data)' <= capacity'
    <3>1. capacity \in Nat /\ capacity >= 2 /\ Len(data) <= capacity
      BY DEF RoomInv
    <3>2. Len(header) = 0 \/ Len(header) = 2
      BY DEF RoomInv
    <3>3. Len(data)' = Len(data) \/ Len(data)' = Len(data) + 2
      <4>1. CASE Len(header) = 0
        BY <2>2, <4>1
      <4>2. CASE Len(header) = 2
        BY <2>2, <4>2
      <4>3. QED
        BY <3>2, <4>1, <4>2
    <3>4. QED
      BY <2>1, <2>2, <3>1, <3>3
  <2>4. IsSeq(header)' /\ Len(header)' \in {0, 2}
    BY <2>1, EmptyIsSeq DEF IsSeq
  <2>5. QED
    BY <2>1, <2>2, <2>3, <2>4 DEF RoomInv, IsSeq
<1>5. CASE Grow
  <2>1. capacity' = 2 * capacity /\ UNCHANGED <<code, done, header, tail, data, cells, room>>
    BY <1>5 DEF Grow, linker
  <2>2. Len(data) \in Nat
    BY AppendIsSeq DEF RoomInv
  <2>3. capacity' \in Nat /\ capacity' >= 2 /\ Len(data)' <= capacity'
    BY <2>1, <2>2 DEF RoomInv
  <2>4. QED
    BY <2>1, <2>3 DEF RoomInv, IsSeq
<1>6. CASE AppendBytes
  <2>1. /\ Len(data) + Len(tail) <= capacity
        /\ data' = data \o tail /\ tail' = <<>>
        /\ UNCHANGED <<code, done, header, capacity, cells, room>>
    BY <1>6 DEF AppendBytes, linker
  <2>2. IsSeq(data)' /\ Len(data)' = Len(data) + Len(tail)
    BY <2>1, ConcatIsSeq DEF RoomInv, IsSeq
  <2>3. IsSeq(tail)'
    BY <2>1, EmptyIsSeq DEF IsSeq
  <2>4. QED
    BY <2>1, <2>2, <2>3 DEF RoomInv, IsSeq
<1>7. CASE Store
  <2>1. cells' = <<>> /\ room' = CellCapacity /\ UNCHANGED <<code, done, header, tail, data, capacity>>
    BY <1>7 DEF Store
  <2>2. IsSeq(cells)' /\ Len(cells)' = 0
    BY <2>1, EmptyIsSeq DEF IsSeq
  <2>3. room' \in Nat /\ room' >= 1
    BY <2>1, EncodingsAssumption
  <2>4. QED
    BY <2>1, <2>2, <2>3 DEF RoomInv, IsSeq
<1>8. CASE Clear
  <2>1. /\ code' \in Codes /\ done' = 0 /\ data' = <<>>
        /\ UNCHANGED <<header, tail, capacity, cells, room>>
    BY <1>8 DEF Clear, linker
  <2>2. IsSeq(data)' /\ Len(data)' = 0
    BY <2>1, EmptyIsSeq DEF IsSeq
  <2>3. QED
    BY <2>1, <2>2 DEF RoomInv, IsSeq
<1>9. CASE DecodeLiteral
  BY <1>9, AppendCellRoom DEF DecodeLiteral
<1>10. CASE DecodePrimitive
  BY <1>10, AppendCellRoom DEF DecodePrimitive
<1>11. CASE DecodeRef
  BY <1>11, AppendCellRoom DEF DecodeRef
<1>12. CASE AppendExit
  <2>1. /\ cells' = Append(cells, EncodeExit)
        /\ room' = IF Len(cells) >= room THEN room + 1 ELSE room
        /\ UNCHANGED <<code, done, header, tail, data, capacity>>
    BY <1>12 DEF AppendExit, encoder
  <2>2. IsSeq(cells)' /\ Len(cells)' = Len(cells) + 1 /\ Len(cells) \in Nat
    BY <2>1, AppendIsSeq DEF RoomInv, IsSeq
  <2>3. room' \in Nat /\ room' >= 1 /\ Len(cells)' <= room'
    BY <2>1, <2>2 DEF RoomInv
  <2>4. QED
    BY <2>1, <2>2, <2>3 DEF RoomInv, IsSeq
<1>13. CASE UNCHANGED vars
  BY <1>13 DEF vars, encoder, linker, RoomInv, IsSeq
<1>14. QED
  BY <1>1, <1>2, <1>3, <1>4, <1>5, <1>6, <1>7, <1>8, <1>9, <1>10, <1>11, <1>12, <1>13 DEF Next

(* No append, whether of a tag, of a CID or literal, of a cell or of the   *)
(* EXIT, writes past the end of its buffer (cells.c, loader.c).            *)
THEOREM BuffersFit == Spec => []Fits
<1>1. RoomInv => Fits
  BY DEF RoomInv, Fits
<1>2. QED
  BY InitRoom, NextRoom, <1>1, PTL DEF Spec

-----------------------------------------------------------------------------
(* Numbers and their digits. *)

LEMMA PowerDef ==
  /\ Power \in [Nat -> Nat]
  /\ Power[0] = 1
  /\ \A k \in Nat : Power[k + 1] = Byte * Power[k]
<1> DEFINE G == [q \in Nat \X Nat |-> Byte * q[2]]
<1>0. Byte \in Nat
  BY EncodingsAssumption
<1>1. \A n, s \in Nat : G[<<n, s>>] = Byte * s /\ G[<<n, s>>] \in Nat
  BY <1>0
<1> HIDE DEF G
<1>2. PICK f \in [Nat -> Nat] : \A n \in Nat : f[n] = IF n = 0 THEN 1 ELSE G[<<n, f[n - 1]>>]
  <2>1. Closed(Nat, 1, G)
    BY <1>1 DEF Closed
  <2>2. PICK f : Follows(f, Nat, 1, G)
    BY <2>1, Recursion
  <2>3. QED
    BY <2>2 DEF Follows
<1>3. f = [k \in Nat |-> IF k = 0 THEN 1 ELSE Byte * f[k - 1]]
  <2>1. ASSUME NEW k \in Nat PROVE f[k] = IF k = 0 THEN 1 ELSE Byte * f[k - 1]
    <3>1. CASE k # 0
      <4>1. k - 1 \in Nat /\ f[k - 1] \in Nat
        BY <1>2, <3>1
      <4>2. G[<<k, f[k - 1]>>] = Byte * f[k - 1]
        BY <1>1, <4>1
      <4>3. f[k] = G[<<k, f[k - 1]>>]
        BY <1>2, <3>1
      <4>4. QED
        BY <3>1, <4>2, <4>3
    <3>2. QED
      BY <1>2, <3>1
  <2>2. QED
    BY <1>2, <2>1
<1>4. Power = [k \in Nat |-> IF k = 0 THEN 1 ELSE Byte * Power[k - 1]]
  BY <1>3 DEF Power
<1>5. \A k \in Nat : Power[k] = f[k]
  <2> DEFINE S == {k \in Nat : Power[k] = f[k]}
  <2>1. SUFFICES ASSUME NEW k \in Nat, k = 0 \/ k - 1 \in S PROVE k \in S
    <3> HIDE DEF S
    <3>1. \A k \in Nat : k \in S
      BY Induction
    <3>2. QED
      BY <3>1 DEF S
  <2>2. Power[k] = IF k = 0 THEN 1 ELSE Byte * Power[k - 1]
    BY <1>4
  <2>3. f[k] = IF k = 0 THEN 1 ELSE Byte * f[k - 1]
    BY <1>3
  <2>4. QED
    BY <2>1, <2>2, <2>3
<1>6. Power \in [Nat -> Nat]
  BY <1>2, <1>4, <1>5
<1>7. Power[0] = 1
  BY <1>4
<1>8. ASSUME NEW k \in Nat PROVE Power[k + 1] = Byte * Power[k]
  <2>1. k + 1 \in Nat /\ k + 1 # 0 /\ (k + 1) - 1 = k
    OBVIOUS
  <2>2. QED
    BY <1>4, <2>1
<1>9. QED
  BY <1>6, <1>7, <1>8

LEMMA PowerPositive == \A k \in Nat : Power[k] \in Nat \ {0}
<1> DEFINE S == {k \in Nat : Power[k] \in Nat \ {0}}
<1>1. SUFFICES ASSUME NEW k \in Nat, k = 0 \/ k - 1 \in S PROVE k \in S
  <2> HIDE DEF S
  <2>1. \A k \in Nat : k \in S
    BY Induction
  <2>2. QED
    BY <2>1 DEF S
<1>2. CASE k = 0
  BY <1>2, PowerDef
<1>3. CASE k # 0
  <2>1. k - 1 \in Nat /\ (k - 1) + 1 = k /\ Power[k - 1] \in Nat \ {0}
    BY <1>1, <1>3
  <2>2. Power[k] = Byte * Power[k - 1]
    BY <2>1, PowerDef
  <2>3. Byte \in Nat \ {0}
    BY EncodingsAssumption
  <2>4. QED
    BY <2>1, <2>2, <2>3
<1>4. QED
  BY <1>2, <1>3

(* Quotient and remainder are unique. *)
LEMMA DivMod ==
  ASSUME NEW w \in Nat \ {0}, NEW n \in Int, NEW q \in Int, NEW r \in 0..w - 1, n = w * q + r
  PROVE  n % w = r /\ n \div w = q
<1> DEFINE q2 == n \div w
           r2 == n % w
<1>1. q2 \in Int /\ r2 \in 0..w - 1 /\ n = w * q2 + r2
  OBVIOUS
<1> HIDE DEF q2, r2
<1>2. PICK d \in Int : d = q - q2
  BY <1>1
<1>3. w * d = r2 - r
  <2>1. w * d = w * q - w * q2
    BY <1>1, <1>2
  <2>2. QED
    BY <1>1, <2>1
<1>4. ~(d >= 1)
  <2>1. SUFFICES ASSUME d >= 1 PROVE FALSE
    OBVIOUS
  <2>2. w * d >= w
    BY <2>1
  <2>3. QED
    BY <1>1, <1>3, <2>2
<1>5. ~(d <= -1)
  <2>1. SUFFICES ASSUME d <= -1 PROVE FALSE
    OBVIOUS
  <2>2. w * d <= -w
    BY <2>1
  <2>3. QED
    BY <1>1, <1>3, <2>2
<1>6. d = 0
  BY <1>4, <1>5
<1>7. q = q2 /\ r = r2
  BY <1>1, <1>2, <1>3, <1>6
<1>8. QED
  BY <1>7 DEF q2, r2

(* Taking n apart at w times b is taking it apart at w, then the rest at b. *)
LEMMA ModStep ==
  ASSUME NEW n \in Int, NEW w \in Nat \ {0}, NEW b \in Nat \ {0}
  PROVE  n % (b * w) = (n % w) + ((n \div w) % b) * w
<1> DEFINE q == n \div w
           r == n % w
           q2 == q \div b
           r2 == q % b
<1>1. q \in Int /\ r \in 0..w - 1 /\ n = w * q + r
  OBVIOUS
<1> HIDE DEF q, r
<1>2. q2 \in Int /\ r2 \in 0..b - 1 /\ q = b * q2 + r2
  BY <1>1
<1> HIDE DEF q2, r2
<1>3. PICK m \in Nat \ {0} : m = b * w
  OBVIOUS
<1>4. PICK x \in Int : x = r + r2 * w
  BY <1>1, <1>2
<1>5. n = m * q2 + x
  <2>1. w * q = w * (b * q2) + w * r2
    BY <1>1, <1>2
  <2>2. w * (b * q2) = m * q2
    BY <1>2, <1>3
  <2>3. w * r2 = r2 * w
    BY <1>2
  <2>4. QED
    BY <1>1, <1>2, <1>3, <1>4, <2>1, <2>2, <2>3
<1>6. x \in 0..m - 1
  <2>1. r2 * w >= 0
    BY <1>2
  <2>2. r2 * w <= m - w
    <3>1. (b - 1 - r2) * w >= 0
      BY <1>2
    <3>2. (b - 1 - r2) * w = m - w - r2 * w
      BY <1>2, <1>3
    <3>3. QED
      BY <1>2, <1>3, <3>1, <3>2
  <2>3. PICK y \in Int : y = r2 * w
    BY <1>2
  <2>4. QED
    BY <1>1, <1>3, <1>4, <2>1, <2>2, <2>3
<1>7. n % m = x
  BY <1>5, <1>6, <1>2, DivMod
<1>8. QED
  BY <1>3, <1>4, <1>7 DEF q, r, r2

LEMMA CellWordsDef == \E h \in Nat \ {0} : CellWords = 8 * h
<1>1. CellWords \in Nat \ {0} /\ CellWords % 8 = 0
  BY PowerPositive, EncodingsAssumption DEF CellWords
<1>2. QED
  BY <1>1

LEMMA LowDef ==
  ASSUME NEW b, \A i \in 1..LitSize : b[i] \in Int
  PROVE  /\ \A k \in 0..LitSize : LowBytes(b)[k] \in Int
         /\ LowBytes(b)[0] = 0
         /\ \A k \in 1..LitSize : LowBytes(b)[k] = LowBytes(b)[k - 1] + b[k] * Power[k - 1]
<1> DEFINE digit(k) == IF k \in 1..LitSize THEN b[k] * Power[k - 1] ELSE 0
           G == [q \in Nat \X Int |-> q[2] + digit(q[1])]
<1>1. LitSize \in Nat
  BY EncodingsAssumption
<1>2. \A k \in Nat : digit(k) \in Int
  <2>1. \A k \in 1..LitSize : k - 1 \in Nat
    BY <1>1
  <2>2. \A k \in 1..LitSize : b[k] * Power[k - 1] \in Int
    <3> TAKE k \in 1..LitSize
    <3>1. b[k] \in Int /\ Power[k - 1] \in Nat
      BY <2>1, PowerDef
    <3>2. QED
      BY <3>1
  <2>3. QED
    BY <2>2
<1>3. \A k \in 1..LitSize : digit(k) = b[k] * Power[k - 1]
  OBVIOUS
<1> HIDE DEF digit
<1>4. \A n \in Nat : \A s \in Int : G[<<n, s>>] = s + digit(n) /\ G[<<n, s>>] \in Int
  BY <1>2
<1> HIDE DEF G
<1>5. PICK f : Follows(f, Int, 0, G)
  <2>1. Closed(Int, 0, G)
    BY <1>4 DEF Closed
  <2>2. QED
    BY <2>1, Recursion
<1>6. f \in [Nat -> Int] /\ f[0] = 0
  BY <1>5 DEF Follows
<1>7. \A k \in 1..LitSize : f[k] = f[k - 1] + b[k] * Power[k - 1]
  <2> TAKE k \in 1..LitSize
  <2>1. k \in Nat /\ k # 0 /\ k - 1 \in Nat
    BY <1>1
  <2>2. f[k] = G[<<k, f[k - 1]>>] /\ f[k - 1] \in Int
    BY <1>5, <2>1 DEF Follows
  <2>3. QED
    BY <1>3, <1>4, <2>1, <2>2
<1> DEFINE low == LowBytes(b)
           g == [k \in 0..LitSize |-> f[k]]
<1>8. g = [k \in 0..LitSize |-> IF k = 0 THEN 0 ELSE g[k - 1] + b[k] * Power[k - 1]]
  <2>1. ASSUME NEW k \in 0..LitSize
        PROVE  g[k] = IF k = 0 THEN 0 ELSE g[k - 1] + b[k] * Power[k - 1]
    <3>1. CASE k # 0
      <4>1. k \in 1..LitSize /\ k - 1 \in 0..LitSize
        BY <1>1, <3>1
      <4>2. g[k] = f[k] /\ g[k - 1] = f[k - 1]
        BY <4>1
      <4>3. QED
        BY <1>7, <3>1, <4>1, <4>2
    <3>2. QED
      BY <1>6, <3>1
  <2>2. QED
    BY <2>1
<1> HIDE DEF g
<1>9. low = [k \in 0..LitSize |-> IF k = 0 THEN 0 ELSE low[k - 1] + b[k] * Power[k - 1]]
  BY <1>8 DEF LowBytes
<1> HIDE DEF low
<1>10. low[0] = 0
  BY <1>1, <1>9
<1>11. \A k \in 1..LitSize : low[k] = low[k - 1] + b[k] * Power[k - 1]
  <2> TAKE k \in 1..LitSize
  <2>1. k \in 0..LitSize /\ k # 0
    BY <1>1
  <2>2. QED
    BY <1>9, <2>1
<1>12. \A k \in 0..LitSize : low[k] \in Int
  <2> DEFINE S == {k \in Nat : k <= LitSize => low[k] \in Int}
  <2>1. SUFFICES ASSUME NEW k \in Nat, k = 0 \/ k - 1 \in S PROVE k \in S
    <3> HIDE DEF S
    <3>1. \A k \in Nat : k \in S
      BY Induction
    <3>2. QED
      BY <1>1, <3>1 DEF S
  <2>2. CASE k = 0
    BY <1>10, <2>2
  <2>3. CASE k # 0 /\ k <= LitSize
    <3>1. k \in 1..LitSize /\ low[k - 1] \in Int /\ k - 1 \in Nat
      BY <1>1, <2>1, <2>3
    <3>2. b[k] \in Int /\ Power[k - 1] \in Nat
      BY <3>1, PowerDef
    <3>3. QED
      BY <1>11, <3>1, <3>2
  <2>4. QED
    BY <2>2, <2>3
<1>13. QED
  BY <1>10, <1>11, <1>12 DEF low

(* The bytes of a number, weighed and added up. *)
LEMMA DigitsAddUp ==
  ASSUME NEW n \in Int
  PROVE  \A k \in 0..LitSize : LowBytes(LitBytes(n))[k] = n % Power[k]
<1> DEFINE b == LitBytes(n)
           low == LowBytes(b)
<1>1. LitSize \in Nat /\ Byte \in Nat \ {0}
  BY EncodingsAssumption
<1>2. \A i \in 1..LitSize : b[i] = (n \div Power[i - 1]) % Byte
  BY DEF LitBytes
<1>3. \A i \in 1..LitSize : i - 1 \in Nat /\ Power[i - 1] \in Nat \ {0}
  BY <1>1, PowerPositive
<1>4. \A i \in 1..LitSize : b[i] \in Int
  <2> TAKE i \in 1..LitSize
  <2>1. Power[i - 1] \in Nat \ {0}
    BY <1>3
  <2>2. QED
    BY <1>1, <1>2, <2>1
<1> HIDE DEF b
<1>5. /\ low[0] = 0
      /\ \A k \in 1..LitSize : low[k] = low[k - 1] + b[k] * Power[k - 1]
  BY <1>4, LowDef
<1> HIDE DEF low
<1> DEFINE S == {k \in Nat : k <= LitSize => low[k] = n % Power[k]}
<1>6. SUFFICES ASSUME NEW k \in Nat, k = 0 \/ k - 1 \in S PROVE k \in S
  <2> HIDE DEF S
  <2>1. \A k \in Nat : k \in S
    BY Induction
  <2>2. QED
    BY <1>1, <2>1 DEF S, low, b
<1>7. CASE k = 0
  <2>1. n % 1 = 0
    OBVIOUS
  <2>2. QED
    BY <1>5, <1>7, <2>1, PowerDef
<1>8. CASE k # 0 /\ k <= LitSize
  <2>1. k \in 1..LitSize /\ k - 1 \in Nat /\ (k - 1) + 1 = k /\ low[k - 1] = n % Power[k - 1]
    BY <1>1, <1>6, <1>8
  <2>2. Power[k] = Byte * Power[k - 1] /\ Power[k - 1] \in Nat \ {0}
    BY <2>1, PowerDef, PowerPositive
  <2>3. n % (Byte * Power[k - 1]) = (n % Power[k - 1]) + ((n \div Power[k - 1]) % Byte) * Power[k - 1]
    BY <1>1, <2>2, ModStep
  <2>4. QED
    BY <1>2, <1>5, <2>1, <2>2, <2>3
<1>9. QED
  BY <1>7, <1>8

(* What is read of the bytes of a number is the number. *)
LEMMA NumberBack ==
  ASSUME NEW n \in Numbers
  PROVE  Wrap(LowBytes(LitBytes(n))[LitSize]) = n
<1>1. PICK h \in Nat \ {0} : CellWords = 8 * h
  BY CellWordsDef
<1>2. n \in Int /\ -(4 * h) <= n /\ n <= 4 * h - 1
  BY <1>1 DEF Numbers
<1>3. LowBytes(LitBytes(n))[LitSize] = n % (8 * h)
  BY <1>1, <1>2, DigitsAddUp, EncodingsAssumption DEF CellWords
<1>4. PICK r \in 0..8 * h - 1 : r = n % (8 * h) /\ r = IF n < 0 THEN n + 8 * h ELSE n
  <2>1. CASE n < 0
    <3>1. n = (8 * h) * (-1) + (n + 8 * h) /\ n + 8 * h \in 0..8 * h - 1
      BY <1>2, <2>1
    <3>2. n % (8 * h) = n + 8 * h
      BY <1>2, <3>1, DivMod
    <3>3. QED
      BY <2>1, <3>1, <3>2
  <2>2. CASE n >= 0
    <3>1. n = (8 * h) * 0 + n /\ n \in 0..8 * h - 1
      BY <1>2, <2>2
    <3>2. n % (8 * h) = n
      BY <1>2, <3>1, DivMod
    <3>3. QED
      BY <2>2, <3>1, <3>2
  <2>3. QED
    BY <1>2, <2>1, <2>2
<1>5. (r + 4 * h) % (8 * h) = n + 4 * h
  <2>1. PICK m \in Int : m = r + 4 * h
    BY <1>4
  <2>2. PICK q \in Int : m = (8 * h) * q + (n + 4 * h)
    <3>1. m = (8 * h) * 1 + (n + 4 * h) \/ m = (8 * h) * 0 + (n + 4 * h)
      BY <1>2, <1>4, <2>1
    <3>2. QED
      BY <3>1
  <2>3. n + 4 * h \in 0..8 * h - 1
    BY <1>2
  <2>4. PICK w \in Nat \ {0}, t \in Int : w = 8 * h /\ t = n + 4 * h
    BY <1>2
  <2>5. m = w * q + t /\ t \in 0..w - 1
    BY <2>2, <2>3, <2>4
  <2>6. m % w = t
    BY <2>5, DivMod
  <2>7. QED
    BY <2>1, <2>4, <2>6
<1>6. (8 * h) \div 2 = 4 * h
  OBVIOUS
<1>7. QED
  BY <1>1, <1>2, <1>3, <1>4, <1>5, <1>6 DEF Wrap

-----------------------------------------------------------------------------
(* What the machine makes of a cell. *)

Narrowed(n) == ((n + CellWords \div 8) % (CellWords \div 4)) - CellWords \div 8

LEMMA XtCell ==
  ASSUME NEW addr \in 1..CellWords - 1, addr % 4 = 0
  PROVE  EncodeXt(addr) = addr /\ Dispatch(EncodeXt(addr)) = [op |-> "xt", n |-> addr]
<1>1. addr \in Nat /\ addr # 0
  BY CellWordsDef
<1>2. EncodeXt(addr) = addr
  BY <1>1 DEF EncodeXt
<1>3. QED
  BY <1>1, <1>2 DEF Dispatch

(* A number comes out of its cell without the two bits the tag takes. *)
LEMMA LitCell ==
  ASSUME NEW n \in Int
  PROVE  /\ EncodeLit(n) \in 0..CellWords - 1
         /\ Dispatch(EncodeLit(n)) = [op |-> "lit", n |-> Narrowed(n)]
<1>1. PICK h \in Nat \ {0} : CellWords = 8 * h
  BY CellWordsDef
<1>2. PICK w \in Nat \ {0}, m \in Nat \ {0} : w = 8 * h /\ m = 2 * h
  OBVIOUS
<1>3. CellWords \div 8 = h /\ CellWords \div 4 = m /\ CellWords \div 2 = 4 * h
  BY <1>1, <1>2
<1>4. PICK q \in Int, s \in 0..m - 1 : n + h = m * q + s
  <2>1. n + h \in Int
    OBVIOUS
  <2>2. n + h = m * ((n + h) \div m) + ((n + h) % m)
    BY <1>2, <2>1
  <2>3. (n + h) \div m \in Int /\ (n + h) % m \in 0..m - 1
    BY <1>2, <2>1
  <2>4. QED
    BY <2>2, <2>3
<1>5. (n + h) % m = s
  <2>1. PICK u \in Int : u = n + h
    OBVIOUS
  <2>2. u % m = s
    BY <1>4, <2>1, DivMod
  <2>3. QED
    BY <2>1, <2>2
<1>6. PICK r \in Int : r = s - h
  BY <1>2, <1>4
<1>7. Narrowed(n) = r /\ -h <= r /\ r < h
  BY <1>2, <1>3, <1>4, <1>5, <1>6 DEF Narrowed
<1>8. 4 * n + 1 = w * q + (4 * r + 1)
  <2>1. PICK x \in Int : x = m * q
    BY <1>2, <1>4
  <2>2. w * q = 4 * x
    BY <1>2, <1>4, <2>1
  <2>3. QED
    BY <1>4, <1>6, <2>1, <2>2
<1>9. PICK c \in 0..w - 1 : c = EncodeLit(n) /\ (c = 4 * r + 1 \/ c = 4 * r + 1 + w)
  <2>1. CASE r >= 0
    <3>1. PICK u \in Int, y \in 0..w - 1 : u = 4 * n + 1 /\ y = 4 * r + 1
      BY <1>2, <1>7, <2>1
    <3>2. u % w = y
      <4>1. u = w * q + y
        BY <1>8, <3>1
      <4>2. QED
        BY <4>1, DivMod
    <3>3. QED
      BY <1>1, <1>2, <3>1, <3>2 DEF EncodeLit
  <2>2. CASE r < 0
    <3>1. PICK y \in 0..w - 1 : y = 4 * r + 1 + w
      BY <1>2, <1>7, <2>2
    <3>2. PICK x \in Int : x = q - 1
      BY <1>4
    <3>3. w * q = w * x + w
      BY <1>2, <1>4, <3>2
    <3>4. 4 * n + 1 = w * x + y
      <4>1. PICK u \in Int, v \in Int : u = w * q /\ v = w * x
        BY <1>2, <1>4, <3>2
      <4>2. QED
        BY <1>2, <1>6, <1>8, <3>1, <3>3, <4>1
    <3>5. (4 * n + 1) % w = y
      <4>1. PICK u \in Int : u = 4 * n + 1
        OBVIOUS
      <4>2. u % w = y
        BY <3>4, <4>1, DivMod
      <4>3. QED
        BY <4>1, <4>2
    <3>6. QED
      BY <1>1, <1>2, <3>1, <3>5 DEF EncodeLit
  <2>3. QED
    BY <2>1, <2>2, <1>6
<1>10. c % 4 = 1 /\ c # 0
  BY <1>2, <1>6, <1>9
<1>11. (c + 4 * h) % w = 4 * r + 1 + 4 * h
  <2>1. PICK x \in Int, y \in 0..w - 1 : x = c + 4 * h /\ y = 4 * r + 1 + 4 * h
    BY <1>2, <1>7, <1>9
  <2>2. x = w * 0 + y \/ x = w * 1 + y
    BY <1>2, <1>9, <2>1
  <2>3. x % w = y
    <3>1. PICK z \in Int : x = w * z + y
      BY <2>2
    <3>2. QED
      BY <3>1, DivMod
  <2>4. QED
    BY <2>1, <2>3
<1>12. Wrap(c) = 4 * r + 1
  BY <1>1, <1>2, <1>3, <1>6, <1>11 DEF Wrap
<1>13. Wrap(c) \div 4 = r
  BY <1>6, <1>12
<1>14. c % 4 # 0
  BY <1>10
<1>15. Dispatch(c) = [op |-> "lit", n |-> r]
  BY <1>10, <1>13, <1>14 DEF Dispatch
<1>16. QED
  BY <1>1, <1>2, <1>7, <1>9, <1>15

LEMMA NarrowAddress ==
  ASSUME NEW n \in Nat, n < CellWords \div 8
  PROVE  Narrowed(n) = n
<1>1. PICK h \in Nat \ {0} : CellWords = 8 * h
  BY CellWordsDef
<1>2. CellWords \div 8 = h /\ CellWords \div 4 = 2 * h
  BY <1>1
<1>3. PICK m \in Nat \ {0}, x \in Nat : m = 2 * h /\ x = n + h /\ x \in 0..m - 1
  BY <1>2
<1>4. PICK z \in Int : x = m * z + x
  <2>1. x = m * 0 + x
    BY <1>3
  <2>2. QED
    BY <2>1
<1>5. x % m = x
  <2>1. PICK u \in Int : u = x
    OBVIOUS
  <2>2. u = m * z + x /\ x \in 0..m - 1
    BY <1>3, <1>4, <2>1
  <2>3. u % m = x
    BY <2>2, DivMod
  <2>4. QED
    BY <2>1, <2>3
<1>6. QED
  BY <1>2, <1>3, <1>5 DEF Narrowed

(* The cell the loader makes of an item. *)
CellOf(item) ==
  IF item.tag = "prim" THEN EncodeXt(PrimAddr[item.s])
  ELSE IF item.tag = "lit" THEN EncodeLit(item.n)
  ELSE UseOf(item.kind, item.n)

LEMMA CellMeans ==
  ASSUME NEW item \in Encodable
  PROVE  CellOf(item) \in 0..CellWords - 1 /\ Dispatch(CellOf(item)) = Meaning(item)
<1>1. CASE \E p \in DOMAIN PrimId : item = Prim(p)
  <2>1. PICK p \in DOMAIN PrimId : item = Prim(p)
    BY <1>1
  <2>2. PrimAddr[p] \in 1..CellWords - 1 /\ PrimAddr[p] % 4 = 0
    BY EncodingsAssumption
  <2>3. item.tag = "prim" /\ item.s = p
    BY <2>1 DEF Prim
  <2>4. CellOf(item) = PrimAddr[p] /\ Dispatch(CellOf(item)) = [op |-> "xt", n |-> PrimAddr[p]]
    BY <2>2, <2>3, XtCell DEF CellOf
  <2>5. Meaning(item) = [op |-> "xt", n |-> PrimAddr[p]]
    BY <2>3 DEF Meaning
  <2>6. PrimAddr[p] \in 0..CellWords - 1
    BY <2>2, CellWordsDef
  <2>7. QED
    BY <2>4, <2>5, <2>6
<1>2. CASE \E n \in Numbers : item = InlineLit(n)
  <2>1. PICK n \in Numbers : item = InlineLit(n)
    BY <1>2
  <2>2. n \in Int
    BY CellWordsDef DEF Numbers
  <2>3. item.tag = "lit" /\ item.n = n
    BY <2>1 DEF InlineLit
  <2>4. Meaning(item) = [op |-> "lit", n |-> Narrowed(n)]
    BY <2>3 DEF Meaning, Narrowed
  <2>5. CellOf(item) = EncodeLit(n)
    BY <2>3 DEF CellOf
  <2>6. QED
    BY <2>2, <2>4, <2>5, LitCell
<1>3. CASE \E kind \in Kinds, c \in DOMAIN Digest : item = Ref(kind, c)
  <2>1. PICK kind \in Kinds, c \in DOMAIN Digest : item = Ref(kind, c)
    BY <1>3
  <2>2. item.tag = "ref" /\ item.kind = kind /\ item.n = c
    BY <2>1 DEF Ref
  <2>3. /\ RowAddr[c] \in Nat \ {0} /\ RowAddr[c] % 4 = 0 /\ RowAddr[c] < CellWords \div 8
        /\ RowValue[c] \in Numbers
    BY EncodingsAssumption
  <2>4. CellOf(item) = UseOf(kind, c)
    BY <2>2 DEF CellOf
  <2>5. CASE kind = BLOB_WORD
    <3>1. RowAddr[c] \in 1..CellWords - 1
      <4>1. PICK h \in Nat \ {0} : CellWords = 8 * h
        BY CellWordsDef
      <4>2. QED
        BY <2>3, <4>1
    <3>2. UseOf(kind, c) = EncodeXt(RowAddr[c])
      BY <2>5 DEF UseOf, BLOB_WORD, BLOB_QUOTATION, BLOB_DATA
    <3>3. Meaning(item) = [op |-> "xt", n |-> RowAddr[c]]
      BY <2>2, <2>5 DEF Meaning, BLOB_WORD, BLOB_QUOTATION, BLOB_DATA
    <3>4. EncodeXt(RowAddr[c]) = RowAddr[c] /\ Dispatch(EncodeXt(RowAddr[c])) = [op |-> "xt", n |-> RowAddr[c]]
      BY <2>3, <3>1, XtCell
    <3>5. RowAddr[c] \in 0..CellWords - 1
      BY <3>1, CellWordsDef
    <3>6. QED
      BY <2>4, <3>2, <3>3, <3>4, <3>5
  <2>6. CASE kind = BLOB_QUOTATION
    <3>1. UseOf(kind, c) = EncodeLit(RowAddr[c])
      BY <2>6 DEF UseOf, BLOB_WORD, BLOB_QUOTATION, BLOB_DATA
    <3>2. Meaning(item) = [op |-> "lit", n |-> RowAddr[c]]
      BY <2>2, <2>6 DEF Meaning, BLOB_WORD, BLOB_QUOTATION, BLOB_DATA
    <3>3. Narrowed(RowAddr[c]) = RowAddr[c]
      BY <2>3, NarrowAddress
    <3>4. QED
      BY <2>3, <2>4, <3>1, <3>2, <3>3, LitCell
  <2>7. CASE kind = BLOB_DATA
    <3>1. UseOf(kind, c) = EncodeLit(RowValue[c])
      BY <2>7 DEF UseOf, BLOB_WORD, BLOB_QUOTATION, BLOB_DATA
    <3>2. Meaning(item) = [op |-> "lit", n |-> Narrowed(RowValue[c])]
      BY <2>2, <2>7 DEF Meaning, Narrowed, BLOB_WORD, BLOB_QUOTATION, BLOB_DATA
    <3>3. RowValue[c] \in Int
      BY <2>3, CellWordsDef DEF Numbers
    <3>4. QED
      BY <2>4, <3>1, <3>2, <3>3, LitCell
  <2>8. QED
    BY <2>5, <2>6, <2>7 DEF Kinds
<1>4. QED
  BY <1>1, <1>2, <1>3 DEF Encodable

-----------------------------------------------------------------------------
(* The bytes of an item. *)

TagOf(item) ==
  IF item.tag = "prim" THEN 2 * PrimId[item.s]
  ELSE IF item.tag = "ref" THEN 2 * item.kind + 1 ELSE 0
TailOf(item) ==
  IF item.tag = "prim" THEN <<>>
  ELSE IF item.tag = "ref" THEN Digest[item.n] ELSE LitBytes(item.n)
SizeOf(tag) == IF tag % 2 = 1 THEN CidSize ELSE IF tag \div 2 = 0 THEN LitSize ELSE 0

LEMMA TagInBytes ==
  ASSUME NEW tag \in Int
  PROVE  TagBytes(tag) \in Bytes \X Bytes
<1>1. Byte \in Nat \ {0}
  BY EncodingsAssumption
<1>2. tag % Byte \in Bytes
  BY <1>1 DEF Bytes
<1>3. tag \div Byte \in Int
  BY <1>1
<1>4. (tag \div Byte) % Byte \in Bytes
  BY <1>1, <1>3 DEF Bytes
<1>5. QED
  BY <1>2, <1>4 DEF TagBytes

LEMMA LitBytesTyped ==
  ASSUME NEW n \in Int
  PROVE  LitBytes(n) \in [1..LitSize -> Bytes]
<1>1. Byte \in Nat \ {0} /\ LitSize \in Nat
  BY EncodingsAssumption
<1>2. ASSUME NEW i \in 1..LitSize
      PROVE  (n \div Power[i - 1]) % Byte \in Bytes
  <2>1. i - 1 \in Nat /\ Power[i - 1] \in Nat \ {0}
    BY <1>1, PowerPositive
  <2>2. n \div Power[i - 1] \in Int
    BY <2>1
  <2>3. QED
    BY <1>1, <2>2 DEF Bytes
<1>3. QED
  BY <1>2 DEF LitBytes

LEMMA BytesSeq ==
  ASSUME NEW n \in Nat, NEW f \in [1..n -> Bytes]
  PROVE  f \in Seq(Bytes) /\ Len(f) = n
BY FunctionIsSeq, SeqDef

(* An item is as long as its tag says, and its tag fits in two bytes. *)
LEMMA ItemBytes ==
  ASSUME NEW item \in Encodable
  PROVE  /\ TagOf(item) \in Nat /\ TagOf(item) < Byte * Byte
         /\ TailOf(item) \in Seq(Bytes) /\ Len(TailOf(item)) = SizeOf(TagOf(item))
<1>a. Byte \in Nat /\ Byte >= 4 /\ CidSize \in Nat /\ LitSize \in Nat
  BY EncodingsAssumption
<1>b. Byte * Byte >= 16
  BY <1>a
<1>1. CASE \E p \in DOMAIN PrimId : item = Prim(p)
  <2>1. PICK p \in DOMAIN PrimId : item.tag = "prim" /\ item.s = p
    BY <1>1 DEF Prim
  <2>2. PICK id \in 1..((Byte * Byte) \div 2) - 1 : id = PrimId[p]
    BY EncodingsAssumption
  <2>3. TagOf(item) = 2 * id /\ TailOf(item) = <<>>
    BY <2>1, <2>2 DEF TagOf, TailOf
  <2>4. PICK n \in Nat : n = Byte * Byte
    BY <1>a
  <2>5. 2 * id \in Nat /\ 2 * id < n /\ (2 * id) % 2 = 0 /\ (2 * id) \div 2 = id /\ id # 0
    BY <2>2, <2>4
  <2>6. SizeOf(2 * id) = 0
    BY <2>5 DEF SizeOf
  <2>7. QED
    BY <2>3, <2>4, <2>5, <2>6
<1>2. CASE \E n \in Numbers : item = InlineLit(n)
  <2>1. PICK n \in Numbers : item.tag = "lit" /\ item.n = n
    BY <1>2 DEF InlineLit
  <2>2. TagOf(item) = 0 /\ TailOf(item) = LitBytes(n)
    BY <2>1 DEF TagOf, TailOf
  <2>3. n \in Int
    BY CellWordsDef DEF Numbers
  <2>4. LitBytes(n) \in Seq(Bytes) /\ Len(LitBytes(n)) = LitSize
    BY <1>a, <2>3, LitBytesTyped, BytesSeq
  <2>5. SizeOf(0) = LitSize
    BY DEF SizeOf
  <2>6. QED
    BY <1>b, <2>2, <2>4, <2>5, <1>a
<1>3. CASE \E kind \in Kinds, c \in DOMAIN Digest : item = Ref(kind, c)
  <2>1. PICK kind \in Kinds, c \in DOMAIN Digest : item.tag = "ref" /\ item.kind = kind /\ item.n = c
    BY <1>3 DEF Ref
  <2>2. TagOf(item) = 2 * kind + 1 /\ TailOf(item) = Digest[c]
    BY <2>1 DEF TagOf, TailOf
  <2>3. kind \in 1..3
    BY DEF Kinds, BLOB_WORD, BLOB_QUOTATION, BLOB_DATA
  <2>4. PICK tag \in 3..7 : tag = 2 * kind + 1 /\ tag % 2 = 1
    BY <2>3
  <2>5. Digest[c] \in Seq(Bytes) /\ Len(Digest[c]) = CidSize
    BY <1>a, EncodingsAssumption, BytesSeq
  <2>6. SizeOf(tag) = CidSize
    BY <2>4 DEF SizeOf
  <2>7. tag < Byte * Byte
    BY <1>a, <1>b, <2>4
  <2>8. QED
    BY <2>2, <2>4, <2>5, <2>6, <2>7
<1>4. QED
  BY <1>1, <1>2, <1>3 DEF Encodable

(* Tag and tail determine the item. *)
LEMMA ItemFromBytes ==
  ASSUME NEW item \in Encodable
  PROVE  /\ TagOf(item) % 2 = 1 =>
              \A c \in DOMAIN Digest : Digest[c] = TailOf(item) => Ref(TagOf(item) \div 2, c) = item
         /\ TagOf(item) % 2 # 1 /\ TagOf(item) \div 2 # 0 =>
              \A p \in DOMAIN PrimId : PrimId[p] = TagOf(item) \div 2 => Prim(p) = item
         /\ TagOf(item) % 2 # 1 /\ TagOf(item) \div 2 = 0 =>
              \E n \in Numbers : item = InlineLit(n) /\ TailOf(item) = LitBytes(n)
<1>1. CASE \E p \in DOMAIN PrimId : item = Prim(p)
  <2>1. PICK p \in DOMAIN PrimId : item = Prim(p)
    BY <1>1
  <2>2. PICK id \in 1..((Byte * Byte) \div 2) - 1 : id = PrimId[p]
    BY EncodingsAssumption
  <2>3. id \in Nat \ {0}
    <3>1. PICK n \in Nat : n = Byte * Byte
      BY EncodingsAssumption
    <3>2. QED
      BY <2>2, <3>1
  <2>4. TagOf(item) = 2 * id
    BY <2>1, <2>2 DEF TagOf, Prim
  <2>5. TagOf(item) % 2 # 1 /\ TagOf(item) \div 2 = id
    BY <2>3, <2>4
  <2>6. \A q \in DOMAIN PrimId : PrimId[q] = id => q = p
    BY <2>2, EncodingsAssumption
  <2>7. QED
    BY <2>1, <2>3, <2>5, <2>6
<1>2. CASE \E n \in Numbers : item = InlineLit(n)
  <2>1. PICK n \in Numbers : item = InlineLit(n)
    BY <1>2
  <2>2. TagOf(item) = 0 /\ TailOf(item) = LitBytes(n)
    BY <2>1 DEF TagOf, TailOf, InlineLit
  <2>3. QED
    BY <2>1, <2>2
<1>3. CASE \E kind \in Kinds, c \in DOMAIN Digest : item = Ref(kind, c)
  <2>1. PICK kind \in Kinds, c \in DOMAIN Digest : item = Ref(kind, c)
    BY <1>3
  <2>2. TagOf(item) = 2 * kind + 1 /\ TailOf(item) = Digest[c]
    BY <2>1 DEF TagOf, TailOf, Ref
  <2>3. kind \in 1..3
    BY DEF Kinds, BLOB_WORD, BLOB_QUOTATION, BLOB_DATA
  <2>4. TagOf(item) % 2 = 1 /\ TagOf(item) \div 2 = kind
    BY <2>2, <2>3
  <2>5. \A d \in DOMAIN Digest : Digest[d] = Digest[c] => d = c
    BY EncodingsAssumption
  <2>6. QED
    BY <2>1, <2>2, <2>4, <2>5
<1>4. QED
  BY <1>1, <1>2, <1>3 DEF Encodable

LEMMA OddIsRef ==
  ASSUME NEW item \in Encodable, TagOf(item) % 2 = 1
  PROVE  item.tag = "ref"
<1>1. CASE \E p \in DOMAIN PrimId : item = Prim(p)
  <2>1. PICK p \in DOMAIN PrimId : item = Prim(p)
    BY <1>1
  <2>2. PICK id \in Int : id = PrimId[p]
    <3>1. PICK n \in Nat : n = Byte * Byte
      BY EncodingsAssumption
    <3>2. PrimId[p] \in 1..(n \div 2) - 1
      BY <3>1, EncodingsAssumption
    <3>3. QED
      BY <3>1, <3>2
  <2>3. TagOf(item) = 2 * id
    BY <2>1, <2>2 DEF TagOf, Prim
  <2>4. QED
    BY <2>2, <2>3
<1>2. CASE \E n \in Numbers : item = InlineLit(n)
  <2>1. TagOf(item) = 0
    BY <1>2 DEF TagOf, InlineLit
  <2>2. QED
    BY <2>1
<1>3. CASE \E kind \in Kinds, c \in DOMAIN Digest : item = Ref(kind, c)
  BY <1>3 DEF Ref
<1>4. QED
  BY <1>1, <1>2, <1>3 DEF Encodable

-----------------------------------------------------------------------------
(* Sequences end to end. *)

LEMMA ConcatElements ==
  ASSUME NEW s, NEW t, IsSeq(s), IsSeq(t)
  PROVE  \A i \in 1..Len(s) + Len(t) : (s \o t)[i] = IF i <= Len(s) THEN s[i] ELSE t[i - Len(s)]
<1>1. PICK S : s \in Seq(S)
  BY DEF IsSeq
<1>2. PICK T : t \in Seq(T)
  BY DEF IsSeq
<1>3. s \in Seq(S \cup T) /\ t \in Seq(S \cup T)
  BY <1>1, <1>2, SeqDef
<1>4. QED
  BY <1>3, ConcatProperties

LEMMA ConcatAssoc ==
  ASSUME NEW s, NEW t, NEW u, IsSeq(s), IsSeq(t), IsSeq(u)
  PROVE  (s \o t) \o u = s \o (t \o u)
<1>1. PICK S : s \in Seq(S)
  BY DEF IsSeq
<1>2. PICK T : t \in Seq(T)
  BY DEF IsSeq
<1>3. PICK U : u \in Seq(U)
  BY DEF IsSeq
<1>4. s \in Seq(S \cup T \cup U) /\ t \in Seq(S \cup T \cup U) /\ u \in Seq(S \cup T \cup U)
  BY <1>1, <1>2, <1>3, SeqDef
<1>5. QED
  BY <1>4, ConcatAssociative

LEMMA ConcatEmpty ==
  ASSUME NEW s, IsSeq(s)
  PROVE  s \o <<>> = s
<1>1. PICK S : s \in Seq(S)
  BY DEF IsSeq
<1>2. QED
  BY <1>1, ConcatEmptySeq

(* The two bytes of a tag that fits in them are the tag. *)
LEMMA TagFits ==
  ASSUME NEW tag \in Nat, tag < Byte * Byte
  PROVE  (tag % Byte) + Byte * ((tag \div Byte) % Byte) = tag
<1> DEFINE q == tag \div Byte
           r == tag % Byte
<1>a. Byte \in Nat /\ Byte >= 4
  BY EncodingsAssumption
<1>1. q \in Nat /\ r \in 0..Byte - 1
  BY <1>a
<1>2. tag = Byte * q + r
  BY <1>a
<1>3. q < Byte
  <2>1. SUFFICES ASSUME q >= Byte PROVE FALSE
    BY <1>a, <1>1
  <2>2. Byte * q >= Byte * Byte
    BY <1>a, <1>1, <2>1
  <2>3. QED
    BY <1>a, <1>1, <1>2, <2>2
<1>4. q % Byte = q
  BY <1>a, <1>1, <1>3
<1>5. QED
  BY <1>a, <1>1, <1>2, <1>4

-----------------------------------------------------------------------------
(* Where the items are. *)

(* The bytes s are the first n items of w, one behind the other:           *)
(* at is where each begins.                                                *)
Layout(w, s, n, at) ==
  /\ at \in [1..n + 1 -> 0..Len(s)] /\ at[1] = 0 /\ at[n + 1] = Len(s)
  /\ \A i \in 1..n :
       /\ at[i + 1] = at[i] + 2 + Len(TailOf(w[i]))
       /\ s[at[i] + 1] + Byte * s[at[i] + 2] = TagOf(w[i])
       /\ \A j \in 1..Len(TailOf(w[i])) : s[at[i] + 2 + j] = TailOf(w[i])[j]

(* What will be in the buffer once the item in hand has been appended. *)
Intended == (data \o header) \o tail

(* The first n items have been read, and linked. *)
Linked(w, n) ==
  n <= Len(w) /\ \A i \in 1..n : read[i] = w[i] /\ cells[i] = CellOf(w[i])

StreamInv ==
  /\ mode = "encode" => \E at : Layout(code, Intended, done, at)
  /\ mode # "encode" => header = <<>> /\ tail = <<>>
  /\ mode = "link" =>
       \E at : Layout(code, stored, Len(code), at) /\ ptr = at[Len(read) + 1]

LinkedInv ==
  /\ mode = "link" => Linked(code, Len(read)) /\ Len(cells) = Len(read)
  /\ mode = "linked" =>
       /\ Linked(code, Len(code)) /\ Len(read) = Len(code)
       /\ Len(cells) = Len(code) + 1 /\ cells[Len(code) + 1] = EncodeExit

(* The inductive invariant: the bytes are the items meant, wherever the    *)
(* encoder or the linker is, and ptr is where the next item begins.        *)
CodecInv == TypeOK /\ RoomInv /\ StreamInv /\ LinkedInv

LEMMA CodeTyped ==
  ASSUME code \in Codes
  PROVE  /\ code \in Seq(Items) /\ Len(code) \in Nat
         /\ \A i \in 1..Len(code) : code[i] \in Encodable /\ code[i] \in Items
<1>1. code \in Seq(Items) /\ \A i \in 1..Len(code) : code[i] \in Encodable
  BY EncodingsAssumption
<1>2. Len(code) \in Nat
  BY <1>1
<1>3. \A i \in 1..Len(code) : code[i] \in Items
  BY <1>1
<1>4. QED
  BY <1>1, <1>2, <1>3

LEMMA EmptyLayout == \A w : Layout(w, <<>>, 0, [i \in 1..1 |-> 0])
<1>1. Len(<<>>) = 0
  BY EmptyIsSeq
<1>2. QED
  BY <1>1 DEF Layout

(* One item more. *)
LEMMA LayoutMore ==
  ASSUME NEW w, NEW s, IsSeq(s), NEW n \in Nat, NEW at, Layout(w, s, n, at),
         \A i \in 1..n + 1 : w[i] \in Encodable
  PROVE  \E more : Layout(w, s \o (TagBytes(TagOf(w[n + 1])) \o TailOf(w[n + 1])), n + 1, more)
<1> DEFINE tag == TagOf(w[n + 1])
           b == TailOf(w[n + 1])
           t == TagBytes(tag) \o b
           st == s \o t
           m == Len(s)
           k == Len(b)
           more == [i \in 1..n + 2 |-> IF i = n + 2 THEN m + 2 + k ELSE at[i]]
<1>1. tag \in Nat /\ tag < Byte * Byte /\ b \in Seq(Bytes)
  <2>1. w[n + 1] \in Encodable
    OBVIOUS
  <2>2. QED
    BY <2>1, ItemBytes
<1>2. IsSeq(TagBytes(tag)) /\ Len(TagBytes(tag)) = 2 /\ IsSeq(b)
  BY <1>1, PairIsSeq DEF TagBytes, IsSeq
<1>3. IsSeq(t) /\ Len(t) = 2 + k /\ k \in Nat
  BY <1>2, ConcatIsSeq
<1>4. m \in Nat /\ Len(st) = m + (2 + k)
  BY <1>3, ConcatIsSeq
<1>5. \A i \in 1..m + (2 + k) : st[i] = IF i <= m THEN s[i] ELSE t[i - m]
  BY <1>3, ConcatElements
<1>6. \A i \in 1..2 + k : t[i] = IF i <= 2 THEN TagBytes(tag)[i] ELSE b[i - 2]
  <2>1. \A i \in 1..Len(TagBytes(tag)) + Len(b) :
          t[i] = IF i <= Len(TagBytes(tag)) THEN TagBytes(tag)[i] ELSE b[i - Len(TagBytes(tag))]
    BY <1>2, ConcatElements
  <2>2. QED
    BY <1>2, <2>1
<1>7. TagBytes(tag)[1] + Byte * TagBytes(tag)[2] = tag
  BY <1>1, TagFits DEF TagBytes
<1> HIDE DEF tag, b, t, st, m, k
<1>8. /\ at \in [1..n + 1 -> 0..m] /\ at[1] = 0 /\ at[n + 1] = m
      /\ \A i \in 1..n :
           /\ at[i + 1] = at[i] + 2 + Len(TailOf(w[i]))
           /\ s[at[i] + 1] + Byte * s[at[i] + 2] = TagOf(w[i])
           /\ \A j \in 1..Len(TailOf(w[i])) : s[at[i] + 2 + j] = TailOf(w[i])[j]
  BY DEF Layout, m
<1>9. /\ more \in [1..n + 2 -> 0..m + (2 + k)] /\ more[1] = 0 /\ more[n + 2] = m + (2 + k)
      /\ \A i \in 1..n + 1 : more[i] = at[i]
  <2>1. ASSUME NEW i \in 1..n + 2
        PROVE  (IF i = n + 2 THEN m + 2 + k ELSE at[i]) \in 0..m + (2 + k)
    <3>1. CASE i # n + 2
      <4>1. i \in 1..n + 1
        BY <3>1
      <4>2. at[i] \in 0..m
        BY <1>8, <4>1
      <4>3. QED
        BY <1>3, <1>4, <3>1, <4>2
    <3>2. QED
      BY <1>3, <1>4, <3>1
  <2>2. \A i \in 1..n + 1 : i \in 1..n + 2 /\ i # n + 2
    OBVIOUS
  <2>3. n + 2 \in 1..n + 2 /\ 1 \in 1..n + 1
    OBVIOUS
  <2>4. QED
    BY <1>3, <1>4, <1>8, <2>1, <2>2, <2>3
<1> HIDE DEF more
<1>10. ASSUME NEW i \in 1..n + 1
       PROVE  /\ more[i + 1] = more[i] + 2 + Len(TailOf(w[i]))
              /\ st[more[i] + 1] + Byte * st[more[i] + 2] = TagOf(w[i])
              /\ \A j \in 1..Len(TailOf(w[i])) : st[more[i] + 2 + j] = TailOf(w[i])[j]
  <2>1. CASE i = n + 1
    <3>1. more[i] = m /\ more[i + 1] = m + 2 + k
      BY <1>3, <1>4, <1>8, <1>9, <2>1
    <3>2. t[1] = TagBytes(tag)[1] /\ t[2] = TagBytes(tag)[2]
      <4>1. 1 \in 1..2 + k /\ 2 \in 1..2 + k
        BY <1>3
      <4>2. QED
        BY <1>6, <4>1
    <3>3. st[m + 1] = t[1] /\ st[m + 2] = t[2]
      <4>1. /\ m + 1 \in 1..m + (2 + k) /\ ~(m + 1 <= m) /\ (m + 1) - m = 1
            /\ m + 2 \in 1..m + (2 + k) /\ ~(m + 2 <= m) /\ (m + 2) - m = 2
        BY <1>3, <1>4
      <4>2. QED
        BY <1>5, <4>1
    <3>4. ASSUME NEW j \in 1..k PROVE st[m + 2 + j] = b[j]
      <4>1. /\ m + 2 + j \in 1..m + (2 + k) /\ ~(m + 2 + j <= m) /\ (m + 2 + j) - m = 2 + j
            /\ 2 + j \in 1..2 + k /\ ~(2 + j <= 2) /\ (2 + j) - 2 = j
        BY <1>3, <1>4
      <4>2. st[m + 2 + j] = t[2 + j]
        BY <1>5, <4>1
      <4>3. t[2 + j] = b[j]
        BY <1>6, <4>1
      <4>4. QED
        BY <4>2, <4>3
    <3>5. w[i] = w[n + 1]
      BY <2>1
    <3>6. QED
      BY <1>7, <3>1, <3>2, <3>3, <3>4, <3>5 DEF tag, b, k
  <2>2. CASE i # n + 1
    <3>1. i \in 1..n /\ i + 1 \in 1..n + 1
      BY <2>2
    <3> DEFINE l == Len(TailOf(w[i]))
    <3>2. /\ at[i] \in 0..m /\ at[i + 1] \in 0..m /\ at[i + 1] = at[i] + 2 + l
          /\ s[at[i] + 1] + Byte * s[at[i] + 2] = TagOf(w[i])
          /\ \A j \in 1..l : s[at[i] + 2 + j] = TailOf(w[i])[j]
      BY <1>8, <3>1
    <3>3. more[i] = at[i] /\ more[i + 1] = at[i + 1]
      BY <1>9, <3>1
    <3>4. l \in Nat
      <4>1. TailOf(w[i]) \in Seq(Bytes)
        BY <3>1, ItemBytes
      <4>2. QED
        BY <4>1
    <3> HIDE DEF l
    <3>5. ASSUME NEW j \in 1..2 + l PROVE st[at[i] + j] = s[at[i] + j]
      <4>1. at[i] + j \in 1..m + (2 + k) /\ at[i] + j <= m
        <5>1. PICK x \in 0..m, y \in 0..m : x = at[i] /\ y = at[i + 1]
          BY <3>2
        <5>2. y = x + 2 + l
          BY <3>2, <5>1
        <5>3. m \in Nat /\ k \in Nat /\ j \in Nat /\ j >= 1 /\ j <= 2 + l
          BY <1>3, <1>4, <3>4
        <5>5. x + j <= m /\ x + j >= 1 /\ x + j <= m + (2 + k)
          BY <3>4, <5>2, <5>3
        <5>6. x + j \in 1..m + (2 + k)
          BY <5>3, <5>5
        <5>7. QED
          BY <5>1, <5>5, <5>6
      <4>2. QED
        BY <1>5, <4>1
    <3>6. st[at[i] + 1] = s[at[i] + 1] /\ st[at[i] + 2] = s[at[i] + 2]
      BY <3>4, <3>5
    <3>7. ASSUME NEW j \in 1..l PROVE st[at[i] + 2 + j] = s[at[i] + 2 + j]
      <4>1. 2 + j \in 1..2 + l /\ at[i] + (2 + j) = at[i] + 2 + j
        BY <3>2, <3>4
      <4>2. QED
        BY <3>5, <4>1
    <3>8. QED
      BY <3>2, <3>3, <3>6, <3>7 DEF l
  <2>3. QED
    BY <2>1, <2>2
<1>11. Layout(w, st, n + 1, more)
  BY <1>4, <1>9, <1>10 DEF Layout
<1>12. QED
  BY <1>11 DEF st, t, b, tag

LEMMA SeqOfBytes ==
  /\ \A s, t \in Seq(Bytes) : s \o t \in Seq(Bytes)
  /\ \A h \in {<<>>} \cup (Bytes \X Bytes) : h \in Seq(Bytes)
  /\ <<>> \in Seq(Bytes)
<1>1. \A s, t \in Seq(Bytes) : s \o t \in Seq(Bytes)
  BY ConcatProperties
<1>2. ASSUME NEW a \in Bytes, NEW b \in Bytes PROVE <<a, b>> \in Seq(Bytes)
  OBVIOUS
<1>3. ASSUME NEW h \in Bytes \X Bytes PROVE h \in Seq(Bytes)
  <2>1. h = <<h[1], h[2]>> /\ h[1] \in Bytes /\ h[2] \in Bytes
    OBVIOUS
  <2>2. QED
    BY <1>2, <2>1
<1>4. <<>> \in Seq(Bytes)
  OBVIOUS
<1>5. QED
  BY <1>1, <1>3, <1>4

(* An encoder puts the item it has in hand where it belongs. *)
LEMMA EncodeStep ==
  ASSUME CodecInv, RoomInv', mode = "encode", header = <<>>, tail = <<>>, done < Len(code),
         Encode(TagBytes(TagOf(code[done + 1])), TailOf(code[done + 1]))
  PROVE  CodecInv'
<1> DEFINE item == code[done + 1]
<1>1. /\ header' = TagBytes(TagOf(item)) /\ tail' = TailOf(item) /\ done' = done + 1
      /\ UNCHANGED <<code, word, data, capacity, stored, ptr, read, cells, room, mode>>
  BY DEF Encode, linker
<1>2. done \in Nat /\ \A i \in 1..done + 1 : code[i] \in Encodable
  <2>1. done \in 0..Len(code) /\ Len(code) \in Nat /\ \A i \in 1..Len(code) : code[i] \in Encodable
    BY CodeTyped DEF CodecInv, TypeOK
  <2>2. \A i \in 1..done + 1 : i \in 1..Len(code)
    BY <2>1
  <2>3. QED
    BY <2>1, <2>2
<1>3. item \in Encodable
  BY <1>2
<1>4. TagOf(item) \in Int /\ TailOf(item) \in Seq(Bytes)
  BY <1>3, ItemBytes
<1>5. TagBytes(TagOf(item)) \in Bytes \X Bytes
  BY <1>4, TagInBytes
<1> HIDE DEF item
<1>6. TypeOK'
  <2>1. done' \in 0..Len(code')
    <3>1. Len(code) \in Nat
      BY CodeTyped DEF CodecInv, TypeOK
    <3>2. QED
      BY <1>1, <1>2, <3>1
  <2>2. header' \in {<<>>} \cup (Bytes \X Bytes) /\ tail' \in Seq(Bytes)
    BY <1>1, <1>4, <1>5
  <2>3. QED
    BY <1>1, <2>1, <2>2 DEF CodecInv, TypeOK
<1>7. (\E at : Layout(code, Intended, done, at))'
  <2>1. IsSeq(data) /\ Intended = data
    BY ConcatEmpty DEF CodecInv, RoomInv, Intended
  <2>2. PICK at : Layout(code, data, done, at)
    BY <2>1 DEF CodecInv, StreamInv
  <2>3. PICK more : Layout(code, data \o (TagBytes(TagOf(item)) \o TailOf(item)), done + 1, more)
    BY <1>2, <2>1, <2>2, LayoutMore DEF item
  <2>4. IsSeq(TagBytes(TagOf(item))) /\ IsSeq(TailOf(item))
    BY <1>4, PairIsSeq DEF IsSeq, TagBytes
  <2>5. Intended' = data \o (TagBytes(TagOf(item)) \o TailOf(item))
    BY <1>1, <2>1, <2>4, ConcatAssoc DEF Intended
  <2>6. Layout(code', Intended', done', more)
    BY <1>1, <2>3, <2>5
  <2>7. QED
    BY <2>6
<1>8. StreamInv'
  BY <1>1, <1>7 DEF CodecInv, StreamInv
<1>9. LinkedInv'
  BY <1>1 DEF CodecInv, LinkedInv
<1>10. QED
  BY <1>6, <1>8, <1>9 DEF CodecInv

(* At ptr are the tag and the tail of the item that is to be read next. *)
LEMMA AtPtr ==
  ASSUME CodecInv, Decoding
  PROVE  /\ Len(read) + 1 \in 1..Len(code) /\ code[Len(read) + 1] \in Encodable
         /\ TagAt(ptr) = TagOf(code[Len(read) + 1])
         /\ \A j \in 1..Len(TailOf(code[Len(read) + 1])) :
              stored[ptr + 2 + j] = TailOf(code[Len(read) + 1])[j]
         /\ ptr + 2 + Len(TailOf(code[Len(read) + 1])) <= Len(stored)
         /\ \E at : /\ Layout(code, stored, Len(code), at)
                    /\ at[Len(read) + 2] = ptr + 2 + Len(TailOf(code[Len(read) + 1]))
<1> DEFINE i == Len(read) + 1
<1>1. PICK at : Layout(code, stored, Len(code), at) /\ ptr = at[i]
  BY DEF Decoding, CodecInv, StreamInv
<1>2. Linked(code, Len(read)) /\ Len(read) \in Nat
  BY DEF Decoding, CodecInv, LinkedInv, TypeOK
<1>3. Len(code) \in Nat /\ Len(read) <= Len(code) /\ \A k \in 1..Len(code) : code[k] \in Encodable
  BY <1>2, CodeTyped DEF Linked, CodecInv, TypeOK
<1>4. Len(read) # Len(code)
  <2>1. at[Len(code) + 1] = Len(stored)
    BY <1>1 DEF Layout
  <2>2. ptr < Len(stored) /\ Len(stored) \in Nat /\ ptr \in Nat
    BY DEF Decoding, CodecInv, TypeOK
  <2>3. QED
    BY <1>1, <2>1, <2>2
<1>5. i \in 1..Len(code) /\ i + 1 \in 1..Len(code) + 1 /\ i + 1 = Len(read) + 2
  BY <1>2, <1>3, <1>4
<1>6. code[i] \in Encodable
  BY <1>3, <1>5
<1> HIDE DEF i
<1>7. /\ at[i + 1] = at[i] + 2 + Len(TailOf(code[i]))
      /\ stored[at[i] + 1] + Byte * stored[at[i] + 2] = TagOf(code[i])
      /\ \A j \in 1..Len(TailOf(code[i])) : stored[at[i] + 2 + j] = TailOf(code[i])[j]
      /\ at[i + 1] \in 0..Len(stored)
  BY <1>1, <1>5 DEF Layout
<1>8. Len(stored) \in Nat
  BY DEF CodecInv, TypeOK
<1>9. QED
  BY <1>1, <1>5, <1>6, <1>7, <1>8 DEF TagAt, i

(* A step of the linker that reads the item that was meant. *)
LEMMA DecodeStep ==
  ASSUME CodecInv, RoomInv', Decoding,
         AppendCell(code[Len(read) + 1], CellOf(code[Len(read) + 1]))
  PROVE  CodecInv'
<1> DEFINE i == Len(read) + 1
           item == code[i]
<1>1. /\ read' = Append(read, item) /\ cells' = Append(cells, CellOf(item)) /\ ptr' = ptr + Size
      /\ UNCHANGED <<code, word, done, header, tail, data, capacity, stored, mode>>
  BY DEF AppendCell, encoder
<1>2. /\ i \in 1..Len(code) /\ item \in Encodable /\ TagAt(ptr) = TagOf(item)
      /\ \E at : Layout(code, stored, Len(code), at) /\ at[i + 1] = ptr + 2 + Len(TailOf(item))
  <2>1. Len(read) \in Nat
    BY DEF CodecInv, TypeOK
  <2>2. i + 1 = Len(read) + 2
    BY <2>1
  <2>3. QED
    BY <2>2, AtPtr
<1>3. item \in Items /\ Len(code) \in Nat
  BY <1>2, CodeTyped DEF CodecInv, TypeOK
<1>4. Len(TailOf(item)) = SizeOf(TagOf(item)) /\ TailOf(item) \in Seq(Bytes)
  BY <1>2, ItemBytes
<1>5. Size = 2 + Len(TailOf(item)) /\ Len(TailOf(item)) \in Nat
  BY <1>2, <1>4 DEF Size, SizeOf, IsCid, IdOrKind
<1>6. CellOf(item) \in 0..CellWords - 1
  BY <1>2, CellMeans
<1>7. read \in Seq(Items) /\ cells \in Seq(0..CellWords - 1) /\ ptr \in Nat
  BY DEF CodecInv, TypeOK
<1>8. mode = "link" /\ Linked(code, Len(read)) /\ Len(cells) = Len(read)
  BY DEF Decoding, CodecInv, LinkedInv
<1>9. /\ read' \in Seq(Items) /\ Len(read') = i /\ read'[i] = item
      /\ \A k \in 1..Len(read) : read'[k] = read[k]
  BY <1>1, <1>3, <1>7
<1>10. /\ cells' \in Seq(0..CellWords - 1) /\ Len(cells') = i /\ cells'[i] = CellOf(item)
       /\ \A k \in 1..Len(cells) : cells'[k] = cells[k]
  BY <1>1, <1>6, <1>7, <1>8
<1>11. i \in Nat /\ i - 1 = Len(read)
  BY <1>7
<1> HIDE DEF i
<1>12. TypeOK'
  <2>1. ptr' \in Nat
    BY <1>1, <1>5, <1>7
  <2>2. room' \in Nat
    BY DEF RoomInv
  <2>3. QED
    BY <1>1, <1>9, <1>10, <2>1, <2>2 DEF CodecInv, TypeOK
<1>13. StreamInv'
  <2>1. PICK at : Layout(code, stored, Len(code), at) /\ at[i + 1] = ptr + 2 + Len(TailOf(item))
    BY <1>2
  <2>2. Layout(code', stored', Len(code'), at)
    BY <1>1, <2>1
  <2>3. ptr' = at[Len(read') + 1]
    BY <1>1, <1>5, <1>7, <1>9, <2>1
  <2>4. QED
    BY <1>1, <1>8, <2>2, <2>3 DEF StreamInv, CodecInv
<1>14. Linked(code, Len(read))'
  <2>1. ASSUME NEW k \in 1..i PROVE read'[k] = code[k] /\ cells'[k] = CellOf(code[k])
    <3>1. CASE k = i
      BY <1>9, <1>10, <3>1
    <3>2. CASE k # i
      <4>1. k \in 1..Len(read)
        BY <1>11, <3>2
      <4>2. QED
        BY <1>8, <1>9, <1>10, <4>1 DEF Linked
    <3>3. QED
      BY <3>1, <3>2
  <2>2. i <= Len(code)
    BY <1>2, <1>3
  <2>3. QED
    BY <1>1, <1>9, <2>1, <2>2 DEF Linked
<1>15. LinkedInv'
  BY <1>1, <1>8, <1>9, <1>10, <1>14 DEF LinkedInv
<1>16. QED
  BY <1>12, <1>13, <1>15 DEF CodecInv

LEMMA InitCodec == Init => CodecInv
<1> SUFFICES ASSUME Init PROVE CodecInv
  OBVIOUS
<1>1. /\ code \in Codes /\ word = 1 /\ done = 0 /\ header = <<>> /\ tail = <<>> /\ data = <<>>
      /\ capacity = BlobCapacity /\ stored = <<>> /\ ptr = 0 /\ read = <<>> /\ cells = <<>>
      /\ room = CellCapacity /\ mode = "encode"
  BY DEF Init
<1>2. /\ MaxWords \in Nat \ {0} /\ BlobCapacity \in Nat /\ CellCapacity \in Nat
  BY EncodingsAssumption
<1>3. Len(code) \in Nat
  BY <1>1, CodeTyped
<1>4. TypeOK
  BY <1>1, <1>2, <1>3 DEF TypeOK
<1>5. Intended = <<>>
  BY <1>1, EmptyIsSeq, ConcatEmpty DEF Intended
<1>6. QED
  BY <1>1, <1>4, <1>5, InitRoom, EmptyLayout DEF CodecInv, StreamInv, LinkedInv

LEMMA NextCodec == CodecInv /\ [Next]_vars => CodecInv'
<1> SUFFICES ASSUME CodecInv, [Next]_vars PROVE CodecInv'
  OBVIOUS
<1>a. RoomInv'
  BY NextRoom DEF CodecInv
<1>b. /\ code \in Seq(Items) /\ Len(code) \in Nat /\ done \in 0..Len(code)
      /\ \A i \in 1..Len(code) : code[i] \in Encodable /\ code[i] \in Items
  BY CodeTyped DEF CodecInv, TypeOK
<1>c. ASSUME NEW form, EncodingItem(form)
      PROVE  /\ mode = "encode" /\ header = <<>> /\ tail = <<>> /\ done < Len(code)
             /\ code[done + 1].tag = form
  BY <1>c DEF EncodingItem
<1>d. ASSUME Decoding, NEW item, item = code[Len(read) + 1], AppendCell(item, CellOf(item))
      PROVE  CodecInv'
  BY <1>a, <1>d, DecodeStep
<1>1. CASE EncodePrimitive
  <2>1. EncodingItem("prim") /\ Encode(TagBytes(2 * PrimId[code[done + 1].s]), <<>>)
    BY <1>1 DEF EncodePrimitive
  <2>2. TagOf(code[done + 1]) = 2 * PrimId[code[done + 1].s] /\ TailOf(code[done + 1]) = <<>>
    BY <1>c, <2>1 DEF TagOf, TailOf
  <2>3. QED
    BY <1>a, <1>c, <2>1, <2>2, EncodeStep
<1>2. CASE EncodeCidRef
  <2>1. EncodingItem("ref") /\ Encode(TagBytes(2 * code[done + 1].kind + 1), Digest[code[done + 1].n])
    BY <1>2 DEF EncodeCidRef
  <2>2. /\ TagOf(code[done + 1]) = 2 * code[done + 1].kind + 1
        /\ TailOf(code[done + 1]) = Digest[code[done + 1].n]
    BY <1>c, <2>1 DEF TagOf, TailOf
  <2>3. QED
    BY <1>a, <1>c, <2>1, <2>2, EncodeStep
<1>3. CASE EncodeInlineLiteral
  <2>1. EncodingItem("lit") /\ Encode(TagBytes(0), LitBytes(code[done + 1].n))
    BY <1>3 DEF EncodeInlineLiteral
  <2>2. TagOf(code[done + 1]) = 0 /\ TailOf(code[done + 1]) = LitBytes(code[done + 1].n)
    BY <1>c, <2>1 DEF TagOf, TailOf
  <2>3. QED
    BY <1>a, <1>c, <2>1, <2>2, EncodeStep
<1>4. CASE AppendU16
  <2>1. /\ header # <<>> /\ data' = data \o header /\ header' = <<>>
        /\ UNCHANGED <<code, word, done, tail, stored, ptr, read, cells, room, mode>>
    BY <1>4 DEF AppendU16, linker
  <2>2. capacity' \in Nat
    BY <1>a DEF RoomInv
  <2>3. data' \in Seq(Bytes) /\ header' \in {<<>>} \cup (Bytes \X Bytes)
    BY <2>1, SeqOfBytes DEF CodecInv, TypeOK
  <2>4. TypeOK'
    BY <2>1, <2>2, <2>3 DEF CodecInv, TypeOK
  <2>5. Intended' = Intended
    <3>1. IsSeq(data \o header)
      BY ConcatIsSeq DEF CodecInv, RoomInv
    <3>2. QED
      BY <2>1, <3>1, ConcatEmpty DEF Intended
  <2>6. mode = "encode"
    BY <2>1 DEF CodecInv, StreamInv, TypeOK
  <2>7. StreamInv'
    BY <2>1, <2>5, <2>6 DEF CodecInv, StreamInv
  <2>8. LinkedInv'
    BY <2>1, <2>6 DEF LinkedInv
  <2>9. QED
    BY <1>a, <2>4, <2>7, <2>8 DEF CodecInv
<1>5. CASE Grow
  <2>1. UNCHANGED <<code, word, done, header, tail, data, stored, ptr, read, cells, room, mode>>
    BY <1>5 DEF Grow, linker
  <2>2. capacity' \in Nat
    BY <1>a DEF RoomInv
  <2>3. TypeOK' /\ StreamInv' /\ LinkedInv'
    BY <2>1, <2>2 DEF CodecInv, TypeOK, StreamInv, LinkedInv, Linked, Intended
  <2>4. QED
    BY <1>a, <2>3 DEF CodecInv
<1>6. CASE AppendBytes
  <2>1. /\ header = <<>> /\ tail # <<>> /\ data' = data \o tail /\ tail' = <<>>
        /\ UNCHANGED <<code, word, done, header, capacity, stored, ptr, read, cells, room, mode>>
    BY <1>6 DEF AppendBytes, linker
  <2>2. data' \in Seq(Bytes) /\ tail' \in Seq(Bytes)
    BY <2>1, SeqOfBytes DEF CodecInv, TypeOK
  <2>3. TypeOK'
    BY <2>1, <2>2 DEF CodecInv, TypeOK
  <2>4. Intended' = Intended
    <3>1. IsSeq(data \o tail) /\ IsSeq(data)
      BY ConcatIsSeq DEF CodecInv, RoomInv
    <3>2. Intended' = data \o tail
      BY <2>1, <3>1, ConcatEmpty DEF Intended
    <3>3. Intended = data \o tail
      BY <2>1, <3>1, ConcatEmpty DEF Intended
    <3>4. QED
      BY <3>2, <3>3
  <2>5. mode = "encode"
    BY <2>1 DEF CodecInv, StreamInv, TypeOK
  <2>6. StreamInv'
    BY <2>1, <2>4, <2>5 DEF CodecInv, StreamInv
  <2>7. LinkedInv'
    BY <2>1, <2>5 DEF LinkedInv
  <2>8. QED
    BY <1>a, <2>3, <2>6, <2>7 DEF CodecInv
<1>7. CASE Store
  <2>1. /\ mode = "encode" /\ header = <<>> /\ tail = <<>> /\ done = Len(code)
        /\ stored' = data /\ ptr' = 0 /\ read' = <<>> /\ cells' = <<>> /\ mode' = "link"
        /\ UNCHANGED <<code, word, done, header, tail, data, capacity>>
    BY <1>7 DEF Store
  <2>2. room' \in Nat
    BY <1>a DEF RoomInv
  <2>3. TypeOK'
    BY <2>1, <2>2 DEF CodecInv, TypeOK
  <2>4. Intended = data
    BY <2>1, ConcatEmpty DEF CodecInv, RoomInv, Intended
  <2>5. PICK at : Layout(code, data, Len(code), at)
    BY <2>1, <2>4 DEF CodecInv, StreamInv
  <2>6. Len(read') = 0 /\ Len(cells') = 0
    BY <2>1, EmptyIsSeq
  <2>7. at[Len(read') + 1] = 0
    BY <2>5, <2>6 DEF Layout
  <2>8. StreamInv'
    BY <2>1, <2>5, <2>7 DEF StreamInv
  <2>9. LinkedInv'
    BY <1>b, <2>1, <2>6 DEF LinkedInv, Linked
  <2>10. QED
    BY <1>a, <2>3, <2>8, <2>9 DEF CodecInv
<1>8. CASE Clear
  <2>1. /\ mode = "linked" /\ word < MaxWords /\ word' = word + 1 /\ code' \in Codes /\ done' = 0
        /\ data' = <<>> /\ mode' = "encode"
        /\ UNCHANGED <<header, tail, capacity, stored, ptr, read, cells, room>>
    BY <1>8 DEF Clear, linker
  <2>2. header = <<>> /\ tail = <<>>
    BY <2>1 DEF CodecInv, StreamInv
  <2>3. Len(code') \in Nat
    BY <2>1, EncodingsAssumption
  <2>4. word' \in 1..MaxWords
    BY <2>1, EncodingsAssumption DEF CodecInv, TypeOK
  <2>5. TypeOK'
    BY <2>1, <2>3, <2>4, SeqOfBytes DEF CodecInv, TypeOK
  <2>6. Intended' = <<>>
    BY <2>1, <2>2, EmptyIsSeq, ConcatEmpty DEF Intended
  <2>7. StreamInv'
    BY <2>1, <2>6, EmptyLayout DEF StreamInv
  <2>8. LinkedInv'
    BY <2>1 DEF LinkedInv
  <2>9. QED
    BY <1>a, <2>5, <2>7, <2>8 DEF CodecInv
<1>9. CASE DecodeLiteral
  <2> DEFINE item == code[Len(read) + 1]
             b == [i \in 1..LitSize |-> stored[ptr + 2 + i]]
  <2>1. /\ Decoding /\ TagAt(ptr) % 2 # 1 /\ TagAt(ptr) \div 2 = 0
        /\ AppendCell(InlineLit(ValueAt(ptr + 2)), EncodeLit(ValueAt(ptr + 2)))
    BY <1>9 DEF DecodeLiteral, IsCid, IdOrKind
  <2>2. /\ item \in Encodable /\ TagAt(ptr) = TagOf(item)
        /\ \A j \in 1..Len(TailOf(item)) : stored[ptr + 2 + j] = TailOf(item)[j]
    BY <2>1, AtPtr
  <2> HIDE DEF item
  <2>3. PICK n \in Numbers : item = InlineLit(n) /\ TailOf(item) = LitBytes(n)
    BY <2>1, <2>2, ItemFromBytes
  <2>4. n \in Int /\ LitSize \in Nat
    BY CellWordsDef, EncodingsAssumption DEF Numbers
  <2>5. LitBytes(n) \in [1..LitSize -> Bytes] /\ Len(LitBytes(n)) = LitSize
    BY <2>4, LitBytesTyped, BytesSeq
  <2>6. b = LitBytes(n)
    BY <2>2, <2>3, <2>5
  <2>7. ValueAt(ptr + 2) = n
    BY <2>6, NumberBack DEF ValueAt
  <2>8. CellOf(item) = EncodeLit(n)
    BY <2>3 DEF CellOf, InlineLit
  <2>9. QED
    BY <1>d, <2>1, <2>3, <2>7, <2>8 DEF item
<1>10. CASE DecodePrimitive
  <2> DEFINE item == code[Len(read) + 1]
  <2>1. Decoding /\ TagAt(ptr) % 2 # 1
    BY <1>10 DEF DecodePrimitive, IsCid
  <2>2. PICK p \in DOMAIN PrimId :
          PrimId[p] = TagAt(ptr) \div 2 /\ AppendCell(Prim(p), EncodeXt(PrimAddr[p]))
    BY <1>10 DEF DecodePrimitive, IdOrKind
  <2>3. item \in Encodable /\ TagAt(ptr) = TagOf(item)
    BY <2>1, AtPtr
  <2> HIDE DEF item
  <2>4. PrimId[p] # 0
    <3>1. PICK n \in Nat : n = Byte * Byte
      BY EncodingsAssumption
    <3>2. PrimId[p] \in 1..(n \div 2) - 1
      BY <3>1, EncodingsAssumption
    <3>3. QED
      BY <3>1, <3>2
  <2>5. item = Prim(p)
    BY <2>1, <2>2, <2>3, <2>4, ItemFromBytes
  <2>6. CellOf(item) = EncodeXt(PrimAddr[p])
    BY <2>5 DEF CellOf, Prim
  <2>7. QED
    BY <1>d, <2>1, <2>2, <2>5, <2>6 DEF item
<1>11. CASE DecodeRef
  <2> DEFINE item == code[Len(read) + 1]
  <2>1. Decoding /\ TagAt(ptr) % 2 = 1
    BY <1>11 DEF DecodeRef, IsCid
  <2>2. PICK c \in DOMAIN Digest :
          /\ Digest[c] = CidAt(ptr + 2)
          /\ AppendCell(Ref(TagAt(ptr) \div 2, c), UseOf(TagAt(ptr) \div 2, c))
    BY <1>11 DEF DecodeRef, IdOrKind
  <2>3. /\ item \in Encodable /\ TagAt(ptr) = TagOf(item)
        /\ \A j \in 1..Len(TailOf(item)) : stored[ptr + 2 + j] = TailOf(item)[j]
    BY <2>1, AtPtr
  <2> HIDE DEF item
  <2>4. \E d \in DOMAIN Digest : item.tag = "ref" /\ item.n = d /\ TailOf(item) = Digest[d]
    <3>1. item.tag = "ref"
      BY <2>1, <2>3, OddIsRef
    <3>2. item.n \in DOMAIN Digest
      BY <2>3, <3>1, RefEncodable
    <3>3. QED
      BY <3>1, <3>2 DEF TailOf
  <2>5. PICK d \in DOMAIN Digest : TailOf(item) = Digest[d]
    BY <2>4
  <2>6. CidSize \in Nat /\ Digest[d] \in [1..CidSize -> Bytes] /\ Digest[c] \in [1..CidSize -> Bytes]
    BY EncodingsAssumption
  <2>7. Len(Digest[d]) = CidSize
    BY <2>6, BytesSeq
  <2>8. CidAt(ptr + 2) = TailOf(item)
    BY <2>3, <2>5, <2>6, <2>7 DEF CidAt
  <2>9. Ref(TagOf(item) \div 2, c) = item
    BY <2>1, <2>2, <2>3, <2>8, ItemFromBytes
  <2>10. CellOf(item) = UseOf(TagOf(item) \div 2, c)
    BY <2>9 DEF CellOf, Ref
  <2>11. QED
    BY <1>d, <2>1, <2>2, <2>3, <2>9, <2>10 DEF item
<1>12. CASE AppendExit
  <2>1. /\ mode = "link" /\ ptr >= Len(stored) /\ cells' = Append(cells, EncodeExit) /\ mode' = "linked"
        /\ UNCHANGED <<code, word, done, header, tail, data, capacity, stored, ptr, read>>
    BY <1>12 DEF AppendExit, encoder
  <2>2. room' \in Nat
    BY <1>a DEF RoomInv
  <2>3. EncodeExit \in 0..CellWords - 1
    BY CellWordsDef DEF EncodeExit
  <2>4. cells \in Seq(0..CellWords - 1) /\ read \in Seq(Items) /\ stored \in Seq(Bytes)
    BY DEF CodecInv, TypeOK
  <2>5. /\ cells' \in Seq(0..CellWords - 1) /\ Len(cells') = Len(cells) + 1
        /\ cells'[Len(cells) + 1] = EncodeExit /\ \A k \in 1..Len(cells) : cells'[k] = cells[k]
    BY <2>1, <2>3, <2>4
  <2>6. TypeOK'
    BY <2>1, <2>2, <2>5 DEF CodecInv, TypeOK
  <2>7. Linked(code, Len(read)) /\ Len(cells) = Len(read)
    BY <2>1 DEF CodecInv, LinkedInv
  <2>8. Len(read) = Len(code)
    <3>1. SUFFICES ASSUME Len(read) # Len(code) PROVE FALSE
      OBVIOUS
    <3>2. PICK at : Layout(code, stored, Len(code), at) /\ ptr = at[Len(read) + 1]
      BY <2>1 DEF CodecInv, StreamInv
    <3> DEFINE i == Len(read) + 1
    <3>3. i \in 1..Len(code) /\ i \in 1..Len(code) + 1 /\ i + 1 \in 1..Len(code) + 1
      BY <1>b, <2>4, <2>7, <3>1 DEF Linked
    <3> HIDE DEF i
    <3>4. at[i + 1] \in 0..Len(stored) /\ at[i] \in 0..Len(stored) /\ at[i + 1] = at[i] + 2 + Len(TailOf(code[i]))
      BY <3>2, <3>3 DEF Layout
    <3>5. Len(TailOf(code[i])) \in Nat
      <4>1. TailOf(code[i]) \in Seq(Bytes)
        BY <1>b, <3>3, ItemBytes
      <4>2. QED
        BY <4>1
    <3>6. at[i] >= Len(stored)
      BY <2>1, <3>2 DEF i
    <3>7. Len(stored) \in Nat
      BY <2>4
    <3>8. QED
      BY <3>4, <3>5, <3>6, <3>7
  <2>9. StreamInv'
    BY <2>1 DEF CodecInv, StreamInv
  <2>10. Linked(code, Len(code))'
    BY <2>1, <2>5, <2>7, <2>8 DEF Linked
  <2>11. LinkedInv'
    BY <2>1, <2>5, <2>7, <2>8, <2>10 DEF LinkedInv
  <2>12. QED
    BY <1>a, <2>6, <2>9, <2>11 DEF CodecInv
<1>13. CASE UNCHANGED vars
  <2>1. UNCHANGED <<code, word, done, header, tail, data, capacity, stored, ptr, read, cells, room, mode>>
    BY <1>13 DEF vars, encoder, linker
  <2>2. TypeOK' /\ StreamInv' /\ LinkedInv'
    BY <2>1 DEF CodecInv, TypeOK, StreamInv, LinkedInv, Linked, Intended
  <2>3. QED
    BY <1>a, <2>2 DEF CodecInv
<1>14. QED
  BY <1>1, <1>2, <1>3, <1>4, <1>5, <1>6, <1>7, <1>8, <1>9, <1>10, <1>11, <1>12, <1>13 DEF Next

LEMMA CodecAlways == Spec => []CodecInv
BY InitCodec, NextCodec, PTL DEF Spec

(* The buffers hold bytes, and the cells are words (cells.c, loader.c).    *)
THEOREM BytesTyped == Spec => []TypeOK
<1>1. CodecInv => TypeOK
  BY DEF CodecInv
<1>2. QED
  BY CodecAlways, <1>1, PTL

(* decode_tag_ex, which is told where an item begins but not where the     *)
(* bytes end, does not read past them: each item is as long as its tag     *)
(* says, and the next begins where it ends (cells.c).                      *)
THEOREM DecodingStaysInBounds == Spec => []InBounds
<1>1. CodecInv => InBounds
  <2> SUFFICES ASSUME CodecInv, Decoding PROVE ptr + 2 <= Len(stored) /\ ptr + Size <= Len(stored)
    BY DEF InBounds
  <2> DEFINE item == code[Len(read) + 1]
  <2>1. item \in Encodable /\ TagAt(ptr) = TagOf(item) /\ ptr + 2 + Len(TailOf(item)) <= Len(stored)
    BY AtPtr
  <2> HIDE DEF item
  <2>2. Len(TailOf(item)) = SizeOf(TagOf(item)) /\ TailOf(item) \in Seq(Bytes)
    BY <2>1, ItemBytes
  <2>3. Size = 2 + Len(TailOf(item)) /\ Len(TailOf(item)) \in Nat
    BY <2>1, <2>2 DEF Size, SizeOf, IsCid, IdOrKind
  <2>4. ptr \in Nat /\ Len(stored) \in Nat
    BY DEF CodecInv, TypeOK
  <2>5. QED
    BY <2>1, <2>3, <2>4
<1>2. QED
  BY CodecAlways, <1>1, PTL

(* The loader reads the items the compiler meant, in their order and none  *)
(* besides: tags, CIDs and numbers of any width lose nothing on the way    *)
(* through the bytes (cells.c, loader.c).                                  *)
THEOREM BytesMeanItems == Spec => []DecodesBack
<1>1. CodecInv => DecodesBack
  <2> SUFFICES ASSUME CodecInv, mode \in {"link", "linked"}
               PROVE  /\ Len(read) <= Len(code) /\ read = SubSeq(code, 1, Len(read))
                      /\ mode = "linked" => read = code
    BY DEF DecodesBack
  <2>1. read \in Seq(Items) /\ code \in Seq(Items)
    BY CodeTyped DEF CodecInv, TypeOK
  <2>2. Len(read) <= Len(code) /\ \A i \in 1..Len(read) : read[i] = code[i]
    BY <2>1 DEF CodecInv, LinkedInv, Linked
  <2>3. read = SubSeq(code, 1, Len(read))
    <3> DEFINE sub == SubSeq(code, 1, Len(read))
    <3>1. Len(read) \in Nat /\ Len(code) \in Nat
      BY <2>1
    <3>2. 1 \in 1..Len(code) + 1 /\ Len(read) \in 1 - 1..Len(code)
      BY <2>2, <3>1
    <3>3. sub \in Seq(Items) /\ Len(sub) = Len(read) /\ \A i \in 1..Len(read) : sub[i] = code[i]
      BY <2>1, <3>1, <3>2, SubSeqProperties
    <3> HIDE DEF sub
    <3>4. \A i \in 1..Len(read) : read[i] = sub[i]
      BY <2>2, <3>3
    <3>5. QED
      BY <2>1, <3>3, <3>4, SeqEqual DEF sub
  <2>4. mode = "linked" => Len(read) = Len(code)
    BY DEF CodecInv, LinkedInv
  <2>5. mode = "linked" => read = code
    BY <2>1, <2>2, <2>4, SeqEqual
  <2>6. QED
    BY <2>2, <2>3, <2>5
<1>2. QED
  BY CodecAlways, <1>1, PTL

(* The machine takes from every cell what the item meant: it calls the     *)
(* primitive or the word, or pushes the number less the two bits of the    *)
(* tag, and EXIT comes last (cells.c, loader.c, vm.asm).                   *)
THEOREM CellsMeanItems == Spec => []CellsDispatch
<1>1. CodecInv => CellsDispatch
  <2> SUFFICES ASSUME CodecInv, mode = "linked"
               PROVE  [i \in 1..Len(cells) |-> Dispatch(cells[i])] =
                        [i \in 1..Len(code) |-> Meaning(code[i])] \o <<[op |-> "exit", n |-> 0]>>
    BY DEF CellsDispatch
  <2> DEFINE exit == [op |-> "exit", n |-> 0]
             m == [i \in 1..Len(code) |-> Meaning(code[i])]
             d == [i \in 1..Len(cells) |-> Dispatch(cells[i])]
             n == Len(code)
  <2>1. n \in Nat /\ \A i \in 1..n : code[i] \in Encodable
    BY CodeTyped DEF CodecInv, TypeOK
  <2>2. /\ Len(cells) = n + 1 /\ cells[n + 1] = EncodeExit
        /\ \A i \in 1..n : cells[i] = CellOf(code[i])
    BY DEF CodecInv, LinkedInv, Linked
  <2>3. \A i \in 1..n : Dispatch(cells[i]) = Meaning(code[i])
    BY <2>1, <2>2, CellMeans
  <2>4. Dispatch(cells[n + 1]) = exit
    BY <2>2 DEF Dispatch, EncodeExit
  <2> HIDE DEF n
  <2> DEFINE S == {m[i] : i \in 1..n}
  <2>5. m \in [1..n -> S]
    BY DEF n
  <2> HIDE DEF S
  <2>6. IsSeq(m) /\ Len(m) = n
    BY <2>1, <2>5, FunctionIsSeq
  <2>7. IsSeq(<<exit>>) /\ Len(<<exit>>) = 1
    <3>1. <<exit>> \in Seq({exit}) /\ Len(<<exit>>) = 1
      OBVIOUS
    <3>2. QED
      BY <3>1 DEF IsSeq
  <2>8. IsSeq(m \o <<exit>>) /\ Len(m \o <<exit>>) = n + 1
    BY <2>6, <2>7, ConcatIsSeq
  <2>9. \A i \in 1..Len(m) + Len(<<exit>>) :
          (m \o <<exit>>)[i] = IF i <= Len(m) THEN m[i] ELSE <<exit>>[i - Len(m)]
    BY <2>6, <2>7, ConcatElements
  <2>10. \A i \in 1..n + 1 : d[i] = (m \o <<exit>>)[i]
    <3> TAKE i \in 1..n + 1
    <3>1. i \in 1..Len(m) + Len(<<exit>>) /\ d[i] = Dispatch(cells[i])
      BY <2>2, <2>6, <2>7
    <3>2. CASE i = n + 1
      <4>1. ~(i <= Len(m)) /\ i - Len(m) = 1
        BY <2>1, <2>6, <3>2
      <4>2. (m \o <<exit>>)[i] = <<exit>>[1]
        BY <2>9, <3>1, <4>1
      <4>3. QED
        BY <2>4, <3>1, <3>2, <4>2
    <3>3. CASE i # n + 1
      <4>1. i \in 1..n /\ i <= Len(m)
        BY <2>1, <2>6, <3>3
      <4>2. (m \o <<exit>>)[i] = m[i]
        BY <2>9, <3>1, <4>1
      <4>3. m[i] = Meaning(code[i])
        BY <4>1 DEF n
      <4>4. QED
        BY <2>3, <3>1, <4>1, <4>2, <4>3
    <3>4. QED
      BY <3>2, <3>3
  <2>11. DOMAIN d = 1..n + 1
    BY <2>2
  <2> DEFINE e == m \o <<exit>>
  <2>12. PICK E : e \in Seq(E)
    BY <2>8 DEF IsSeq
  <2> HIDE DEF d, m, exit, e
  <2>13. DOMAIN e = 1..n + 1 /\ e = [i \in 1..n + 1 |-> e[i]]
    BY <2>1, <2>8, <2>12 DEF e
  <2>14. d = [i \in 1..n + 1 |-> d[i]]
    BY <2>11 DEF d
  <2>15. d = e
    BY <2>10, <2>13, <2>14 DEF e
  <2>16. QED
    BY <2>15 DEF d, m, exit, e
<1>2. QED
  BY CodecAlways, <1>1, PTL
=============================================================================
