---------------------------- MODULE Packet_proofs ----------------------------
(***************************************************************************)
(* Theorems about Packet, for all sessions, sequence numbers and payloads: *)
(* parse understands what was encoded, and accepts nothing else, whatever  *)
(* crc32 computes; the table computes CRC-32; and damage in one burst, of  *)
(* however long a packet, does not get past it.                            *)
(***************************************************************************)
EXTENDS Packet, FiniteSetTheorems, WellFoundedInduction, TLAPS

Bytes == SUBSET ByteBits

-----------------------------------------------------------------------------
(* Words *)

\* The bits of a word are those of its bytes.
LEMMA WordOfBytes ==
  ASSUME NEW len \in Nat, NEW value \in SUBSET (0 .. 8 * len - 1)
  PROVE  from_be_bytes(to_be_bytes(value, len)) = value
<1> DEFINE bytes == to_be_bytes(value, len)
<1>1. /\ bytes = [k \in 1 .. len |-> {i \in ByteBits : i + 8 * (len - k) \in value}]
      /\ DOMAIN bytes = 1 .. len /\ Len(bytes) = len
  BY DEF to_be_bytes
<1> HIDE DEF bytes
<1>2. ASSUME NEW x \in from_be_bytes(bytes) PROVE x \in value
  <2>1. PICK k \in 1 .. len : x \in {i + 8 * (len - k) : i \in bytes[k]}
    BY <1>1 DEF from_be_bytes
  <2>2. PICK i \in bytes[k] : x = i + 8 * (len - k)
    BY <2>1
  <2> QED BY <1>1, <2>2
<1>3. ASSUME NEW x \in value PROVE x \in from_be_bytes(bytes)
  <2> DEFINE k == len - x \div 8
             i == x % 8
  <2>1. /\ x \in 0 .. 8 * len - 1
        /\ i \in 0 .. 7 /\ x \div 8 \in Int /\ x = i + 8 * (x \div 8)
        /\ x \div 8 >= 0 /\ x \div 8 <= len - 1
    OBVIOUS
  <2>2. k \in 1 .. len /\ len - k = x \div 8
    BY <2>1
  <2> HIDE DEF k, i
  <2>3. x = i + 8 * (len - k)
    BY <2>1, <2>2
  <2>4. i \in bytes[k]
    BY <1>1, <2>1, <2>2, <2>3 DEF ByteBits
  <2>5. x \in {j + 8 * (len - k) : j \in bytes[k]}
    BY <2>3, <2>4
  <2> QED BY <1>1, <2>2, <2>5 DEF from_be_bytes
<1> QED BY <1>2, <1>3 DEF bytes

\* And its bytes are those it was read from.
LEMMA BytesOfWord ==
  ASSUME NEW bytes \in Seq(Bytes)
  PROVE  to_be_bytes(from_be_bytes(bytes), Len(bytes)) = bytes
<1> DEFINE len == Len(bytes)
           value == from_be_bytes(bytes)
<1>1. len \in Nat /\ DOMAIN bytes = 1 .. len /\ \A k \in 1 .. len : bytes[k] \subseteq 0 .. 7
  BY DEF Bytes, ByteBits
<1>2. ASSUME NEW k \in 1 .. len
      PROVE  {i \in ByteBits : i + 8 * (len - k) \in value} = bytes[k]
  <2>1. ASSUME NEW i \in ByteBits, i + 8 * (len - k) \in value PROVE i \in bytes[k]
    <3>1. PICK m \in 1 .. len : i + 8 * (len - k) \in {j + 8 * (len - m) : j \in bytes[m]}
      BY <1>1, <2>1 DEF from_be_bytes
    <3>2. PICK j \in bytes[m] : i + 8 * (len - k) = j + 8 * (len - m)
      BY <3>1
    <3>3. j \in 0 .. 7 /\ i \in 0 .. 7
      BY <1>1 DEF ByteBits
    <3> HIDE DEF len, value
    <3>4. k = m /\ i = j
      BY <1>1, <3>2, <3>3
    <3> QED BY <3>4
  <2>2. ASSUME NEW i \in bytes[k] PROVE i \in ByteBits /\ i + 8 * (len - k) \in value
    <3>1. i \in ByteBits
      BY <1>1 DEF ByteBits
    <3>2. i + 8 * (len - k) \in {j + 8 * (len - k) : j \in bytes[k]}
      OBVIOUS
    <3> QED BY <1>1, <3>1, <3>2 DEF from_be_bytes
  <2> QED BY <2>1, <2>2
<1>3. to_be_bytes(value, len) = [k \in 1 .. len |-> bytes[k]]
  BY <1>2 DEF to_be_bytes
<1> QED BY <1>1, <1>3

-----------------------------------------------------------------------------
(* Sequences put together and taken apart *)

\* The two parts of a sequence put together.
LEMMA Joined ==
  ASSUME NEW S, NEW a \in Seq(S), NEW b \in Seq(S)
  PROVE  /\ a \o b \in Seq(S) /\ Len(a \o b) = Len(a) + Len(b)
         /\ Len(a) \in Nat /\ Len(b) \in Nat
         /\ \A i \in 1 .. Len(a) : (a \o b)[i] = a[i]
         /\ \A i \in 1 .. Len(b) : (a \o b)[Len(a) + i] = b[i]
OBVIOUS

\* They are found again.
LEMMA Cut ==
  ASSUME NEW S, NEW a \in Seq(S), NEW b \in Seq(S)
  PROVE  /\ SubSeq(a \o b, 1, Len(a)) = a
         /\ SubSeq(a \o b, Len(a) + 1, Len(a) + Len(b)) = b
<1> DEFINE c == a \o b
           m == Len(a)
           n == Len(b)
<1>1. /\ c \in Seq(S) /\ Len(c) = m + n /\ m \in Nat /\ n \in Nat
      /\ \A i \in 1 .. m : c[i] = a[i]
      /\ \A i \in 1 .. n : c[m + i] = b[i]
  BY Joined
<1>2. a = [i \in 1 .. m |-> a[i]] /\ b = [i \in 1 .. n |-> b[i]]
  OBVIOUS
<1> HIDE DEF c, m, n
<1>3. SubSeq(c, 1, m) = [i \in 1 .. m |-> c[i]]
  BY <1>1
<1>4. SubSeq(c, m + 1, m + n) = [i \in 1 .. n |-> c[m + i]]
  <2>1. /\ m + n - (m + 1) + 1 = n
        /\ \A i \in 1 .. n : m + 1 + i - 1 = m + i
    BY <1>1
  <2>2. SubSeq(c, m + 1, m + n) =
          [i \in 1 .. m + n - (m + 1) + 1 |-> c[m + 1 + i - 1]]
    BY <1>1
  <2> QED BY <2>1, <2>2
<1>5. SubSeq(c, 1, m) = a
  BY <1>1, <1>2, <1>3
<1>6. SubSeq(c, m + 1, m + n) = b
  BY <1>1, <1>2, <1>4
<1> QED BY <1>5, <1>6 DEF c, m, n

\* A sequence is its first n elements and the rest.
Halves(S, s, n) ==
  /\ SubSeq(s, 1, n) \in Seq(S) /\ Len(SubSeq(s, 1, n)) = n
  /\ SubSeq(s, n + 1, Len(s)) \in Seq(S)
  /\ Len(SubSeq(s, n + 1, Len(s))) = Len(s) - n
  /\ s = SubSeq(s, 1, n) \o SubSeq(s, n + 1, Len(s))

\* Any sequence is, wherever it is cut.
LEMMA Rejoin ==
  ASSUME NEW S, NEW s \in Seq(S), NEW n \in 0 .. Len(s)
  PROVE  Halves(S, s, n)
<1> DEFINE a == SubSeq(s, 1, n)
           b == SubSeq(s, n + 1, Len(s))
           c == a \o b
<1>1. /\ a \in Seq(S) /\ Len(a) = n /\ \A i \in 1 .. n : a[i] = s[i]
      /\ n \in Nat /\ Len(s) \in Nat /\ n <= Len(s)
  OBVIOUS
<1>2. b \in Seq(S) /\ Len(b) = Len(s) - n /\ \A i \in 1 .. Len(s) - n : b[i] = s[n + i]
  OBVIOUS
<1> HIDE DEF a, b
<1>3. /\ c \in Seq(S) /\ Len(c) = Len(s)
      /\ \A i \in 1 .. Len(s) : c[i] = IF i <= n THEN a[i] ELSE b[i - n]
  BY <1>1, <1>2
<1> HIDE DEF c
<1>4. ASSUME NEW i \in 1 .. Len(s) PROVE c[i] = s[i]
  <2>1. CASE i <= n
    BY <1>1, <1>3, <2>1
  <2>2. CASE ~ (i <= n)
    <3> DEFINE j == i - n
    <3>1. j \in 1 .. Len(s) - n /\ n + j = i
      BY <1>1, <2>2
    <3>2. c[i] = b[j]
      BY <1>3, <2>2
    <3> HIDE DEF j
    <3> QED BY <1>2, <3>1, <3>2
  <2> QED BY <2>1, <2>2
<1>5. c = s
  BY <1>3, <1>4
<1> QED BY <1>1, <1>2, <1>5 DEF a, b, c, Halves

-----------------------------------------------------------------------------
(* The layout *)

\* Words have as many bytes as they are given.
LEMMA WordBytes ==
  ASSUME NEW value, NEW len \in Nat
  PROVE  to_be_bytes(value, len) \in Seq(Bytes) /\ Len(to_be_bytes(value, len)) = len
BY DEF to_be_bytes, Bytes

\* The checksum has 32 bits.
LEMMA ChecksumWidth ==
  ASSUME NEW data
  PROVE  crc32(data) \in SUBSET (0 .. 8 * CRC_LEN - 1)
BY DEF crc32, WordBits, CRC_LEN

\* A part of a beginning.
LEMMA Within ==
  ASSUME NEW S, NEW s \in Seq(S), NEW n \in 0 .. Len(s),
         NEW f \in 1 .. n + 1, NEW t \in 0 .. n
  PROVE  SubSeq(SubSeq(s, 1, n), f, t) = SubSeq(s, f, t)
OBVIOUS

\* Where the four parts of a body are found.
LEMMA Laid ==
  ASSUME NEW S, NEW k \in Seq(S), NEW a \in Seq(S), NEW b \in Seq(S), NEW p \in Seq(S),
         NEW body, body = ((k \o a) \o b) \o p
  PROVE  /\ body \in Seq(S) /\ Len(body) = Len(k) + Len(a) + Len(b) + Len(p)
         /\ SubSeq(body, 1, Len(k)) = k
         /\ SubSeq(body, Len(k) + 1, Len(k) + Len(a)) = a
         /\ SubSeq(body, Len(k) + Len(a) + 1, Len(k) + Len(a) + Len(b)) = b
         /\ SubSeq(body, Len(k) + Len(a) + Len(b) + 1, Len(body)) = p
<1> DEFINE c == k \o a
           d == c \o b
<1>1. c \in Seq(S) /\ Len(c) = Len(k) + Len(a)
  BY Joined
<1>2. SubSeq(c, 1, Len(k)) = k /\ SubSeq(c, Len(k) + 1, Len(k) + Len(a)) = a
  BY Cut
<1> HIDE DEF c
<1>3. d \in Seq(S) /\ Len(d) = Len(c) + Len(b)
  BY <1>1, Joined
<1>4. SubSeq(d, 1, Len(c)) = c /\ SubSeq(d, Len(c) + 1, Len(c) + Len(b)) = b
  BY <1>1, Cut
<1>5. body = d \o p
  BY DEF d, c
<1> HIDE DEF d
<1>6. body \in Seq(S) /\ Len(body) = Len(d) + Len(p)
  BY <1>3, <1>5, Joined
<1>7. SubSeq(body, 1, Len(d)) = d /\ SubSeq(body, Len(d) + 1, Len(d) + Len(p)) = p
  BY <1>3, <1>5, Cut
<1> DEFINE lk == Len(k)
           lc == Len(c)
           ld == Len(d)
<1>8. /\ lk \in Nat /\ lc \in Nat /\ ld \in Nat
      /\ lk <= lc /\ lc <= ld /\ ld <= Len(body)
      /\ lk + Len(a) = lc /\ lc + Len(b) = ld /\ ld + Len(p) = Len(body)
  BY <1>1, <1>3, <1>6
<1>9. SubSeq(d, 1, lc) = c /\ SubSeq(body, 1, ld) = d
  BY <1>4, <1>7
<1> HIDE DEF lk, lc, ld
<1>10. \A f \in 1 .. ld + 1, t \in 0 .. ld : SubSeq(d, f, t) = SubSeq(body, f, t)
  <2>1. ld \in 0 .. Len(body)
    BY <1>6, <1>8
  <2> QED BY <1>6, <1>9, <2>1, Within
<1>11. \A f \in 1 .. lc + 1, t \in 0 .. lc : SubSeq(c, f, t) = SubSeq(body, f, t)
  <2>1. \A f \in 1 .. lc + 1, t \in 0 .. lc : SubSeq(c, f, t) = SubSeq(d, f, t)
    <3>1. lc \in 0 .. Len(d)
      BY <1>8 DEF ld
    <3> QED BY <1>3, <1>9, <3>1, Within
  <2>2. \A f \in 1 .. lc + 1, t \in 0 .. lc : f \in 1 .. ld + 1 /\ t \in 0 .. ld
    BY <1>8
  <2> QED BY <1>10, <2>1, <2>2
<1>12. SubSeq(body, 1, lk) = k /\ SubSeq(body, lk + 1, lc) = a
  <2>1. SubSeq(c, 1, lk) = k /\ SubSeq(c, lk + 1, lc) = a
    BY <1>1, <1>2 DEF lk, lc
  <2>2. 1 \in 1 .. lc + 1 /\ lk \in 0 .. lc /\ lk + 1 \in 1 .. lc + 1 /\ lc \in 0 .. lc
    BY <1>8
  <2> QED BY <1>11, <2>1, <2>2
<1>13. SubSeq(body, lc + 1, ld) = b
  <2>1. SubSeq(d, lc + 1, ld) = b
    BY <1>3, <1>4 DEF lc, ld
  <2>2. lc + 1 \in 1 .. ld + 1 /\ ld \in 0 .. ld
    BY <1>8
  <2> QED BY <1>10, <2>1, <2>2
<1>14. SubSeq(body, ld + 1, Len(body)) = p
  BY <1>6, <1>7 DEF ld
<1> QED BY <1>1, <1>3, <1>6, <1>12, <1>13, <1>14 DEF lk, lc, ld

\* A sequence is the four parts that end at l, m, n and its end.
Parts(S, s, l, m, n) ==
  /\ SubSeq(s, 1, l) \in Seq(S) /\ Len(SubSeq(s, 1, l)) = l
  /\ SubSeq(s, l + 1, m) \in Seq(S) /\ Len(SubSeq(s, l + 1, m)) = m - l
  /\ SubSeq(s, m + 1, n) \in Seq(S) /\ Len(SubSeq(s, m + 1, n)) = n - m
  /\ SubSeq(s, n + 1, Len(s)) \in Seq(S)
  /\ s = ((SubSeq(s, 1, l) \o SubSeq(s, l + 1, m)) \o SubSeq(s, m + 1, n))
            \o SubSeq(s, n + 1, Len(s))

\* Any sequence is, wherever it is cut.
LEMMA Quartered ==
  ASSUME NEW S, NEW s \in Seq(S), NEW l \in Nat, NEW m \in Nat, NEW n \in Nat,
         l <= m, m <= n, n <= Len(s)
  PROVE  Parts(S, s, l, m, n)
<1> DEFINE d == SubSeq(s, 1, n)
           c == SubSeq(s, 1, m)
<1>1. Len(s) \in Nat
  OBVIOUS
<1>2. /\ n \in 0 .. Len(s) /\ m \in 0 .. n /\ l \in 0 .. m /\ m \in 0 .. Len(s)
      /\ l \in 0 .. Len(s) /\ 1 \in 1 .. n + 1 /\ 1 \in 1 .. m + 1
      /\ m + 1 \in 1 .. n + 1 /\ l + 1 \in 1 .. m + 1
      /\ n \in 0 .. n /\ m \in 0 .. m
  BY <1>1
<1>3. d \in Seq(S) /\ Len(d) = n /\ s = d \o SubSeq(s, n + 1, Len(s))
      /\ SubSeq(s, n + 1, Len(s)) \in Seq(S)
  <2>1. Halves(S, s, n)
    BY <1>2, Rejoin
  <2> QED BY <2>1 DEF Halves
<1>4. c \in Seq(S) /\ Len(c) = m
  <2>1. Halves(S, s, m)
    BY <1>2, Rejoin
  <2> QED BY <2>1 DEF Halves
<1>5. SubSeq(d, 1, m) = c /\ SubSeq(d, m + 1, n) = SubSeq(s, m + 1, n)
  BY <1>2, Within
<1>6. SubSeq(c, 1, l) = SubSeq(s, 1, l) /\ SubSeq(c, l + 1, m) = SubSeq(s, l + 1, m)
  BY <1>2, Within
<1> HIDE DEF c, d
<1>7. /\ d = SubSeq(d, 1, m) \o SubSeq(d, m + 1, n)
      /\ SubSeq(d, m + 1, n) \in Seq(S) /\ Len(SubSeq(d, m + 1, n)) = n - m
  <2>1. Halves(S, d, m)
    BY <1>2, <1>3, Rejoin
  <2> QED BY <1>3, <2>1, Zenon DEF Halves
<1>8. /\ c = SubSeq(c, 1, l) \o SubSeq(c, l + 1, m)
      /\ SubSeq(c, 1, l) \in Seq(S) /\ Len(SubSeq(c, 1, l)) = l
      /\ SubSeq(c, l + 1, m) \in Seq(S) /\ Len(SubSeq(c, l + 1, m)) = m - l
  <2>1. Halves(S, c, l)
    BY <1>2, <1>4, Rejoin
  <2> QED BY <1>4, <2>1, Zenon DEF Halves
<1> QED BY <1>3, <1>5, <1>6, <1>7, <1>8 DEF Parts

\* The fields that parse finds in a body.
Holds(body, kind, session, seq, payload) ==
  /\ body \in Seq(Bytes) /\ Len(body) = HEADER_LEN + Len(payload)
  /\ body[1] = kind
  /\ from_be_bytes(SubSeq(body, 2, 9)) = session
  /\ from_be_bytes(SubSeq(body, 10, HEADER_LEN)) = seq
  /\ SubSeq(body, HEADER_LEN + 1, Len(body)) = payload

\* They are those it was made of.
LEMMA Fields ==
  ASSUME NEW kind \in Bytes, NEW session \in SUBSET (0 .. 63), NEW seq \in SUBSET (0 .. 31),
         NEW payload \in Seq(Bytes),
         NEW body, body = header(kind, session, seq) \o payload
  PROVE  Holds(body, kind, session, seq, payload)
<1> DEFINE k == <<kind>>
           a == to_be_bytes(session, 8)
           b == to_be_bytes(seq, 4)
<1>1. session \in SUBSET (0 .. 8 * 8 - 1) /\ seq \in SUBSET (0 .. 8 * 4 - 1)
  OBVIOUS
<1>2. a \in Seq(Bytes) /\ Len(a) = 8 /\ from_be_bytes(a) = session
  BY <1>1, WordBytes, WordOfBytes
<1>3. b \in Seq(Bytes) /\ Len(b) = 4 /\ from_be_bytes(b) = seq
  BY <1>1, WordBytes, WordOfBytes
<1>4. k \in Seq(Bytes) /\ Len(k) = 1 /\ k[1] = kind
  OBVIOUS
<1>5. body = ((k \o a) \o b) \o payload
  BY DEF header
<1>6. a \in Seq(Bytes) /\ b \in Seq(Bytes) /\ k \in Seq(Bytes)
  BY <1>2, <1>3, <1>4
<1> HIDE DEF k, a, b
<1>7. /\ body \in Seq(Bytes) /\ Len(body) = Len(k) + Len(a) + Len(b) + Len(payload)
      /\ SubSeq(body, 1, Len(k)) = k
      /\ SubSeq(body, Len(k) + 1, Len(k) + Len(a)) = a
      /\ SubSeq(body, Len(k) + Len(a) + 1, Len(k) + Len(a) + Len(b)) = b
      /\ SubSeq(body, Len(k) + Len(a) + Len(b) + 1, Len(body)) = payload
  BY <1>5, <1>6, Laid
<1>8. /\ Len(k) + 1 = 2 /\ Len(k) + Len(a) = 9 /\ Len(k) + Len(a) + 1 = 10
      /\ Len(k) + Len(a) + Len(b) = 13 /\ Len(k) + Len(a) + Len(b) + 1 = 14
  BY <1>2, <1>3, <1>4
<1>9. SubSeq(body, 2, 9) = a /\ SubSeq(body, 10, 13) = b /\ SubSeq(body, 14, Len(body)) = payload
  BY <1>7, <1>8
<1>10. Len(body) = 13 + Len(payload)
  BY <1>7, <1>8
<1>11. body[1] = kind
  <2>1. SubSeq(body, 1, 1) = k
    BY <1>4, <1>7
  <2>2. 1 <= Len(body) /\ body \in Seq(Bytes)
    BY <1>7, <1>10
  <2>3. SubSeq(body, 1, 1)[1] = body[1]
    BY <2>2
  <2>4. k[1] = kind
    BY <1>4
  <2> QED BY <2>1, <2>3, <2>4, Zenon
<1>12. HEADER_LEN = 13 /\ HEADER_LEN + 1 = 14
  BY DEF HEADER_LEN
<1>13. body \in Seq(Bytes) /\ from_be_bytes(a) = session /\ from_be_bytes(b) = seq
  BY <1>2, <1>3, <1>7
<1> QED BY <1>9, <1>10, <1>11, <1>12, <1>13, Zenon DEF Holds

\* A body is the header that is read from it and the rest.
LEMMA BodyIs ==
  ASSUME NEW body \in Seq(Bytes), Len(body) >= HEADER_LEN
  PROVE  /\ SubSeq(body, HEADER_LEN + 1, Len(body)) \in Seq(Bytes)
         /\ body = header(body[1], from_be_bytes(SubSeq(body, 2, 9)),
                          from_be_bytes(SubSeq(body, 10, HEADER_LEN)))
                     \o SubSeq(body, HEADER_LEN + 1, Len(body))
<1> DEFINE a == SubSeq(body, 2, 9)
           b == SubSeq(body, 10, 13)
           rest == SubSeq(body, 14, Len(body))
<1>1. Len(body) \in Nat /\ Len(body) >= 13
  BY DEF HEADER_LEN
<1>2. /\ SubSeq(body, 1, 1) \in Seq(Bytes)
      /\ a \in Seq(Bytes) /\ Len(a) = 8
      /\ b \in Seq(Bytes) /\ Len(b) = 4
      /\ rest \in Seq(Bytes)
      /\ body = ((SubSeq(body, 1, 1) \o a) \o b) \o rest
  <2>1. 1 <= 9 /\ 9 <= 13 /\ 13 <= Len(body) /\ 1 \in Nat /\ 9 \in Nat /\ 13 \in Nat
    BY <1>1
  <2>2. Parts(Bytes, body, 1, 9, 13)
    BY <2>1, Quartered
  <2>3. /\ SubSeq(body, 1, 1) \in Seq(Bytes)
        /\ SubSeq(body, 1 + 1, 9) \in Seq(Bytes) /\ Len(SubSeq(body, 1 + 1, 9)) = 9 - 1
        /\ SubSeq(body, 9 + 1, 13) \in Seq(Bytes) /\ Len(SubSeq(body, 9 + 1, 13)) = 13 - 9
        /\ SubSeq(body, 13 + 1, Len(body)) \in Seq(Bytes)
        /\ body = ((SubSeq(body, 1, 1) \o SubSeq(body, 1 + 1, 9)) \o SubSeq(body, 9 + 1, 13))
                    \o SubSeq(body, 13 + 1, Len(body))
    BY <2>2 DEF Parts
  <2>4. 1 + 1 = 2 /\ 9 + 1 = 10 /\ 13 + 1 = 14 /\ 9 - 1 = 8 /\ 13 - 9 = 4
    OBVIOUS
  <2> QED BY <2>3, <2>4
<1>3. SubSeq(body, 1, 1) = <<body[1]>>
  <2>1. SubSeq(body, 1, 1) = [i \in 1 .. 1 |-> body[i]]
    BY <1>1
  <2>2. <<body[1]>> = [i \in 1 .. 1 |-> body[1]]
    OBVIOUS
  <2>3. [i \in 1 .. 1 |-> body[i]] = [i \in 1 .. 1 |-> body[1]]
    OBVIOUS
  <2> QED BY <2>1, <2>2, <2>3
<1> HIDE DEF a, b, rest
<1>4. to_be_bytes(from_be_bytes(a), 8) = a /\ to_be_bytes(from_be_bytes(b), 4) = b
  <2>1. to_be_bytes(from_be_bytes(a), Len(a)) = a /\ to_be_bytes(from_be_bytes(b), Len(b)) = b
    BY <1>2, BytesOfWord
  <2> QED BY <1>2, <2>1
<1>5. header(body[1], from_be_bytes(a), from_be_bytes(b)) = (SubSeq(body, 1, 1) \o a) \o b
  BY <1>3, <1>4 DEF header
<1>6. /\ rest \in Seq(Bytes)
      /\ body = header(body[1], from_be_bytes(a), from_be_bytes(b)) \o rest
  BY <1>2, <1>5
<1>7. HEADER_LEN = 13 /\ HEADER_LEN + 1 = 14
  BY DEF HEADER_LEN
<1> QED BY <1>6, <1>7, Zenon DEF rest, a, b

-----------------------------------------------------------------------------
(* The seal *)

\* What the seal adds is found behind what it was put on.
LEMMA Sealed ==
  ASSUME NEW body \in Seq(Bytes), NEW s, s = seal(body)
  PROVE  /\ s \in Seq(Bytes) /\ Len(s) = Len(body) + CRC_LEN
         /\ SubSeq(s, 1, Len(s) - CRC_LEN) = body
         /\ from_be_bytes(SubSeq(s, Len(s) - CRC_LEN + 1, Len(s))) = crc32(body)
<1> DEFINE c == to_be_bytes(crc32(body), CRC_LEN)
<1>1. CRC_LEN \in Nat
  BY DEF CRC_LEN
<1>2. c \in Seq(Bytes) /\ Len(c) = CRC_LEN
  BY <1>1, WordBytes
<1>3. from_be_bytes(c) = crc32(body)
  BY <1>1, ChecksumWidth, WordOfBytes
<1>4. s = body \o c
  BY DEF seal
<1> HIDE DEF c
<1>5. s \in Seq(Bytes) /\ Len(s) = Len(body) + Len(c) /\ Len(body) \in Nat
  BY <1>2, <1>4, Joined
<1>6. SubSeq(s, 1, Len(body)) = body /\ SubSeq(s, Len(body) + 1, Len(body) + Len(c)) = c
  BY <1>2, <1>4, Cut
<1>7. Len(s) = Len(body) + CRC_LEN /\ Len(s) - CRC_LEN = Len(body)
  BY <1>1, <1>2, <1>5
<1>8. SubSeq(s, Len(s) - CRC_LEN + 1, Len(s)) = c
  BY <1>2, <1>6, <1>7
<1> QED BY <1>3, <1>5, <1>6, <1>7, <1>8

\* Where the checksum agrees, the bytes are those seal would have made.
LEMMA Opened ==
  ASSUME NEW s \in Seq(Bytes), Len(s) >= OVERHEAD,
         NEW body, body = SubSeq(s, 1, Len(s) - CRC_LEN),
         crc32(body) = from_be_bytes(SubSeq(s, Len(s) - CRC_LEN + 1, Len(s)))
  PROVE  /\ s = seal(body)
         /\ body \in Seq(Bytes) /\ Len(body) = Len(s) - CRC_LEN /\ Len(body) >= HEADER_LEN
<1> DEFINE cut == Len(s) - CRC_LEN
           c == SubSeq(s, cut + 1, Len(s))
<1>1. /\ Len(s) \in Nat /\ cut \in 0 .. Len(s) /\ Len(s) - cut = CRC_LEN
      /\ cut >= HEADER_LEN
  BY DEF OVERHEAD, HEADER_LEN, CRC_LEN
<1> HIDE DEF cut
<1>2. /\ SubSeq(s, 1, cut) \in Seq(Bytes) /\ Len(SubSeq(s, 1, cut)) = cut
      /\ c \in Seq(Bytes) /\ Len(c) = Len(s) - cut
      /\ s = SubSeq(s, 1, cut) \o c
  <2>1. Halves(Bytes, s, cut)
    BY <1>1, Rejoin
  <2> QED BY <2>1, Zenon DEF Halves
<1>3. body = SubSeq(s, 1, cut) /\ crc32(body) = from_be_bytes(c)
  BY DEF cut
<1> HIDE DEF c
<1>4. to_be_bytes(from_be_bytes(c), Len(c)) = c
  BY <1>2, BytesOfWord
<1>5. to_be_bytes(crc32(body), CRC_LEN) = c
  BY <1>1, <1>2, <1>3, <1>4, Zenon
<1>6. s = seal(body)
  BY <1>2, <1>3, <1>5, Zenon DEF seal
<1> QED BY <1>1, <1>2, <1>3, <1>6, Zenon DEF cut

-----------------------------------------------------------------------------
(* parse *)

\* An empty payload adds nothing to a header.
LEMMA BareHeader ==
  ASSUME NEW kind \in Bytes, NEW session, NEW seq
  PROVE  /\ header(kind, session, seq) \in Seq(Bytes)
         /\ header(kind, session, seq) \o <<>> = header(kind, session, seq)
<1> DEFINE k == <<kind>>
           a == to_be_bytes(session, 8)
           b == to_be_bytes(seq, 4)
<1>1. k \in Seq(Bytes)
  OBVIOUS
<1>2. a \in Seq(Bytes) /\ b \in Seq(Bytes)
  BY WordBytes
<1>3. header(kind, session, seq) = (k \o a) \o b
  BY DEF header
<1> HIDE DEF k, a, b
<1>4. (k \o a) \o b \in Seq(Bytes)
  BY <1>1, <1>2
<1>5. \A s \in Seq(Bytes) : s \o <<>> = s
  OBVIOUS
<1> QED BY <1>3, <1>4, <1>5, Zenon

\* What is sealed behind a header is read field by field.
LEMMA Parsed ==
  ASSUME NEW kind \in Bytes, NEW session \in SUBSET (0 .. 63), NEW seq \in SUBSET (0 .. 31),
         NEW payload \in Seq(Bytes),
         NEW s, s = seal(header(kind, session, seq) \o payload)
  PROVE  /\ s \in Seq(Bytes) /\ s # <<>>
         /\ parse(s) = Accept(kind, session, seq, payload)
<1> DEFINE body == header(kind, session, seq) \o payload
           cut == Len(s) - CRC_LEN
<1>1. Holds(body, kind, session, seq, payload)
  BY Fields
<1>2. s = seal(body)
  OBVIOUS
<1> HIDE DEF body
<1>3. /\ s \in Seq(Bytes) /\ Len(s) = Len(body) + CRC_LEN
      /\ SubSeq(s, 1, cut) = body
      /\ from_be_bytes(SubSeq(s, cut + 1, Len(s))) = crc32(body)
  BY <1>1, <1>2, Sealed DEF Holds
<1>4. Len(payload) \in Nat
  OBVIOUS
<1>5. cut = Len(body) /\ Len(s) >= OVERHEAD /\ ~ (Len(s) < OVERHEAD) /\ Len(s) # 0
  BY <1>1, <1>3, <1>4 DEF Holds, OVERHEAD, HEADER_LEN, CRC_LEN
<1>6. s # <<>>
  BY <1>5
<1> HIDE DEF cut
<1>7. parse(s) = Accept(body[1], from_be_bytes(SubSeq(body, 2, 9)),
                        from_be_bytes(SubSeq(body, 10, HEADER_LEN)),
                        SubSeq(body, HEADER_LEN + 1, cut))
  BY <1>3, <1>5, Zenon DEF parse, cut
<1> QED BY <1>1, <1>3, <1>5, <1>6, <1>7, Zenon DEF Holds

\* What encode_data made is understood.
LEMMA ParseData ==
  ASSUME NEW session \in SUBSET (0 .. 63), NEW seq \in SUBSET (0 .. 31),
         NEW payload \in Seq(Bytes) \ {<<>>}
  PROVE  /\ encode_data(session, seq, payload) \in Seq(Bytes) \ {<<>>}
         /\ parse(encode_data(session, seq, payload)) = Data(session, seq, payload)
<1>1. KIND_DATA \in Bytes
  BY DEF KIND_DATA, Bytes, ByteBits
<1>2. /\ encode_data(session, seq, payload) \in Seq(Bytes) \ {<<>>}
      /\ parse(encode_data(session, seq, payload)) = Accept(KIND_DATA, session, seq, payload)
  BY <1>1, Parsed DEF encode_data
<1> QED BY <1>2 DEF Accept

\* What encode_ack made is understood.
LEMMA ParseAck ==
  ASSUME NEW session \in SUBSET (0 .. 63), NEW seq \in SUBSET (0 .. 31)
  PROVE  /\ encode_ack(session, seq) \in Seq(Bytes) \ {<<>>}
         /\ parse(encode_ack(session, seq)) = Ack(session, seq)
<1>1. KIND_ACK \in Bytes /\ KIND_ACK # KIND_DATA
  <2>1. KIND_ACK \in Bytes
    BY DEF KIND_ACK, Bytes, ByteBits
  <2>2. 1 \in KIND_ACK /\ 1 \notin KIND_DATA
    BY DEF KIND_ACK, KIND_DATA
  <2> QED BY <2>1, <2>2
<1>2. encode_ack(session, seq) = seal(header(KIND_ACK, session, seq) \o <<>>)
  BY <1>1, BareHeader DEF encode_ack
<1>3. <<>> \in Seq(Bytes)
  OBVIOUS
<1>4. /\ encode_ack(session, seq) \in Seq(Bytes) \ {<<>>}
      /\ parse(encode_ack(session, seq)) = Accept(KIND_ACK, session, seq, <<>>)
  <2>1. /\ seal(header(KIND_ACK, session, seq) \o <<>>) \in Seq(Bytes)
        /\ seal(header(KIND_ACK, session, seq) \o <<>>) # <<>>
        /\ parse(seal(header(KIND_ACK, session, seq) \o <<>>))
              = Accept(KIND_ACK, session, seq, <<>>)
    <3> DEFINE s == seal(header(KIND_ACK, session, seq) \o <<>>)
    <3>1. s = seal(header(KIND_ACK, session, seq) \o <<>>)
      OBVIOUS
    <3> HIDE DEF s
    <3>2. /\ s \in Seq(Bytes) /\ s # <<>>
          /\ parse(s) = Accept(KIND_ACK, session, seq, <<>>)
      BY <1>1, <1>3, <3>1, Parsed
    <3> QED BY <3>1, <3>2, Zenon
  <2> QED BY <1>2, <2>1, Zenon
<1> QED BY <1>1, <1>4 DEF Accept

\* What parse takes is what seal makes of a header and a payload.
LEMMA Taken ==
  ASSUME NEW s \in Seq(Bytes), parse(s) # Nothing
  PROVE  \E kind \in Bytes, payload \in Seq(Bytes) : \E session, seq :
            /\ s = seal(header(kind, session, seq) \o payload)
            /\ parse(s) = Accept(kind, session, seq, payload)
<1> DEFINE cut == Len(s) - CRC_LEN
           body == SubSeq(s, 1, cut)
<1>1. /\ ~ (Len(s) < OVERHEAD)
      /\ crc32(body) = from_be_bytes(SubSeq(s, cut + 1, Len(s)))
      /\ parse(s) = Accept(body[1], from_be_bytes(SubSeq(body, 2, 9)),
                           from_be_bytes(SubSeq(body, 10, HEADER_LEN)),
                           SubSeq(body, HEADER_LEN + 1, cut))
  BY Zenon DEF parse
<1>2. Len(s) >= OVERHEAD
  BY <1>1 DEF OVERHEAD, HEADER_LEN, CRC_LEN
<1>3. /\ s = seal(body) /\ body \in Seq(Bytes) /\ Len(body) = cut
      /\ Len(body) >= HEADER_LEN
  BY <1>1, <1>2, Opened
<1> HIDE DEF body, cut
<1>4. /\ SubSeq(body, HEADER_LEN + 1, Len(body)) \in Seq(Bytes)
      /\ body = header(body[1], from_be_bytes(SubSeq(body, 2, 9)),
                       from_be_bytes(SubSeq(body, 10, HEADER_LEN)))
                  \o SubSeq(body, HEADER_LEN + 1, Len(body))
  BY <1>3, BodyIs
<1>5. body[1] \in Bytes
  BY <1>3 DEF HEADER_LEN
<1>6. parse(s) = Accept(body[1], from_be_bytes(SubSeq(body, 2, 9)),
                        from_be_bytes(SubSeq(body, 10, HEADER_LEN)),
                        SubSeq(body, HEADER_LEN + 1, Len(body)))
  BY <1>1, <1>3, Zenon
<1>7. s = seal(header(body[1], from_be_bytes(SubSeq(body, 2, 9)),
                      from_be_bytes(SubSeq(body, 10, HEADER_LEN)))
                 \o SubSeq(body, HEADER_LEN + 1, Len(body)))
  BY <1>3, <1>4, Zenon
<1> QED BY <1>4, <1>5, <1>6, <1>7, Zenon

-----------------------------------------------------------------------------
(* The packet under way *)

\* parse answers with a packet that the encoders would have written so.
LEMMA Canonical ==
  ASSUME NEW s \in Seq(Bytes), parse(s) # Nothing
  PROVE  \/ \E session, seq : \E payload \in Seq(Bytes) \ {<<>>} :
                /\ parse(s) = Data(session, seq, payload)
                /\ s = encode_data(session, seq, payload)
         \/ \E session, seq :
                /\ parse(s) = Ack(session, seq)
                /\ s = encode_ack(session, seq)
<1>1. PICK kind \in Bytes, payload \in Seq(Bytes) : \E session, seq :
         /\ s = seal(header(kind, session, seq) \o payload)
         /\ parse(s) = Accept(kind, session, seq, payload)
  BY Taken
<1>2. PICK session, seq :
         /\ s = seal(header(kind, session, seq) \o payload)
         /\ parse(s) = Accept(kind, session, seq, payload)
  BY <1>1
<1>3. CASE kind = KIND_DATA /\ payload # <<>>
  <2>1. parse(s) = Data(session, seq, payload)
    BY <1>2, <1>3 DEF Accept
  <2>2. s = encode_data(session, seq, payload)
    BY <1>2, <1>3 DEF encode_data
  <2> QED BY <1>3, <2>1, <2>2
<1>4. CASE kind = KIND_ACK /\ payload = <<>>
  <2>1. KIND_ACK # KIND_DATA
    <3>1. 1 \in KIND_ACK /\ 1 \notin KIND_DATA
      BY DEF KIND_ACK, KIND_DATA
    <3> QED BY <3>1
  <2>2. parse(s) = Ack(session, seq)
    BY <1>2, <1>4, <2>1 DEF Accept
  <2>3. header(kind, session, seq) \o payload = header(KIND_ACK, session, seq)
    BY <1>4, BareHeader, Zenon
  <2>4. s = encode_ack(session, seq)
    BY <1>2, <2>3 DEF encode_ack
  <2> QED BY <2>2, <2>4
<1>5. CASE ~ (kind = KIND_DATA /\ payload # <<>>) /\ ~ (kind = KIND_ACK /\ payload = <<>>)
  <2>1. parse(s) = Nothing
    BY <1>2, <1>5 DEF Accept
  <2> QED BY <2>1
<1> QED BY <1>3, <1>4, <1>5

\* What Understood needs to be inductive: the bytes are bytes, what was
\* received was made of them, and while there are none nothing was sent, so
\* that no other software seals its own in place of a packet.
PacketInv ==
  /\ decoded \in Seq(Bytes)
  /\ received = parse(decoded)
  /\ sent = Nothing \/ decoded # <<>>
  /\ Understood

\* Nothing is nothing.
LEMMA InitPacket == Init => PacketInv
<1> SUFFICES ASSUME Init PROVE PacketInv
  OBVIOUS
<1>1. decoded = <<>> /\ sent = Nothing /\ received = Nothing
  BY DEF Init
<1>2. decoded \in Seq(Bytes) /\ Len(decoded) < OVERHEAD
  BY <1>1 DEF OVERHEAD, HEADER_LEN, CRC_LEN
<1>3. parse(decoded) = Nothing
  BY <1>2, Zenon DEF parse
<1> QED BY <1>1, <1>2, <1>3 DEF PacketInv, Understood

\* A flipped bit leaves bytes.
LEMMA FlipBytes ==
  ASSUME NEW s \in Seq(Bytes), NEW bit \in 0 .. 8 * Len(s) - 1,
         NEW t, t = [s EXCEPT ![bit \div 8 + 1] = SymDiff(@, {bit % 8})]
  PROVE  t \in Seq(Bytes) /\ (s # <<>> => t # <<>>)
<1> DEFINE k == bit \div 8 + 1
           b == bit % 8
<1>1. Len(s) \in Nat /\ k \in 1 .. Len(s) /\ b \in 0 .. 7
  OBVIOUS
<1> HIDE DEF k, b
<1>2. s[k] \in Bytes
  BY <1>1
<1>3. SymDiff(s[k], {b}) \in Bytes
  BY <1>1, <1>2 DEF Bytes, ByteBits, SymDiff
<1>4. t = [s EXCEPT ![k] = SymDiff(s[k], {b})]
  BY DEF k, b
<1> QED BY <1>1, <1>3, <1>4

\* Every step keeps it.
LEMMA NextPacket == PacketInv /\ [Next]_vars => PacketInv'
<1> SUFFICES ASSUME PacketInv, [Next]_vars PROVE PacketInv'
  OBVIOUS
<1>1. CASE EncodeData
  <2>1. PICK session \in Sessions, seq \in Seqs, payload \in Payloads :
           /\ sent' = Data(session, seq, payload)
           /\ Arrive(encode_data(session, seq, payload))
    BY <1>1 DEF EncodeData
  <2>2. /\ session \in SUBSET (0 .. 63) /\ seq \in SUBSET (0 .. 31)
        /\ payload \in Seq(Bytes) \ {<<>>}
    BY PacketAssumption DEF Bytes, ByteBits
  <2>3. /\ encode_data(session, seq, payload) \in Seq(Bytes) \ {<<>>}
        /\ parse(encode_data(session, seq, payload)) = Data(session, seq, payload)
    BY <2>2, ParseData
  <2> QED BY <2>1, <2>3 DEF PacketInv, Understood, Arrive
<1>2. CASE EncodeAck
  <2>1. PICK session \in Sessions, seq \in Seqs :
           /\ sent' = Ack(session, seq)
           /\ Arrive(encode_ack(session, seq))
    BY <1>2 DEF EncodeAck
  <2>2. session \in SUBSET (0 .. 63) /\ seq \in SUBSET (0 .. 31)
    BY PacketAssumption
  <2>3. /\ encode_ack(session, seq) \in Seq(Bytes) \ {<<>>}
        /\ parse(encode_ack(session, seq)) = Ack(session, seq)
    BY <2>2, ParseAck
  <2> QED BY <2>1, <2>3 DEF PacketInv, Understood, Arrive
<1>3. CASE SealOther
  <2>1. PICK body \in Bodies : Arrive(seal(body))
    BY <1>3 DEF SealOther
  <2>2. body \in Seq(Bytes)
    BY PacketAssumption DEF Bytes, ByteBits
  <2>3. seal(body) \in Seq(Bytes)
    BY <2>2, Sealed
  <2>4. sent = Nothing /\ sent' = Nothing
    BY <1>3 DEF SealOther, PacketInv
  <2> QED BY <2>1, <2>3, <2>4 DEF PacketInv, Understood, Arrive
<1>4. CASE Flip
  <2>1. PICK bit \in 0 .. 8 * Len(decoded) - 1 :
           /\ flips' = flips \cup {bit}
           /\ Arrive([decoded EXCEPT ![bit \div 8 + 1] = SymDiff(@, {bit % 8})])
    BY <1>4 DEF Flip
  <2>2. /\ sent # Nothing /\ sent' = sent /\ flips' # {}
        /\ decoded \in Seq(Bytes) /\ decoded # <<>>
    BY <1>4, <2>1 DEF Flip, PacketInv
  <2>3. /\ decoded' = [decoded EXCEPT ![bit \div 8 + 1] = SymDiff(@, {bit % 8})]
        /\ received' = parse([decoded EXCEPT ![bit \div 8 + 1] = SymDiff(@, {bit % 8})])
    BY <2>1 DEF Arrive
  <2>4. decoded' \in Seq(Bytes) /\ decoded' # <<>>
    BY <2>2, <2>3, FlipBytes
  <2>5. received' = parse(decoded')
    BY <2>3, Zenon
  <2> QED BY <2>2, <2>4, <2>5 DEF PacketInv, Understood
<1>5. CASE UNCHANGED vars
  BY <1>5 DEF PacketInv, Understood, vars
<1> QED BY <1>1, <1>2, <1>3, <1>4, <1>5 DEF Next

\* What is received is canonical.
LEMMA PacketCanonical == PacketInv => CanonicalOnly
<1> SUFFICES ASSUME PacketInv PROVE CanonicalOnly
  OBVIOUS
<1>1. decoded \in Seq(Bytes) /\ received = parse(decoded)
  BY DEF PacketInv
<1>2. CASE received = Nothing
  BY <1>2 DEF CanonicalOnly, Nothing
<1>3. CASE received # Nothing
  <2>1. CASE \E session, seq : \E payload \in Seq(Bytes) \ {<<>>} :
                /\ received = Data(session, seq, payload)
                /\ decoded = encode_data(session, seq, payload)
    BY <2>1 DEF CanonicalOnly, Data
  <2>2. CASE \E session, seq :
                /\ received = Ack(session, seq)
                /\ decoded = encode_ack(session, seq)
    BY <2>2 DEF CanonicalOnly, Ack
  <2> QED BY <1>1, <1>3, <2>1, <2>2, Canonical
<1> QED BY <1>2, <1>3

\* Whatever the session, the sequence number and the payload, and whatever
\* crc32 computes over them, parse gives back every field that encode_data and
\* encode_ack laid down.
THEOREM EncodedIsUnderstood == Spec => []Understood
<1>1. Init => PacketInv
  BY InitPacket
<1>2. PacketInv /\ [Next]_vars => PacketInv'
  BY NextPacket
<1>3. PacketInv => Understood
  BY DEF PacketInv
<1> QED BY <1>1, <1>2, <1>3, PTL DEF Spec

\* Whatever bytes arrive, those of other software and damaged ones included,
\* parse takes nothing but an exact encoding of what it answers: no DATA
\* without payload, no ACK with one, no other kind.
THEOREM OnlyEncodingsAreTaken == Spec => []CanonicalOnly
<1>1. Init => PacketInv
  BY InitPacket
<1>2. PacketInv /\ [Next]_vars => PacketInv'
  BY NextPacket
<1>3. PacketInv => CanonicalOnly
  BY PacketCanonical
<1> QED BY <1>1, <1>2, <1>3, PTL DEF Spec

-----------------------------------------------------------------------------
(* Recursive functions of a number *)

\* A nonempty set of numbers has a least one.
LEMMA Least ==
  ASSUME NEW T \in SUBSET Nat, T # {}
  PROVE  \E m \in T : \A n \in T : m <= n
<1> DEFINE Less == OpToRel(<, Nat)
<1>1. \A x, y \in Nat : x < y => <<x, y>> \in Less
  BY DEF OpToRel
<1>2. \E m \in T : \A n \in T : <<n, m>> \notin Less
  <2> HIDE DEF Less
  <2>1. IsWellFoundedOn(Less, Nat)
    BY NatLessThanWellFounded DEF Less
  <2> QED BY <2>1, WFMin
<1>3. PICK m \in T : \A n \in T : <<n, m>> \notin Less
  BY <1>2
<1>4. ASSUME NEW n \in T PROVE m <= n
  <2> HIDE DEF Less
  <2>1. m \in Nat /\ n \in Nat /\ <<n, m>> \notin Less
    BY <1>3
  <2>2. ~ (n < m)
    BY <1>1, <2>1
  <2> QED BY <2>1, <2>2
<1> QED BY <1>4

\* A set with m that has each number's successor too goes up to n.
LEMMA Upwards ==
  ASSUME NEW T, NEW m \in Nat, NEW n \in Nat, m \in T,
         \A k \in m .. n : k \in T /\ k # n => k + 1 \in T
  PROVE  \A k \in m .. n : k \in T
<1> DEFINE Missing == {k \in m .. n : k \notin T}
<1>1. ASSUME Missing # {} PROVE FALSE
  <2>1. Missing \in SUBSET Nat
    OBVIOUS
  <2>2. PICK k \in Missing : \A i \in Missing : k <= i
    <3> HIDE DEF Missing
    <3> QED BY <1>1, <2>1, Least
  <2>3. k \in m .. n /\ k \notin T /\ k # m
    BY <2>2
  <2>4. k - 1 \in m .. n /\ ~ (k <= k - 1) /\ k - 1 # n /\ k - 1 + 1 = k
    BY <2>3
  <2>5. k - 1 \in T
    BY <2>2, <2>4
  <2> QED BY <2>3, <2>4, <2>5
<1> QED BY <1>1

\* f begins with v and takes m steps of G.
Goes(f, v, m, G) == f[0] = v /\ \A k \in 1 .. m : f[k] = G[k][f[k - 1]]

\* There is a function that takes all the steps there are.
LEMMA Steps ==
  ASSUME NEW V, NEW v \in V, NEW n \in Nat, NEW G \in [1 .. n -> [V -> V]]
  PROVE  \E f \in [0 .. n -> V] : Goes(f, v, n, G)
<1> DEFINE T == {m \in 0 .. n : \E f \in [0 .. n -> V] : Goes(f, v, m, G)}
<1>1. 0 \in T
  <2> DEFINE f == [k \in 0 .. n |-> v]
  <2>1. f \in [0 .. n -> V] /\ Goes(f, v, 0, G) /\ 0 \in 0 .. n
    BY DEF Goes
  <2> HIDE DEF f
  <2> QED BY <2>1
<1>2. ASSUME NEW m \in 0 .. n, m \in T, m # n PROVE m + 1 \in T
  <2>1. PICK f \in [0 .. n -> V] : Goes(f, v, m, G)
    BY <1>2
  <2>2. m + 1 \in 1 .. n /\ m \in 0 .. n /\ m + 1 - 1 = m /\ m + 1 # 0
    BY <1>2
  <2> DEFINE x == G[m + 1][f[m]]
             g == [k \in 0 .. n |-> IF k = m + 1 THEN x ELSE f[k]]
  <2>3. x \in V
    <3>1. f[m] \in V /\ G[m + 1] \in [V -> V]
      BY <2>1, <2>2
    <3> QED BY <3>1
  <2>4. g[m + 1] = x /\ \A k \in 0 .. n : k # m + 1 => g[k] = f[k]
    BY <2>2
  <2>5. g \in [0 .. n -> V]
    BY <2>1, <2>3
  <2> HIDE DEF g
  <2>6. ASSUME NEW k \in 1 .. m + 1 PROVE g[k] = G[k][g[k - 1]]
    <3>1. CASE k = m + 1
      BY <2>2, <2>4, <3>1
    <3>2. CASE k # m + 1
      <4>1. k \in 1 .. m /\ k \in 0 .. n /\ k - 1 \in 0 .. n /\ k - 1 # m + 1
        BY <2>2, <3>2
      <4> QED BY <2>1, <2>4, <3>2, <4>1 DEF Goes
    <3> QED BY <3>1, <3>2
  <2>7. g[0] = v
    BY <2>1, <2>2, <2>4 DEF Goes
  <2>8. Goes(g, v, m + 1, G)
    BY <2>6, <2>7 DEF Goes
  <2>9. m + 1 \in 0 .. n
    BY <2>2
  <2> QED BY <2>5, <2>8, <2>9
<1>3. n \in T
  <2> HIDE DEF T
  <2>1. 0 \in Nat /\ \A k \in 0 .. n : k \in T /\ k # n => k + 1 \in T
    BY <1>2
  <2>2. \A k \in 0 .. n : k \in T
    BY <1>1, <2>1, Upwards
  <2> QED BY <2>2
<1> QED BY <1>3

-----------------------------------------------------------------------------
(* The register *)

Words == SUBSET WordBits

\* A bit of what is left of a word.
LEMMA ShrIs ==
  ASSUME NEW x \in Words, NEW n \in Nat
  PROVE  /\ Shr(x, n) \in Words
         /\ \A i \in Nat : i \in Shr(x, n) <=> i + n \in x
<1>1. x \subseteq 0 .. 31
  BY DEF Words, WordBits
<1>2. ASSUME NEW i \in Shr(x, n) PROVE i \in 0 .. 31 /\ i + n \in x
  <2>1. PICK j \in x : j >= n /\ i = j - n
    BY DEF Shr
  <2> QED BY <1>1, <2>1
<1>3. ASSUME NEW i \in Nat, i + n \in x PROVE i \in Shr(x, n)
  <2>1. i + n >= n /\ i + n - n = i
    OBVIOUS
  <2> QED BY <1>3, <2>1 DEF Shr
<1> QED BY <1>2, <1>3 DEF Words, WordBits

LEMMA SymDiffIs ==
  /\ \A A, B : \A x : x \in SymDiff(A, B) <=> ~ (x \in A <=> x \in B)
  /\ \A A, B \in Words : SymDiff(A, B) \in Words
BY DEF SymDiff, Words

LEMMA WordsEqual ==
  ASSUME NEW x \in Words, NEW y \in Words, \A i \in Nat : i \in x <=> i \in y
  PROVE  x = y
<1>1. x \subseteq Nat /\ y \subseteq Nat
  BY DEF Words, WordBits
<1>2. \A i : i \in x <=> i \in y
  BY <1>1
<1> QED BY <1>2

\* A shift by one more, and the shift of a difference.
LEMMA Shifts ==
  ASSUME NEW x \in Words, NEW y \in Words, NEW n \in Nat
  PROVE  /\ Shr(x, n + 1) = Shr(Shr(x, n), 1)
         /\ Shr(SymDiff(x, y), 1) = SymDiff(Shr(x, 1), Shr(y, 1))
         /\ Shr(x, 0) = x
<1>1. /\ Shr(x, n) \in Words /\ Shr(x, n + 1) \in Words /\ Shr(Shr(x, n), 1) \in Words
      /\ Shr(x, 0) \in Words /\ Shr(x, 1) \in Words /\ Shr(y, 1) \in Words
      /\ SymDiff(x, y) \in Words /\ Shr(SymDiff(x, y), 1) \in Words
  <2>1. n + 1 \in Nat /\ 0 \in Nat /\ 1 \in Nat
    OBVIOUS
  <2>2. Shr(x, n) \in Words /\ SymDiff(x, y) \in Words
    BY ShrIs, SymDiffIs
  <2> QED BY <2>1, <2>2, ShrIs
<1>3. ASSUME NEW i \in Nat PROVE i \in Shr(x, n + 1) <=> i \in Shr(Shr(x, n), 1)
  <2>1. i + (n + 1) = (i + 1) + n /\ i + 1 \in Nat /\ n + 1 \in Nat
    OBVIOUS
  <2>2. i \in Shr(x, n + 1) <=> i + (n + 1) \in x
    BY <2>1, ShrIs
  <2>3. i \in Shr(Shr(x, n), 1) <=> i + 1 \in Shr(x, n)
    BY <1>1, ShrIs
  <2>4. i + 1 \in Shr(x, n) <=> (i + 1) + n \in x
    BY <2>1, ShrIs
  <2> QED BY <2>1, <2>2, <2>3, <2>4
<1>4. ASSUME NEW i \in Nat
      PROVE  i \in Shr(SymDiff(x, y), 1) <=> i \in SymDiff(Shr(x, 1), Shr(y, 1))
  <2>1. i \in Shr(SymDiff(x, y), 1) <=> i + 1 \in SymDiff(x, y)
    BY <1>1, ShrIs
  <2>2. (i \in Shr(x, 1) <=> i + 1 \in x) /\ (i \in Shr(y, 1) <=> i + 1 \in y)
    BY ShrIs
  <2>3. i + 1 \in SymDiff(x, y) <=> ~ (i + 1 \in x <=> i + 1 \in y)
    BY DEF SymDiff
  <2>4. i \in SymDiff(Shr(x, 1), Shr(y, 1))
          <=> ~ (i \in Shr(x, 1) <=> i \in Shr(y, 1))
    BY DEF SymDiff
  <2> QED BY <2>1, <2>2, <2>3, <2>4
<1>5. ASSUME NEW i \in Nat PROVE i \in Shr(x, 0) <=> i \in x
  <2>1. i + 0 = i /\ 0 \in Nat
    OBVIOUS
  <2>2. i \in Shr(x, 0) <=> i + 0 \in x
    BY <2>1, ShrIs
  <2> QED BY <2>1, <2>2
<1>6. Shr(x, n + 1) = Shr(Shr(x, n), 1)
  BY <1>1, <1>3, WordsEqual
<1>7. Shr(SymDiff(x, y), 1) = SymDiff(Shr(x, 1), Shr(y, 1))
  <2>1. SymDiff(Shr(x, 1), Shr(y, 1)) \in Words
    BY <1>1, SymDiffIs
  <2> QED BY <1>1, <1>4, <2>1, WordsEqual
<1>8. Shr(x, 0) = x
  BY <1>1, <1>5, WordsEqual
<1> QED BY <1>6, <1>7, <1>8

LEMMA PolynomialIs == Polynomial \in Words /\ 31 \in Polynomial
BY DEF Polynomial, Words, WordBits

LEMMA DivideType == \A w \in Words : Divide(w) \in Words
BY ShrIs, SymDiffIs, PolynomialIs DEF Divide

\* One step of the register that takes in a bit.
Take(reg, bit) ==
  SymDiff(Shr(reg, 1), IF (0 \in reg) # bit THEN Polynomial ELSE {})

LEMMA TakeType == \A w \in Words : \A bit : Take(w, bit) \in Words
<1> SUFFICES ASSUME NEW w \in Words, NEW bit PROVE Take(w, bit) \in Words
  OBVIOUS
<1> DEFINE q == IF (0 \in w) # bit THEN Polynomial ELSE {}
<1>1. {} \in Words
  BY DEF Words
<1>2. q = Polynomial \/ q = {}
  BY Zenon
<1>3. Take(w, bit) = SymDiff(Shr(w, 1), q)
  BY Zenon DEF Take
<1> HIDE DEF q
<1>4. q \in Words /\ Shr(w, 1) \in Words
  BY <1>1, <1>2, ShrIs, PolynomialIs
<1> QED BY <1>3, <1>4, SymDiffIs

\* The steps of an entry of the table.
LEMMA EntrySteps ==
  ASSUME NEW byte \in Words, NEW n \in Nat
  PROVE  \E e \in [0 .. n -> Words] :
           /\ Entry(byte, n) = e[n]
           /\ e[0] = byte
           /\ \A k \in 1 .. n : e[k] = Divide(e[k - 1])
<1> DEFINE G == [k \in 1 .. n |-> [w \in Words |-> Divide(w)]]
           P(f) == f = [k \in 0 .. n |-> IF k = 0 THEN byte ELSE Divide(f[k - 1])]
           e == CHOOSE f : P(f)
<1>1. G \in [1 .. n -> [Words -> Words]]
  BY DivideType
<1>2. PICK f \in [0 .. n -> Words] : Goes(f, byte, n, G)
  <2> HIDE DEF G
  <2> QED BY <1>1, Steps
<1>3. P(f)
  <2>1. f[0] = byte /\ \A k \in 1 .. n : f[k] = G[k][f[k - 1]]
    BY <1>2 DEF Goes
  <2>2. ASSUME NEW k \in 0 .. n
        PROVE  f[k] = IF k = 0 THEN byte ELSE Divide(f[k - 1])
    <3>1. CASE k # 0
      <4>1. k \in 1 .. n /\ k - 1 \in 0 .. n /\ f[k - 1] \in Words
        BY <1>2, <3>1
      <4>2. G[k][f[k - 1]] = Divide(f[k - 1])
        BY <4>1
      <4> HIDE DEF G
      <4> QED BY <2>1, <3>1, <4>1, <4>2
    <3> QED BY <2>1, <3>1
  <2>3. f = [k \in 0 .. n |-> f[k]]
    BY <1>2
  <2> HIDE DEF G
  <2> QED BY <2>2, <2>3
<1>4. Entry(byte, n) = e[n]
  BY Zenon DEF Entry
<1> HIDE DEF P
<1>5. P(e)
  BY <1>3, Zenon
<1> HIDE DEF e
<1>6. e = [k \in 0 .. n |-> IF k = 0 THEN byte ELSE Divide(e[k - 1])]
  BY <1>5 DEF P
<1>7. e[0] = byte /\ \A k \in 1 .. n : e[k] = Divide(e[k - 1])
  <2>1. 0 \in 0 .. n /\ \A k \in 1 .. n : k \in 0 .. n /\ k # 0
    OBVIOUS
  <2> QED BY <1>6, <2>1
<1>8. \A k \in 0 .. n : e[k] \in Words
  <2> DEFINE T == {k \in 0 .. n : e[k] \in Words}
  <2>1. 0 \in T
    BY <1>7
  <2>2. ASSUME NEW k \in 0 .. n, k \in T, k # n PROVE k + 1 \in T
    <3>1. k + 1 \in 1 .. n /\ k + 1 \in 0 .. n /\ k + 1 - 1 = k /\ e[k] \in Words
      BY <2>2
    <3>2. e[k + 1] = Divide(e[k])
      BY <1>7, <3>1
    <3> QED BY <3>1, <3>2, DivideType
  <2>3. \A k \in 0 .. n : k \in T
    <3> HIDE DEF T
    <3> QED BY <2>1, <2>2, Upwards
  <2> QED BY <2>3
<1>9. e \in [0 .. n -> Words]
  <2>1. DOMAIN e = 0 .. n /\ e = [k \in DOMAIN e |-> e[k]]
    BY <1>6
  <2> QED BY <1>8, <2>1
<1> QED BY <1>4, <1>7, <1>9

\* The steps of the register that takes in a byte.
LEMMA SerialSteps ==
  ASSUME NEW crc \in Words, NEW byte \in Bytes
  PROVE  \E r \in [0 .. 8 -> Words] :
           /\ Serial(crc, byte) = r[8]
           /\ r[0] = crc
           /\ \A k \in 1 .. 8 : r[k] = Take(r[k - 1], k - 1 \in byte)
<1> DEFINE G == [k \in 1 .. 8 |-> [w \in Words |-> Take(w, k - 1 \in byte)]]
           P(f) == f = [k \in 0 .. 8 |-> IF k = 0 THEN crc
                                         ELSE Take(f[k - 1], k - 1 \in byte)]
           r == CHOOSE f : P(f)
<1>1. G \in [1 .. 8 -> [Words -> Words]]
  <2>1. ASSUME NEW k \in 1 .. 8
        PROVE  [w \in Words |-> Take(w, k - 1 \in byte)] \in [Words -> Words]
    <3>1. \A w \in Words : Take(w, k - 1 \in byte) \in Words
      BY TakeType, Zenon
    <3> QED BY <3>1
  <2> QED BY <2>1
<1>2. PICK f \in [0 .. 8 -> Words] : Goes(f, crc, 8, G)
  <2> HIDE DEF G
  <2>1. 8 \in Nat
    OBVIOUS
  <2> QED BY <1>1, <2>1, Steps
<1>3. P(f)
  <2>1. f[0] = crc /\ \A k \in 1 .. 8 : f[k] = G[k][f[k - 1]]
    BY <1>2 DEF Goes
  <2>2. ASSUME NEW k \in 0 .. 8
        PROVE  f[k] = IF k = 0 THEN crc ELSE Take(f[k - 1], k - 1 \in byte)
    <3>1. CASE k # 0
      <4>1. k \in 1 .. 8 /\ k - 1 \in 0 .. 8 /\ f[k - 1] \in Words
        BY <1>2, <3>1
      <4>2. G[k][f[k - 1]] = Take(f[k - 1], k - 1 \in byte)
        BY <4>1
      <4> HIDE DEF G
      <4> QED BY <2>1, <3>1, <4>1, <4>2
    <3> QED BY <2>1, <3>1
  <2>3. f = [k \in 0 .. 8 |-> f[k]]
    BY <1>2
  <2> HIDE DEF G
  <2> QED BY <2>2, <2>3
<1>4. Serial(crc, byte) = r[8]
  BY Zenon DEF Serial, Take
<1> HIDE DEF P
<1>5. P(r)
  BY <1>3, Zenon
<1> HIDE DEF r
<1>6. r = [k \in 0 .. 8 |-> IF k = 0 THEN crc ELSE Take(r[k - 1], k - 1 \in byte)]
  BY <1>5 DEF P
<1>7. r[0] = crc /\ \A k \in 1 .. 8 : r[k] = Take(r[k - 1], k - 1 \in byte)
  <2>1. 0 \in 0 .. 8 /\ \A k \in 1 .. 8 : k \in 0 .. 8 /\ k # 0
    OBVIOUS
  <2> QED BY <1>6, <2>1
<1>8. \A k \in 0 .. 8 : r[k] \in Words
  <2> DEFINE T == {k \in 0 .. 8 : r[k] \in Words}
  <2>1. 0 \in T
    BY <1>7
  <2>2. ASSUME NEW k \in 0 .. 8, k \in T, k # 8 PROVE k + 1 \in T
    <3>1. k + 1 \in 1 .. 8 /\ k + 1 \in 0 .. 8 /\ k + 1 - 1 = k /\ r[k] \in Words
      BY <2>2
    <3>2. r[k + 1] = Take(r[k], k \in byte)
      BY <1>7, <3>1
    <3> QED BY <3>1, <3>2, TakeType
  <2>3. \A k \in 0 .. 8 : k \in T
    <3> HIDE DEF T
    <3>1. 0 \in Nat /\ 8 \in Nat
      OBVIOUS
    <3> QED BY <2>1, <2>2, <3>1, Upwards
  <2> QED BY <2>3
<1>9. r \in [0 .. 8 -> Words]
  <2>1. DOMAIN r = 0 .. 8 /\ r = [k \in DOMAIN r |-> r[k]]
    BY <1>6
  <2> QED BY <1>8, <2>1
<1> QED BY <1>4, <1>7, <1>9

-----------------------------------------------------------------------------
(* The table *)

\* A register that takes in a bit does what an entry does that has taken it in
\* before; the bits that neither looks at are shifted out.
LEMMA OneBit ==
  ASSUME NEW e \in Words, NEW w \in Words, NEW bit \in BOOLEAN, 0 \in w <=> bit
  PROVE  Take(SymDiff(e, w), bit) = SymDiff(Divide(e), Shr(w, 1))
<1> DEFINE x == Shr(e, 1)
           y == Shr(w, 1)
<1>1. Shr(SymDiff(e, w), 1) = SymDiff(x, y)
  <2>1. 1 \in Nat
    OBVIOUS
  <2> QED BY <2>1, Shifts
<1>2. ((0 \in SymDiff(e, w)) # bit) <=> 0 \in e
  BY DEF SymDiff
<1> HIDE DEF x, y
<1>3. CASE 0 \in e
  <2>1. Take(SymDiff(e, w), bit) = SymDiff(SymDiff(x, y), Polynomial)
    BY <1>1, <1>2, <1>3, Zenon DEF Take
  <2>2. Divide(e) = SymDiff(x, Polynomial)
    BY <1>3, Zenon DEF Divide, x
  <2>3. SymDiff(SymDiff(x, y), Polynomial) = SymDiff(SymDiff(x, Polynomial), y)
    BY DEF SymDiff
  <2> QED BY <2>1, <2>2, <2>3, Zenon DEF y
<1>4. CASE 0 \notin e
  <2>1. Take(SymDiff(e, w), bit) = SymDiff(SymDiff(x, y), {})
    BY <1>1, <1>2, <1>4, Zenon DEF Take
  <2>2. Divide(e) = x
    BY <1>4, Zenon DEF Divide, x
  <2>3. SymDiff(SymDiff(x, y), {}) = SymDiff(x, y)
    BY DEF SymDiff
  <2> QED BY <2>1, <2>2, <2>3, Zenon DEF y
<1> QED BY <1>3, <1>4

LEMMA ByteIsWord == Bytes \subseteq Words
BY DEF Bytes, Words, ByteBits, WordBits

\* Looking up one byte in the table is taking in its eight bits one after the
\* other, as CRC-32 is defined, whatever the register holds.
THEOREM TableIsSerial ==
  ASSUME NEW crc \in Words, NEW byte \in Bytes
  PROVE  Absorb(crc, byte) = Serial(crc, byte)
<1> DEFINE index == SymDiff(crc \cap ByteBits, byte)
           w == SymDiff(crc \ ByteBits, byte)
<1>1. index \in Bytes /\ index \in Words
  <2>1. index \in Bytes
    BY DEF SymDiff, Bytes
  <2> QED BY <2>1, ByteIsWord
<1>2. w \in Words /\ SymDiff(index, w) = crc
  <2>1. byte \in Words
    BY ByteIsWord
  <2>2. w \in Words
    BY <2>1 DEF SymDiff, Words
  <2>3. SymDiff(index, w) = crc
    BY DEF SymDiff
  <2> QED BY <2>2, <2>3
<1>3. \A k \in 0 .. 7 : k \in w <=> k \in byte
  BY DEF SymDiff, ByteBits
<1>4. Shr(w, 8) = Shr(crc, 8)
  <2>1. Shr(w, 8) \in Words /\ Shr(crc, 8) \in Words
    BY <1>2, ShrIs
  <2>2. ASSUME NEW i \in Nat PROVE i \in Shr(w, 8) <=> i \in Shr(crc, 8)
    <3>1. i \in Shr(w, 8) <=> i + 8 \in w
      BY <1>2, ShrIs
    <3>2. i \in Shr(crc, 8) <=> i + 8 \in crc
      BY ShrIs
    <3>3. i + 8 \notin ByteBits /\ i + 8 \notin byte
      BY DEF ByteBits, Bytes
    <3>4. i + 8 \in w <=> i + 8 \in crc
      BY <3>3 DEF SymDiff
    <3> QED BY <3>1, <3>2, <3>4
  <2> HIDE DEF w
  <2> QED BY <2>1, <2>2, WordsEqual
<1>5. Absorb(crc, byte) = SymDiff(Entry(index, 8), Shr(crc, 8))
  <2>1. CRC_TABLE[index] = Entry(index, 8)
    <3> HIDE DEF index
    <3> QED BY <1>1 DEF CRC_TABLE, Bytes
  <2> QED BY <2>1 DEF Absorb
<1> HIDE DEF index, w
<1>6. PICK e \in [0 .. 8 -> Words] :
        /\ Entry(index, 8) = e[8]
        /\ e[0] = index
        /\ \A k \in 1 .. 8 : e[k] = Divide(e[k - 1])
  <2>1. 8 \in Nat
    OBVIOUS
  <2> QED BY <1>1, <2>1, EntrySteps
<1>7. PICK r \in [0 .. 8 -> Words] :
        /\ Serial(crc, byte) = r[8]
        /\ r[0] = crc
        /\ \A k \in 1 .. 8 : r[k] = Take(r[k - 1], k - 1 \in byte)
  BY SerialSteps
<1> DEFINE T == {k \in 0 .. 8 : r[k] = SymDiff(e[k], Shr(w, k))}
<1>8. 0 \in T
  <2>1. Shr(w, 0) = w
    <3>1. 0 \in Nat
      OBVIOUS
    <3> QED BY <1>2, <3>1, Shifts
  <2>2. r[0] = SymDiff(e[0], Shr(w, 0))
    BY <1>2, <1>6, <1>7, <2>1, Zenon
  <2> QED BY <2>2
<1>9. ASSUME NEW k \in 0 .. 8, k \in T, k # 8 PROVE k + 1 \in T
  <2>1. /\ k \in 0 .. 7 /\ k + 1 \in 1 .. 8 /\ k + 1 \in 0 .. 8 /\ k + 1 - 1 = k
        /\ k \in Nat /\ 0 + k = k /\ 0 \in Nat
    BY <1>9
  <2>2. r[k] = SymDiff(e[k], Shr(w, k)) /\ e[k] \in Words
    BY <1>6, <1>9
  <2>3. Shr(w, k) \in Words /\ (0 \in Shr(w, k) <=> k \in byte)
    <3>1. 0 \in Shr(w, k) <=> 0 + k \in w
      BY <1>2, <2>1, ShrIs
    <3> QED BY <1>2, <1>3, <2>1, <3>1, ShrIs
  <2> DEFINE bit == k \in byte
             v == Shr(w, k)
  <2>4. bit \in BOOLEAN /\ v \in Words /\ (0 \in v <=> bit)
    BY <2>3
  <2>5. r[k + 1] = Take(SymDiff(e[k], v), bit)
    BY <1>7, <2>1, <2>2
  <2>6. Shr(w, k + 1) = Shr(v, 1)
    BY <1>2, <2>1, Shifts
  <2> HIDE DEF bit, v
  <2>7. Take(SymDiff(e[k], v), bit) = SymDiff(Divide(e[k]), Shr(v, 1))
    BY <2>2, <2>4, OneBit
  <2>8. e[k + 1] = Divide(e[k])
    BY <1>6, <2>1
  <2>9. r[k + 1] = SymDiff(e[k + 1], Shr(w, k + 1))
    BY <2>5, <2>6, <2>7, <2>8, Zenon
  <2> QED BY <2>1, <2>9
<1>10. \A k \in 0 .. 8 : k \in T
  <2> HIDE DEF T
  <2>1. 0 \in Nat /\ 8 \in Nat /\ \A k \in 0 .. 8 : k \in T /\ k # 8 => k + 1 \in T
    BY <1>9
  <2> QED BY <1>8, <2>1, Upwards
<1>11. r[8] = SymDiff(e[8], Shr(w, 8))
  <2>1. 8 \in T
    <3>1. 8 \in 0 .. 8
      OBVIOUS
    <3> HIDE DEF T
    <3> QED BY <1>10, <3>1
  <2> QED BY <2>1
<1> QED BY <1>4, <1>5, <1>6, <1>7, <1>11, Zenon

-----------------------------------------------------------------------------
(* What the checksum tells apart *)

\* The highest bit of the polynomial shows whether it was added, and the rest
\* is what was shifted.
LEMMA Unshift ==
  ASSUME NEW x \in Words, NEW y \in Words, NEW p \in BOOLEAN, NEW q \in BOOLEAN,
         SymDiff(Shr(x, 1), IF p THEN Polynomial ELSE {})
           = SymDiff(Shr(y, 1), IF q THEN Polynomial ELSE {})
  PROVE  (p <=> q) /\ Shr(x, 1) = Shr(y, 1)
<1>1. 31 \notin Shr(x, 1) /\ 31 \notin Shr(y, 1)
  <2>1. 31 + 1 \notin x /\ 31 + 1 \notin y /\ 31 \in Nat /\ 1 \in Nat
    BY DEF Words, WordBits
  <2> QED BY <2>1, ShrIs
<1>2. \A z : SymDiff(z, {}) = z
  BY DEF SymDiff
<1> DEFINE a == Shr(x, 1)
           b == Shr(y, 1)
<1> HIDE DEF a, b
<1>3. CASE p /\ q
  <2>1. SymDiff(a, Polynomial) = SymDiff(b, Polynomial)
    BY <1>3, Zenon DEF a, b
  <2>2. a = b
    BY <2>1 DEF SymDiff
  <2> QED BY <1>3, <2>2 DEF a, b
<1>4. CASE ~ p /\ ~ q
  <2>1. SymDiff(a, {}) = SymDiff(b, {})
    BY <1>4, Zenon DEF a, b
  <2> QED BY <1>2, <1>4, <2>1 DEF a, b
<1>5. CASE p /\ ~ q
  <2>1. SymDiff(a, Polynomial) = SymDiff(b, {})
    BY <1>5, Zenon DEF a, b
  <2>2. 31 \in SymDiff(a, Polynomial) /\ 31 \notin b
    BY <1>1, PolynomialIs DEF SymDiff, a, b
  <2> QED BY <1>2, <2>1, <2>2
<1>6. CASE ~ p /\ q
  <2>1. SymDiff(a, {}) = SymDiff(b, Polynomial)
    BY <1>6, Zenon DEF a, b
  <2>2. 31 \in SymDiff(b, Polynomial) /\ 31 \notin a
    BY <1>1, PolynomialIs DEF SymDiff, a, b
  <2> QED BY <1>2, <2>1, <2>2
<1> QED BY <1>3, <1>4, <1>5, <1>6

\* Nothing but the lowest bit is lost in a shift.
LEMMA SameWord ==
  ASSUME NEW x \in Words, NEW y \in Words, Shr(x, 1) = Shr(y, 1), 0 \in x <=> 0 \in y
  PROVE  x = y
<1>1. ASSUME NEW i \in Nat PROVE i \in x <=> i \in y
  <2>1. CASE i = 0
    BY <2>1
  <2>2. CASE i # 0
    <3>1. i - 1 \in Nat /\ i - 1 + 1 = i /\ 1 \in Nat
      BY <2>2
    <3>2. (i - 1 \in Shr(x, 1) <=> i - 1 + 1 \in x)
          /\ (i - 1 \in Shr(y, 1) <=> i - 1 + 1 \in y)
      BY <3>1, ShrIs
    <3> QED BY <3>1, <3>2
  <2> QED BY <2>1, <2>2
<1> QED BY <1>1, WordsEqual

LEMMA DivideInjective ==
  ASSUME NEW x \in Words, NEW y \in Words, Divide(x) = Divide(y)
  PROVE  x = y
<1> DEFINE p == 0 \in x
           q == 0 \in y
<1>1. \A z : SymDiff(z, {}) = z
  BY DEF SymDiff
<1>2. /\ Divide(x) = SymDiff(Shr(x, 1), IF p THEN Polynomial ELSE {})
      /\ Divide(y) = SymDiff(Shr(y, 1), IF q THEN Polynomial ELSE {})
  BY <1>1, Zenon DEF Divide
<1>3. p \in BOOLEAN /\ q \in BOOLEAN
  OBVIOUS
<1> HIDE DEF p, q
<1>4. (p <=> q) /\ Shr(x, 1) = Shr(y, 1)
  BY <1>2, <1>3, Unshift
<1> QED BY <1>4, SameWord DEF p, q

LEMMA TakeInjective ==
  ASSUME NEW x \in Words, NEW y \in Words, NEW bit \in BOOLEAN,
         Take(x, bit) = Take(y, bit)
  PROVE  x = y
<1> DEFINE p == (0 \in x) # bit
           q == (0 \in y) # bit
<1>1. /\ Take(x, bit) = SymDiff(Shr(x, 1), IF p THEN Polynomial ELSE {})
      /\ Take(y, bit) = SymDiff(Shr(y, 1), IF q THEN Polynomial ELSE {})
  BY Zenon DEF Take
<1>2. p \in BOOLEAN /\ q \in BOOLEAN /\ ((p <=> q) => (0 \in x <=> 0 \in y))
  OBVIOUS
<1> HIDE DEF p, q
<1>3. (p <=> q) /\ Shr(x, 1) = Shr(y, 1)
  BY <1>1, <1>2, Unshift
<1> QED BY <1>2, <1>3, SameWord

\* Two registers that differ at most in their lowest m bits.
Agree(x, y, m) == \A i \in Nat : i >= m => (i \in x <=> i \in y)

\* Two registers that agree but in their lowest bits after a step have shifted
\* out the same, and agreed before it but in one more.
LEMMA BackBit ==
  ASSUME NEW x \in Words, NEW y \in Words, NEW p \in BOOLEAN, NEW q \in BOOLEAN,
         NEW m \in 0 .. 31, Agree(Take(x, p), Take(y, q), m)
  PROVE  /\ ((0 \in x) # p) <=> ((0 \in y) # q)
         /\ Agree(x, y, m + 1)
<1> DEFINE a == (0 \in x) # p
           b == (0 \in y) # q
           A == IF a THEN Polynomial ELSE {}
           B == IF b THEN Polynomial ELSE {}
<1>1. Take(x, p) = SymDiff(Shr(x, 1), A) /\ Take(y, q) = SymDiff(Shr(y, 1), B)
  BY Zenon DEF Take
<1>2. a \in BOOLEAN /\ b \in BOOLEAN
  OBVIOUS
<1>3. (31 \in A <=> a) /\ (31 \in B <=> b) /\ ((a <=> b) => A = B)
  BY PolynomialIs
<1>4. 31 \notin Shr(x, 1) /\ 31 \notin Shr(y, 1)
  <2>1. 31 + 1 \notin x /\ 31 + 1 \notin y /\ 31 \in Nat /\ 1 \in Nat
    BY DEF Words, WordBits
  <2> QED BY <2>1, ShrIs
<1> HIDE DEF A, B, a, b
<1>5. a <=> b
  <2>1. 31 \in Take(x, p) <=> 31 \in Take(y, q)
    <3>1. 31 \in Nat /\ 31 >= m
      OBVIOUS
    <3> QED BY <3>1 DEF Agree
  <2>2. (31 \in Take(x, p) <=> 31 \in A) /\ (31 \in Take(y, q) <=> 31 \in B)
    BY <1>1, <1>4, SymDiffIs
  <2> QED BY <1>2, <1>3, <2>1, <2>2
<1>6. ASSUME NEW i \in Nat, i >= m + 1 PROVE i \in x <=> i \in y
  <2>1. i - 1 \in Nat /\ i - 1 >= m /\ i - 1 + 1 = i /\ 1 \in Nat
    BY <1>6
  <2>2. i - 1 \in Take(x, p) <=> i - 1 \in Take(y, q)
    BY <2>1 DEF Agree
  <2>3. i - 1 \in SymDiff(Shr(x, 1), A) <=> i - 1 \in SymDiff(Shr(y, 1), A)
    BY <1>1, <1>3, <1>5, <2>2, Zenon
  <2>4. i - 1 \in Shr(x, 1) <=> i - 1 \in Shr(y, 1)
    BY <2>3, SymDiffIs
  <2>5. (i - 1 \in Shr(x, 1) <=> i - 1 + 1 \in x)
        /\ (i - 1 \in Shr(y, 1) <=> i - 1 + 1 \in y)
    BY <2>1, ShrIs
  <2> QED BY <2>1, <2>4, <2>5
<1>7. Agree(x, y, m + 1)
  BY <1>6 DEF Agree
<1> QED BY <1>5, <1>7 DEF a, b

\* The same for a byte; and registers that were equal took in equal bytes.
LEMMA BackByte ==
  ASSUME NEW x \in Words, NEW y \in Words, NEW b \in Bytes, NEW c \in Bytes,
         NEW m \in 0 .. 24, Agree(Absorb(x, b), Absorb(y, c), m)
  PROVE  Agree(x, y, m + 8) /\ (x = y => b = c)
<1>1. PICK r \in [0 .. 8 -> Words] :
        /\ Serial(x, b) = r[8]
        /\ r[0] = x
        /\ \A k \in 1 .. 8 : r[k] = Take(r[k - 1], k - 1 \in b)
  BY SerialSteps
<1>2. PICK s \in [0 .. 8 -> Words] :
        /\ Serial(y, c) = s[8]
        /\ s[0] = y
        /\ \A k \in 1 .. 8 : s[k] = Take(s[k - 1], k - 1 \in c)
  BY SerialSteps
<1>3. Agree(r[8], s[8], m)
  BY <1>1, <1>2, TableIsSerial
<1>4. ASSUME NEW k \in 1 .. 8, NEW n \in 0 .. 31, Agree(r[k], s[k], n)
      PROVE  /\ ((0 \in r[k - 1]) # (k - 1 \in b)) <=> ((0 \in s[k - 1]) # (k - 1 \in c))
             /\ Agree(r[k - 1], s[k - 1], n + 1)
  <2> DEFINE u == r[k - 1]
             v == s[k - 1]
             p == k - 1 \in b
             q == k - 1 \in c
  <2>1. u \in Words /\ v \in Words /\ p \in BOOLEAN /\ q \in BOOLEAN
    <3>1. k - 1 \in 0 .. 8
      OBVIOUS
    <3> QED BY <1>1, <1>2, <3>1
  <2>2. r[k] = Take(u, p) /\ s[k] = Take(v, q)
    BY <1>1, <1>2
  <2> HIDE DEF u, v, p, q
  <2>3. Agree(Take(u, p), Take(v, q), n)
    BY <1>4, <2>2
  <2>4. (((0 \in u) # p) <=> ((0 \in v) # q)) /\ Agree(u, v, n + 1)
    BY <2>1, <2>3, BackBit
  <2> QED BY <2>4 DEF u, v, p, q
<1> DEFINE T == {k \in 0 .. 8 : Agree(r[8 - k], s[8 - k], m + k)}
<1>5. 0 \in T
  <2>1. 8 - 0 = 8 /\ m + 0 = m /\ 0 \in 0 .. 8
    OBVIOUS
  <2> QED BY <1>3, <2>1
<1>6. ASSUME NEW k \in 0 .. 8, k \in T, k # 8 PROVE k + 1 \in T
  <2>1. /\ 8 - k \in 1 .. 8 /\ m + k \in 0 .. 31 /\ 8 - k - 1 = 8 - (k + 1)
        /\ m + k + 1 = m + (k + 1) /\ k + 1 \in 0 .. 8
    BY <1>6
  <2>2. Agree(r[8 - k], s[8 - k], m + k)
    BY <1>6
  <2>3. Agree(r[8 - k - 1], s[8 - k - 1], m + k + 1)
    BY <1>4, <2>1, <2>2
  <2> QED BY <2>1, <2>3
<1>7. \A k \in 0 .. 8 : k \in T
  <2> HIDE DEF T
  <2>1. 0 \in Nat /\ 8 \in Nat /\ \A k \in 0 .. 8 : k \in T /\ k # 8 => k + 1 \in T
    BY <1>6
  <2> QED BY <1>5, <2>1, Upwards
<1>8. \A k \in 0 .. 8 : Agree(r[8 - k], s[8 - k], m + k)
  BY <1>7
<1> HIDE DEF T
<1>9. Agree(x, y, m + 8)
  <2>1. 8 \in 0 .. 8 /\ 8 - 8 = 0
    OBVIOUS
  <2>2. Agree(r[8 - 8], s[8 - 8], m + 8)
    BY <1>8, <2>1, Zenon
  <2> QED BY <1>1, <1>2, <2>1, <2>2
<1>10. ASSUME x = y PROVE b = c
  <2>1. ASSUME NEW k \in 0 .. 7, r[k] = s[k]
        PROVE  (k \in b <=> k \in c) /\ r[k + 1] = s[k + 1]
    <3>1. /\ k + 1 \in 1 .. 8 /\ k + 1 - 1 = k /\ 7 - k \in 0 .. 8
          /\ 8 - (7 - k) = k + 1 /\ m + (7 - k) \in 0 .. 31
      OBVIOUS
    <3>2. Agree(r[k + 1], s[k + 1], m + (7 - k))
      <4>1. Agree(r[8 - (7 - k)], s[8 - (7 - k)], m + (7 - k))
        BY <1>8, <3>1, Zenon
      <4> QED BY <3>1, <4>1
    <3>3. ((0 \in r[k]) # (k \in b)) <=> ((0 \in s[k]) # (k \in c))
      <4>1. ((0 \in r[k + 1 - 1]) # (k + 1 - 1 \in b))
              <=> ((0 \in s[k + 1 - 1]) # (k + 1 - 1 \in c))
        BY <1>4, <3>1, <3>2
      <4> QED BY <3>1, <4>1
    <3>4. k \in b <=> k \in c
      BY <2>1, <3>3
    <3>5. r[k + 1] = Take(r[k], k \in b) /\ s[k + 1] = Take(s[k], k \in c)
      <4>1. r[k + 1] = Take(r[k + 1 - 1], k + 1 - 1 \in b)
        BY <1>1, <3>1
      <4>2. s[k + 1] = Take(s[k + 1 - 1], k + 1 - 1 \in c)
        BY <1>2, <3>1
      <4> QED BY <3>1, <4>1, <4>2
    <3> DEFINE p == k \in b
               q == k \in c
    <3>6. p = q
      BY <3>4
    <3> HIDE DEF p, q
    <3>7. Take(r[k], p) = Take(s[k], q)
      BY <2>1, <3>6
    <3> QED BY <3>4, <3>5, <3>7 DEF p, q
  <2> DEFINE E == {k \in 0 .. 8 : r[k] = s[k]}
  <2>2. 0 \in E
    BY <1>1, <1>2, <1>10
  <2>3. ASSUME NEW k \in 0 .. 8, k \in E, k # 8 PROVE k + 1 \in E
    <3>1. k \in 0 .. 7 /\ r[k] = s[k] /\ k + 1 \in 0 .. 8
      BY <2>3
    <3>2. r[k + 1] = s[k + 1]
      BY <2>1, <3>1
    <3> QED BY <3>1, <3>2
  <2>4. \A k \in 0 .. 8 : k \in E
    <3> HIDE DEF E
    <3>1. 0 \in Nat /\ 8 \in Nat /\ \A k \in 0 .. 8 : k \in E /\ k # 8 => k + 1 \in E
      BY <2>3
    <3> QED BY <2>2, <3>1, Upwards
  <2>5. \A k \in 0 .. 7 : k \in b <=> k \in c
    <3>1. \A k \in 0 .. 7 : k \in 0 .. 8
      OBVIOUS
    <3>2. \A k \in 0 .. 7 : r[k] = s[k]
      BY <2>4, <3>1
    <3> QED BY <2>1, <3>2
  <2>6. \A k : k \in b \/ k \in c => k \in 0 .. 7
    BY DEF Bytes, ByteBits
  <2>7. \A k : k \in b <=> k \in c
    BY <2>5, <2>6
  <2> QED BY <2>7
<1> QED BY <1>9, <1>10

LEMMA AbsorbType == \A x \in Words, b \in Bytes : Absorb(x, b) \in Words
<1> SUFFICES ASSUME NEW x \in Words, NEW b \in Bytes PROVE Absorb(x, b) \in Words
  OBVIOUS
<1>1. PICK r \in [0 .. 8 -> Words] :
        /\ Serial(x, b) = r[8]
        /\ r[0] = x
        /\ \A k \in 1 .. 8 : r[k] = Take(r[k - 1], k - 1 \in b)
  BY SerialSteps
<1>2. 8 \in 0 .. 8
  OBVIOUS
<1> QED BY <1>1, <1>2, TableIsSerial

\* No byte makes different registers equal.
LEMMA AbsorbInjective ==
  ASSUME NEW x \in Words, NEW y \in Words, NEW b \in Bytes, Absorb(x, b) = Absorb(y, b)
  PROVE  x = y
<1>1. PICK r \in [0 .. 8 -> Words] :
        /\ Serial(x, b) = r[8]
        /\ r[0] = x
        /\ \A k \in 1 .. 8 : r[k] = Take(r[k - 1], k - 1 \in b)
  BY SerialSteps
<1>2. PICK s \in [0 .. 8 -> Words] :
        /\ Serial(y, b) = s[8]
        /\ s[0] = y
        /\ \A k \in 1 .. 8 : s[k] = Take(s[k - 1], k - 1 \in b)
  BY SerialSteps
<1>3. r[8] = s[8]
  BY <1>1, <1>2, TableIsSerial
<1> DEFINE T == {k \in 0 .. 8 : r[8 - k] = s[8 - k]}
<1>4. 0 \in T
  BY <1>3
<1>5. ASSUME NEW k \in 0 .. 8, k \in T, k # 8 PROVE k + 1 \in T
  <2> DEFINE i == 8 - k
  <2>1. i \in 1 .. 8 /\ i - 1 \in 0 .. 8 /\ i - 1 = 8 - (k + 1) /\ k + 1 \in 0 .. 8
    BY <1>5
  <2>2. r[i] = s[i]
    BY <1>5
  <2> HIDE DEF i
  <2> DEFINE u == r[i - 1]
             v == s[i - 1]
             p == i - 1 \in b
  <2>3. r[i] = Take(u, p) /\ s[i] = Take(v, p)
    BY <1>1, <1>2, <2>1
  <2>4. u \in Words /\ v \in Words /\ p \in BOOLEAN
    BY <1>1, <1>2, <2>1
  <2> HIDE DEF u, v, p
  <2>5. u = v
    BY <2>2, <2>3, <2>4, TakeInjective
  <2> QED BY <2>1, <2>5 DEF u, v
<1>6. \A k \in 0 .. 8 : k \in T
  <2> HIDE DEF T
  <2>1. 0 \in Nat /\ 8 \in Nat /\ \A k \in 0 .. 8 : k \in T /\ k # 8 => k + 1 \in T
    BY <1>5
  <2> QED BY <1>4, <2>1, Upwards
<1>7. r[0] = s[0]
  <2>1. 8 \in 0 .. 8 /\ 8 - 8 = 0
    OBVIOUS
  <2>2. 8 \in T
    BY <1>6, <2>1, Zenon
  <2> QED BY <2>1, <2>2
<1> QED BY <1>1, <1>2, <1>7

\* What the register holds while it takes in data of n bytes.
Registers(data, n, r) ==
  /\ r \in [0 .. n -> Words]
  /\ Fold(data) = r[n]
  /\ r[0] = WordBits
  /\ \A k \in 1 .. n : r[k] = Absorb(r[k - 1], data[k])

LEMMA FoldSteps ==
  ASSUME NEW data \in Seq(Bytes)
  PROVE  \E r : Registers(data, Len(data), r)
<1> DEFINE n == Len(data)
           G == [k \in 1 .. n |-> [w \in Words |-> Absorb(w, data[k])]]
           P(f) == f = [k \in 0 .. n |-> IF k = 0 THEN WordBits
                                         ELSE Absorb(f[k - 1], data[k])]
           r == CHOOSE f : P(f)
<1>1. n \in Nat /\ \A k \in 1 .. n : data[k] \in Bytes
  OBVIOUS
<1>2. Fold(data) = r[n]
  BY Zenon DEF Fold
<1> HIDE DEF n
<1>3. G \in [1 .. n -> [Words -> Words]]
  BY <1>1, AbsorbType
<1>4. PICK f \in [0 .. n -> Words] : Goes(f, WordBits, n, G)
  <2> HIDE DEF G
  <2>1. WordBits \in Words
    BY DEF Words
  <2> QED BY <1>1, <1>3, <2>1, Steps
<1>5. P(f)
  <2>1. f[0] = WordBits /\ \A k \in 1 .. n : f[k] = G[k][f[k - 1]]
    BY <1>4 DEF Goes
  <2>2. ASSUME NEW k \in 0 .. n
        PROVE  f[k] = IF k = 0 THEN WordBits ELSE Absorb(f[k - 1], data[k])
    <3>1. CASE k # 0
      <4>1. k \in 1 .. n /\ k - 1 \in 0 .. n /\ f[k - 1] \in Words
        BY <1>1, <1>4, <3>1
      <4>2. G[k][f[k - 1]] = Absorb(f[k - 1], data[k])
        BY <4>1
      <4> HIDE DEF G
      <4> QED BY <2>1, <3>1, <4>1, <4>2
    <3> QED BY <2>1, <3>1
  <2>3. f = [k \in 0 .. n |-> f[k]]
    BY <1>4
  <2> HIDE DEF G
  <2> QED BY <2>2, <2>3
<1> HIDE DEF P
<1>6. P(r)
  BY <1>5, Zenon
<1> HIDE DEF r
<1>7. r = [k \in 0 .. n |-> IF k = 0 THEN WordBits ELSE Absorb(r[k - 1], data[k])]
  BY <1>6 DEF P
<1>8. r[0] = WordBits /\ \A k \in 1 .. n : r[k] = Absorb(r[k - 1], data[k])
  <2>1. 0 \in 0 .. n /\ \A k \in 1 .. n : k \in 0 .. n /\ k # 0
    BY <1>1
  <2> QED BY <1>7, <2>1
<1>9. \A k \in 0 .. n : r[k] \in Words
  <2> DEFINE T == {k \in 0 .. n : r[k] \in Words}
  <2>1. 0 \in T
    BY <1>1, <1>8 DEF Words
  <2>2. ASSUME NEW k \in 0 .. n, k \in T, k # n PROVE k + 1 \in T
    <3>1. k + 1 \in 1 .. n /\ k + 1 \in 0 .. n /\ k + 1 - 1 = k /\ r[k] \in Words
      BY <1>1, <2>2
    <3>2. r[k + 1] = Absorb(r[k], data[k + 1])
      BY <1>8, <3>1
    <3> QED BY <1>1, <3>1, <3>2, AbsorbType
  <2>3. \A k \in 0 .. n : k \in T
    <3> HIDE DEF T
    <3> QED BY <1>1, <2>1, <2>2, Upwards
  <2> QED BY <2>3
<1>10. r \in [0 .. n -> Words]
  <2>1. DOMAIN r = 0 .. n /\ r = [k \in DOMAIN r |-> r[k]]
    BY <1>7
  <2> QED BY <1>9, <2>1
<1>11. Registers(data, n, r)
  BY <1>2, <1>8, <1>10 DEF Registers
<1> QED BY <1>11 DEF n

\* Sequences that differ at most in the four bytes behind the first j are equal
\* if the register is.
LEMMA FoldTells ==
  ASSUME NEW a \in Seq(Bytes), NEW b \in Seq(Bytes), Len(a) = Len(b), NEW j \in Nat,
         \A i \in 1 .. Len(a) : i \notin j + 1 .. j + 4 => a[i] = b[i],
         Fold(a) = Fold(b)
  PROVE  a = b
<1> DEFINE n == Len(a)
           lo == IF j < n THEN j ELSE n
           hi == IF j + 4 < n THEN j + 4 ELSE n
<1>1. n \in Nat /\ Len(b) = n
  OBVIOUS
<1>2. \A k \in 1 .. n : a[k] \in Bytes /\ b[k] \in Bytes
  OBVIOUS
<1>3. PICK r : Registers(a, n, r)
  BY FoldSteps
<1>4. PICK s : Registers(b, n, s)
  <2>1. PICK s : Registers(b, Len(b), s)
    BY FoldSteps
  <2> HIDE DEF n
  <2> QED BY <1>1, <2>1
<1>5. r[n] = s[n]
  BY <1>3, <1>4 DEF Registers
<1>6. \A i \in 1 .. n : i \notin j + 1 .. j + 4 => a[i] = b[i]
  OBVIOUS
<1> HIDE DEF n
<1>7. /\ lo \in 0 .. n /\ hi \in lo .. n /\ hi - lo <= 4
      /\ \A i \in 1 .. n : i \notin lo + 1 .. hi => a[i] = b[i]
  <2>1. lo \in 0 .. n /\ hi \in lo .. n /\ hi - lo <= 4
    BY <1>1
  <2>2. \A i \in 1 .. n : i \notin lo + 1 .. hi => i \notin j + 1 .. j + 4
    BY <1>1
  <2> QED BY <1>6, <2>1, <2>2
<1> HIDE DEF lo, hi
\* Before the damage the registers are equal.
<1>8. \A k \in 0 .. lo : r[k] = s[k]
  <2> DEFINE T == {k \in 0 .. n : r[k] = s[k]}
  <2>1. 0 \in T
    BY <1>1, <1>3, <1>4 DEF Registers
  <2>2. ASSUME NEW k \in 0 .. lo, k \in T, k # lo PROVE k + 1 \in T
    <3>1. k + 1 \in 1 .. n /\ k + 1 \in 0 .. n /\ k + 1 - 1 = k /\ k + 1 \notin lo + 1 .. hi
          /\ r[k] = s[k]
      BY <1>1, <1>7, <2>2
    <3>2. a[k + 1] = b[k + 1]
      BY <1>7, <3>1
    <3>3. r[k + 1] = Absorb(r[k], a[k + 1]) /\ s[k + 1] = Absorb(s[k], b[k + 1])
      BY <1>3, <1>4, <3>1 DEF Registers
    <3> QED BY <3>1, <3>2, <3>3
  <2>3. \A k \in 0 .. lo : k \in T
    <3> HIDE DEF T
    <3>1. 0 \in Nat /\ lo \in Nat
      BY <1>7
    <3> QED BY <2>1, <2>2, <3>1, Upwards
  <2> QED BY <2>3
\* Behind it they are, since they are in the end.
<1>9. r[hi] = s[hi]
  <2> DEFINE T == {k \in 0 .. n - hi : r[n - k] = s[n - k]}
  <2>1. 0 \in T
    BY <1>1, <1>5, <1>7
  <2>2. ASSUME NEW k \in 0 .. n - hi, k \in T, k # n - hi PROVE k + 1 \in T
    <3> DEFINE i == n - k
    <3>1. /\ i \in 1 .. n /\ i - 1 \in 0 .. n /\ i - 1 = n - (k + 1)
          /\ k + 1 \in 0 .. n - hi /\ i \notin lo + 1 .. hi
      BY <1>1, <1>7, <2>2
    <3>2. r[i] = s[i]
      BY <2>2
    <3> HIDE DEF i
    <3>3. r[i] = Absorb(r[i - 1], a[i]) /\ s[i] = Absorb(s[i - 1], b[i]) /\ a[i] = b[i]
      BY <1>3, <1>4, <1>7, <3>1 DEF Registers
    <3>4. r[i - 1] \in Words /\ s[i - 1] \in Words /\ a[i] \in Bytes
      BY <1>2, <1>3, <1>4, <3>1 DEF Registers
    <3>5. Absorb(r[i - 1], a[i]) = Absorb(s[i - 1], a[i])
      BY <3>2, <3>3, Zenon
    <3>6. r[i - 1] = s[i - 1]
      BY <3>4, <3>5, AbsorbInjective
    <3> QED BY <3>1, <3>6
  <2>3. \A k \in 0 .. n - hi : k \in T
    <3> HIDE DEF T
    <3>1. 0 \in Nat /\ n - hi \in Nat
      BY <1>1, <1>7
    <3> QED BY <2>1, <2>2, <3>1, Upwards
  <2>4. n - hi \in 0 .. n - hi /\ n - (n - hi) = hi
    BY <1>1, <1>7
  <2>5. n - hi \in T
    BY <2>3, <2>4, Zenon
  <2> QED BY <2>4, <2>5
\* In between they agree in all but 8, 16 and 24 bits.
<1>10. ASSUME NEW k \in 1 .. n, NEW m \in 0 .. 24, Agree(r[k], s[k], m)
       PROVE  Agree(r[k - 1], s[k - 1], m + 8) /\ (r[k - 1] = s[k - 1] => a[k] = b[k])
  <2>1. r[k] = Absorb(r[k - 1], a[k]) /\ s[k] = Absorb(s[k - 1], b[k])
    BY <1>3, <1>4 DEF Registers
  <2>2. /\ r[k - 1] \in Words /\ s[k - 1] \in Words
        /\ a[k] \in Bytes /\ b[k] \in Bytes
    <3>1. k - 1 \in 0 .. n
      BY <1>1
    <3> QED BY <1>2, <1>3, <1>4, <3>1 DEF Registers
  <2>3. Agree(Absorb(r[k - 1], a[k]), Absorb(s[k - 1], b[k]), m)
    BY <1>10, <2>1, Zenon
  <2> DEFINE x == r[k - 1]
             y == s[k - 1]
             c == a[k]
             d == b[k]
  <2> HIDE DEF x, y, c, d
  <2>4. /\ x \in Words /\ y \in Words /\ c \in Bytes /\ d \in Bytes
        /\ Agree(Absorb(x, c), Absorb(y, d), m)
    BY <2>2, <2>3, Zenon DEF x, y, c, d
  <2>5. Agree(x, y, m + 8) /\ (x = y => c = d)
    BY <2>4, BackByte
  <2> QED BY <2>5, Zenon DEF x, y, c, d
<1>11. \A k \in 0 .. hi - lo : Agree(r[hi - k], s[hi - k], 8 * k)
  <2> DEFINE T == {k \in 0 .. hi - lo : Agree(r[hi - k], s[hi - k], 8 * k)}
  <2>1. 0 \in T
    <3>1. 0 \in 0 .. hi - lo /\ hi - 0 = hi
      BY <1>1, <1>7
    <3>2. Agree(r[hi], s[hi], 8 * 0)
      BY <1>9 DEF Agree
    <3> QED BY <3>1, <3>2
  <2>2. ASSUME NEW k \in 0 .. hi - lo, k \in T, k # hi - lo PROVE k + 1 \in T
    <3>1. /\ hi - k \in 1 .. n /\ 8 * k \in 0 .. 24 /\ hi - k - 1 = hi - (k + 1)
          /\ 8 * k + 8 = 8 * (k + 1) /\ k + 1 \in 0 .. hi - lo
      BY <1>1, <1>7, <2>2
    <3>2. Agree(r[hi - k], s[hi - k], 8 * k)
      BY <2>2
    <3>3. Agree(r[hi - k - 1], s[hi - k - 1], 8 * k + 8)
      BY <1>10, <3>1, <3>2
    <3> QED BY <3>1, <3>3
  <2>3. \A k \in 0 .. hi - lo : k \in T
    <3> HIDE DEF T
    <3>1. 0 \in Nat /\ hi - lo \in Nat
      BY <1>1, <1>7
    <3> QED BY <2>1, <2>2, <3>1, Upwards
  <2> QED BY <2>3
\* So that each byte in turn was the same.
<1>12. ASSUME NEW i \in lo .. hi, i # hi, r[i] = s[i]
       PROVE  a[i + 1] = b[i + 1] /\ r[i + 1] = s[i + 1]
  <2> DEFINE k == hi - (i + 1)
  <2>1. /\ k \in 0 .. hi - lo /\ 8 * k \in 0 .. 24 /\ hi - k = i + 1
        /\ i + 1 \in 1 .. n /\ i + 1 - 1 = i
    BY <1>1, <1>7, <1>12
  <2> HIDE DEF k
  <2>2. Agree(r[i + 1], s[i + 1], 8 * k)
    BY <1>11, <2>1
  <2>3. a[i + 1] = b[i + 1]
    <3>1. \A l \in 1 .. n : l = i + 1
            => (r[l - 1] = s[l - 1] => a[l] = b[l])
      BY <1>10, <2>1, <2>2
    <3> QED BY <1>12, <2>1, <3>1
  <2>4. r[i + 1] = Absorb(r[i], a[i + 1]) /\ s[i + 1] = Absorb(s[i], b[i + 1])
    BY <1>3, <1>4, <2>1 DEF Registers
  <2> QED BY <1>12, <2>3, <2>4
<1>13. \A i \in lo .. hi : r[i] = s[i]
  <2> DEFINE T == {i \in lo .. hi : r[i] = s[i]}
  <2>1. lo \in T
    BY <1>7, <1>8
  <2>2. ASSUME NEW i \in lo .. hi, i \in T, i # hi PROVE i + 1 \in T
    <3>1. r[i] = s[i] /\ i + 1 \in lo .. hi
      BY <1>1, <1>7, <2>2
    <3> QED BY <1>12, <2>2, <3>1
  <2>3. \A i \in lo .. hi : i \in T
    <3> HIDE DEF T
    <3>1. lo \in Nat /\ hi \in Nat
      BY <1>1, <1>7
    <3> QED BY <2>1, <2>2, <3>1, Upwards
  <2> QED BY <2>3
<1>14. ASSUME NEW i \in 1 .. n PROVE a[i] = b[i]
  <2>1. CASE i \in lo + 1 .. hi
    <3>1. i - 1 \in lo .. hi /\ i - 1 # hi /\ i - 1 + 1 = i
      BY <1>1, <1>7, <2>1
    <3> QED BY <1>12, <1>13, <3>1
  <2>2. CASE i \notin lo + 1 .. hi
    BY <1>7, <2>2
  <2> QED BY <2>1, <2>2
<1> QED BY <1>1, <1>14 DEF n

\* A checksum is told from another.
LEMMA ChecksumTells ==
  ASSUME NEW a \in Seq(Bytes), NEW b \in Seq(Bytes), Len(a) = Len(b), NEW j \in Nat,
         \A i \in 1 .. Len(a) : i \notin j + 1 .. j + 4 => a[i] = b[i],
         crc32(a) = crc32(b)
  PROVE  a = b
<1>1. Fold(a) \in Words
  <2>1. PICK r : Registers(a, Len(a), r)
    BY FoldSteps
  <2>2. Len(a) \in 0 .. Len(a)
    OBVIOUS
  <2> QED BY <2>1, <2>2 DEF Registers
<1>2. Fold(b) \in Words
  <2>1. PICK r : Registers(b, Len(b), r)
    BY FoldSteps
  <2>2. Len(b) \in 0 .. Len(b)
    OBVIOUS
  <2> QED BY <2>1, <2>2 DEF Registers
<1>3. WordBits \ Fold(a) = WordBits \ Fold(b)
  BY DEF crc32
<1>4. Fold(a) = Fold(b)
  <2> DEFINE x == Fold(a)
             y == Fold(b)
  <2>1. x \subseteq WordBits /\ y \subseteq WordBits /\ WordBits \ x = WordBits \ y
    BY <1>1, <1>2, <1>3 DEF Words
  <2> HIDE DEF x, y
  <2>2. x = y
    BY <2>1
  <2> QED BY <2>2 DEF x, y
<1> QED BY <1>4, FoldTells

\* Sealed bytes of which only the checksum changes, or up to four bytes in a
\* row before it, are not taken.
LEMMA BurstRejected ==
  ASSUME NEW body \in Seq(Bytes), NEW s, s = seal(body),
         NEW t \in Seq(Bytes), Len(t) = Len(s), t # s,
         \/ \A i \in 1 .. Len(body) : t[i] = s[i]
         \/ /\ \A i \in Len(body) + 1 .. Len(s) : t[i] = s[i]
            /\ \E j \in Nat : \A i \in 1 .. Len(body) : i \notin j + 1 .. j + 4 => t[i] = s[i]
  PROVE  parse(t) = Nothing
<1> SUFFICES ASSUME parse(t) # Nothing PROVE FALSE
  OBVIOUS
<1> DEFINE cut == Len(t) - CRC_LEN
           front == SubSeq(t, 1, cut)
           sum == SubSeq(t, cut + 1, Len(t))
<1>1. ~ (Len(t) < OVERHEAD) /\ crc32(front) = from_be_bytes(sum)
  BY Zenon DEF parse
<1>2. Len(t) >= OVERHEAD
  BY <1>1 DEF OVERHEAD, HEADER_LEN, CRC_LEN
<1>3. t = seal(front) /\ front \in Seq(Bytes) /\ Len(front) = cut
  BY <1>1, <1>2, Opened
<1>4. /\ s \in Seq(Bytes) /\ Len(s) = Len(body) + CRC_LEN
      /\ SubSeq(s, 1, Len(s) - CRC_LEN) = body
      /\ from_be_bytes(SubSeq(s, Len(s) - CRC_LEN + 1, Len(s))) = crc32(body)
  BY Sealed
<1>5. /\ Len(body) \in Nat /\ cut = Len(body) /\ Len(s) - CRC_LEN = cut
      /\ Len(t) = cut + 4 /\ Len(s) = cut + 4
  BY <1>4 DEF CRC_LEN
<1>6. SubSeq(s, 1, cut) = body /\ from_be_bytes(SubSeq(s, cut + 1, Len(s))) = crc32(body)
  BY <1>4, <1>5, Zenon
<1>7. front # body
  <2>1. ASSUME front = body PROVE t = s
    BY <1>3, <2>1
  <2> QED BY <2>1
<1>8. /\ sum = SubSeq(t, cut + 1, cut + 4)
      /\ SubSeq(s, cut + 1, Len(s)) = SubSeq(s, cut + 1, cut + 4)
  BY <1>5, Zenon
<1> HIDE DEF cut
<1>9. front = [i \in 1 .. cut |-> t[i]] /\ body = [i \in 1 .. cut |-> s[i]]
  BY <1>4, <1>5, <1>6
<1> HIDE DEF front, sum
<1>10. CASE \A i \in 1 .. Len(body) : t[i] = s[i]
  BY <1>5, <1>7, <1>9, <1>10
<1>11. CASE /\ \A i \in Len(body) + 1 .. Len(s) : t[i] = s[i]
            /\ \E j \in Nat : \A i \in 1 .. Len(body) :
                 i \notin j + 1 .. j + 4 => t[i] = s[i]
  <2>1. SubSeq(t, cut + 1, cut + 4) = SubSeq(s, cut + 1, cut + 4)
    <3>1. \A i \in 1 .. 4 : cut + 1 + i - 1 \in Len(body) + 1 .. Len(s)
      BY <1>5
    <3>2. \A i \in 1 .. 4 : t[cut + 1 + i - 1] = s[cut + 1 + i - 1]
      BY <1>11, <3>1
    <3>3. cut + 4 - (cut + 1) + 1 = 4
      BY <1>5
    <3>4. /\ SubSeq(t, cut + 1, cut + 4)
                = [i \in 1 .. cut + 4 - (cut + 1) + 1 |-> t[cut + 1 + i - 1]]
          /\ SubSeq(s, cut + 1, cut + 4)
                = [i \in 1 .. cut + 4 - (cut + 1) + 1 |-> s[cut + 1 + i - 1]]
      <4>1. /\ t \in Seq(Bytes) /\ s \in Seq(Bytes) /\ cut \in Nat
            /\ Len(t) = cut + 4 /\ Len(s) = cut + 4
        BY <1>4, <1>5
      <4> QED BY <4>1
    <3> QED BY <3>2, <3>3, <3>4
  <2>2. crc32(front) = crc32(body)
    BY <1>1, <1>6, <1>8, <2>1, Zenon
  <2>3. PICK j \in Nat : \A i \in 1 .. Len(body) : i \notin j + 1 .. j + 4 => t[i] = s[i]
    BY <1>11
  <2>4. Len(front) = Len(body)
    BY <1>3, <1>5
  <2>5. \A i \in 1 .. Len(front) : i \notin j + 1 .. j + 4 => front[i] = body[i]
    <3>1. \A i \in 1 .. cut : front[i] = t[i] /\ body[i] = s[i]
      BY <1>9
    <3> QED BY <1>3, <1>5, <2>3, <3>1
  <2>6. front = body
    BY <1>3, <2>2, <2>4, <2>5, ChecksumTells
  <2> QED BY <1>7, <2>6
<1> QED BY <1>10, <1>11

-----------------------------------------------------------------------------
(* Damage *)

\* t is s with the bits of F inverted, counted from the front.
Inverted(s, t, F) ==
  /\ Len(t) = Len(s) /\ F \subseteq 0 .. 8 * Len(s) - 1
  /\ \A k \in 1 .. Len(s), i \in ByteBits :
       i \in t[k] <=> ~ (i \in s[k] <=> 8 * (k - 1) + i \in F)

\* One more bit.
LEMMA InvertOne ==
  ASSUME NEW s \in Seq(Bytes), NEW t \in Seq(Bytes), NEW F, Inverted(s, t, F),
         NEW bit \in 0 .. 8 * Len(t) - 1, bit \notin F,
         NEW u, u = [t EXCEPT ![bit \div 8 + 1] = SymDiff(@, {bit % 8})]
  PROVE  Inverted(s, u, F \cup {bit})
<1> DEFINE at == bit \div 8 + 1
           b == bit % 8
<1>1. /\ Len(s) \in Nat /\ Len(t) = Len(s) /\ at \in 1 .. Len(s) /\ b \in 0 .. 7
      /\ bit = 8 * (at - 1) + b /\ bit \in 0 .. 8 * Len(s) - 1
  <2>1. Len(s) \in Nat /\ Len(t) = Len(s)
    BY DEF Inverted
  <2>2. bit \in 0 .. 8 * Len(s) - 1
    BY <2>1
  <2> DEFINE n == Len(s)
  <2>3. n \in Nat /\ bit \in 0 .. 8 * n - 1
    BY <2>1, <2>2
  <2> HIDE DEF n
  <2>4. at \in 1 .. n /\ b \in 0 .. 7 /\ bit = 8 * (at - 1) + b
    BY <2>3
  <2> QED BY <2>1, <2>2, <2>4 DEF n
<1>2. u = [t EXCEPT ![at] = SymDiff(t[at], {b})]
  OBVIOUS
<1> HIDE DEF at, b
<1>3. /\ Len(u) = Len(t) /\ u[at] = SymDiff(t[at], {b})
      /\ \A k \in 1 .. Len(s) : k # at => u[k] = t[k]
  <2> DEFINE v == SymDiff(t[at], {b})
  <2>1. v \in Bytes
    <3>1. t[at] \in Bytes
      BY <1>1
    <3> QED BY <1>1, <3>1 DEF Bytes, ByteBits, SymDiff
  <2> HIDE DEF v
  <2>2. u = [t EXCEPT ![at] = v]
    BY <1>2 DEF v
  <2>3. at \in 1 .. Len(t)
    BY <1>1
  <2>4. Len(u) = Len(t) /\ u[at] = v /\ \A k \in 1 .. Len(t) : k # at => u[k] = t[k]
    <3>1. u \in Seq(Bytes) /\ DOMAIN u = DOMAIN t /\ u[at] = v
          /\ \A k \in DOMAIN t : k # at => u[k] = t[k]
      <4>1. DOMAIN t = 1 .. Len(t) /\ at \in DOMAIN t
        BY <2>3
      <4>2. u \in Seq(Bytes)
        BY <2>1, <2>2, <2>3
      <4>3. DOMAIN u = DOMAIN t
        BY <2>2
      <4>4. u[at] = v /\ \A k \in DOMAIN t : k # at => u[k] = t[k]
        BY <2>2, <4>1
      <4> QED BY <4>2, <4>3, <4>4
    <3>2. DOMAIN u = 1 .. Len(u) /\ Len(u) \in Nat
      BY <3>1
    <3>3. DOMAIN t = 1 .. Len(t) /\ Len(t) \in Nat
      OBVIOUS
    <3>4. Len(u) = Len(t)
      BY <3>1, <3>2, <3>3
    <3> QED BY <3>1, <3>3, <3>4
  <2> QED BY <1>1, <2>4 DEF v
<1>4. ASSUME NEW k \in 1 .. Len(s), NEW i \in ByteBits
      PROVE  i \in u[k] <=> ~ (i \in s[k] <=> 8 * (k - 1) + i \in F \cup {bit})
  <2>1. i \in t[k] <=> ~ (i \in s[k] <=> 8 * (k - 1) + i \in F)
    BY DEF Inverted
  <2>2. i \in 0 .. 7 /\ (8 * (k - 1) + i = bit <=> k = at /\ i = b)
    BY <1>1 DEF ByteBits
  <2>3. CASE k = at /\ i = b
    <3>1. i \in u[k] <=> ~ (i \in t[k])
      BY <1>3, <2>3 DEF SymDiff
    <3>2. 8 * (k - 1) + i \in F \cup {bit} /\ 8 * (k - 1) + i \notin F
      BY <2>2, <2>3
    <3> QED BY <2>1, <3>1, <3>2
  <2>4. CASE ~ (k = at /\ i = b)
    <3>1. i \in u[k] <=> i \in t[k]
      BY <1>3, <2>4 DEF SymDiff
    <3>2. 8 * (k - 1) + i \in F \cup {bit} <=> 8 * (k - 1) + i \in F
      BY <2>2, <2>4
    <3> QED BY <2>1, <3>1, <3>2
  <2> QED BY <2>3, <2>4
<1>5. F \cup {bit} \subseteq 0 .. 8 * Len(s) - 1
  BY <1>1 DEF Inverted
<1> QED BY <1>1, <1>3, <1>4, <1>5 DEF Inverted

\* It shows, in the bytes it is in and in no other.
LEMMA WhereInverted ==
  ASSUME NEW s \in Seq(Bytes), NEW t \in Seq(Bytes), NEW F, Inverted(s, t, F)
  PROVE  /\ \A k \in 1 .. Len(s) : (\A bit \in F : bit \div 8 # k - 1) => t[k] = s[k]
         /\ F # {} => t # s
<1>1. Len(s) \in Nat /\ \A k \in 1 .. Len(s) : s[k] \in Bytes /\ t[k] \in Bytes
  BY DEF Inverted
<1>2. ASSUME NEW k \in 1 .. Len(s), \A bit \in F : bit \div 8 # k - 1
      PROVE  t[k] = s[k]
  <2>1. ASSUME NEW i \in ByteBits PROVE i \in t[k] <=> i \in s[k]
    <3>1. (8 * (k - 1) + i) \div 8 = k - 1
      BY <1>1 DEF ByteBits
    <3>2. 8 * (k - 1) + i \notin F
      BY <1>2, <3>1
    <3> QED BY <3>2 DEF Inverted
  <2>2. s[k] \subseteq ByteBits /\ t[k] \subseteq ByteBits
    BY <1>1 DEF Bytes
  <2> DEFINE x == t[k]
             y == s[k]
  <2> HIDE DEF x, y
  <2>3. x \subseteq ByteBits /\ y \subseteq ByteBits /\ \A i \in ByteBits : i \in x <=> i \in y
    BY <2>1, <2>2 DEF x, y
  <2>4. x = y
    BY <2>3
  <2> QED BY <2>4 DEF x, y
<1>3. ASSUME F # {} PROVE t # s
  <2>1. PICK bit : bit \in F
    BY <1>3
  <2> DEFINE k == bit \div 8 + 1
             i == bit % 8
  <2>2. bit \in 0 .. 8 * Len(s) - 1
    BY <2>1 DEF Inverted
  <2>3. k \in 1 .. Len(s) /\ i \in 0 .. 7 /\ 8 * (k - 1) + i = bit
    BY <1>1, <2>2
  <2> HIDE DEF k, i
  <2>4. i \in t[k] <=> ~ (i \in s[k])
    BY <2>1, <2>3 DEF Inverted, ByteBits
  <2> QED BY <2>4
<1> QED BY <1>2, <1>3

\* The bytes under way are those of a sealed body but for the flipped bits.
Damaged ==
  /\ sent = Nothing => flips = {}
  /\ sent # Nothing => \E body \in Seq(Bytes) : Inverted(seal(body), decoded, flips)

LEMMA SealedUnchanged ==
  ASSUME NEW body \in Seq(Bytes)
  PROVE  Inverted(seal(body), seal(body), {})
BY DEF Inverted

LEMMA InitDamaged == Init => Damaged
BY DEF Init, Damaged

\* Every step keeps it.
LEMMA NextDamaged == PacketInv /\ Damaged /\ [Next]_vars => Damaged'
<1> SUFFICES ASSUME PacketInv, Damaged, [Next]_vars PROVE Damaged'
  OBVIOUS
<1>1. CASE EncodeData
  <2>1. PICK session \in Sessions, seq \in Seqs, payload \in Payloads :
           /\ sent' = Data(session, seq, payload)
           /\ Arrive(encode_data(session, seq, payload))
    BY <1>1 DEF EncodeData
  <2> DEFINE body == header(KIND_DATA, session, seq) \o payload
  <2>2. body \in Seq(Bytes)
    <3>1. /\ session \in SUBSET (0 .. 63) /\ seq \in SUBSET (0 .. 31)
          /\ payload \in Seq(Bytes) /\ KIND_DATA \in Bytes
      BY PacketAssumption DEF Bytes, ByteBits, KIND_DATA
    <3>2. Holds(body, KIND_DATA, session, seq, payload)
      BY <3>1, Fields
    <3> QED BY <3>2 DEF Holds
  <2>3. sent = Nothing /\ flips' = {}
    BY <1>1 DEF EncodeData, PacketInv, Damaged
  <2>4. sent' # Nothing
    BY <2>1 DEF Data, Nothing
  <2>5. decoded' = seal(body)
    BY <2>1 DEF Arrive, encode_data
  <2> HIDE DEF body
  <2>6. Inverted(seal(body), decoded', flips')
    BY <2>2, <2>3, <2>5, SealedUnchanged
  <2> QED BY <2>2, <2>4, <2>6 DEF Damaged
<1>2. CASE EncodeAck
  <2>1. PICK session \in Sessions, seq \in Seqs :
           /\ sent' = Ack(session, seq)
           /\ Arrive(encode_ack(session, seq))
    BY <1>2 DEF EncodeAck
  <2> DEFINE body == header(KIND_ACK, session, seq)
  <2>2. body \in Seq(Bytes)
    <3>1. KIND_ACK \in Bytes
      BY DEF KIND_ACK, Bytes, ByteBits
    <3> QED BY <3>1, BareHeader
  <2>3. sent = Nothing /\ flips' = {}
    BY <1>2 DEF EncodeAck, PacketInv, Damaged
  <2>4. sent' # Nothing
    BY <2>1 DEF Ack, Nothing
  <2>5. decoded' = seal(body)
    BY <2>1 DEF Arrive, encode_ack
  <2> HIDE DEF body
  <2>6. Inverted(seal(body), decoded', flips')
    BY <2>2, <2>3, <2>5, SealedUnchanged
  <2> QED BY <2>2, <2>4, <2>6 DEF Damaged
<1>3. CASE SealOther
  <2>1. sent = Nothing /\ sent' = Nothing /\ flips' = flips
    BY <1>3 DEF SealOther, PacketInv
  <2> QED BY <2>1 DEF Damaged
<1>4. CASE Flip
  <2>1. PICK bit \in 0 .. 8 * Len(decoded) - 1 :
           /\ \A earlier \in flips : earlier < bit
           /\ flips' = flips \cup {bit}
           /\ Arrive([decoded EXCEPT ![bit \div 8 + 1] = SymDiff(@, {bit % 8})])
    BY <1>4 DEF Flip
  <2>2. sent # Nothing /\ sent' = sent /\ decoded \in Seq(Bytes)
    BY <1>4 DEF Flip, PacketInv
  <2>3. PICK body \in Seq(Bytes) : Inverted(seal(body), decoded, flips)
    BY <2>2 DEF Damaged
  <2>4. decoded' = [decoded EXCEPT ![bit \div 8 + 1] = SymDiff(@, {bit % 8})]
    BY <2>1 DEF Arrive
  <2>5. bit \notin flips
    BY <2>1
  <2>6. seal(body) \in Seq(Bytes)
    BY Sealed
  <2>7. Inverted(seal(body), decoded', flips \cup {bit})
    BY <2>2, <2>3, <2>4, <2>5, <2>6, InvertOne
  <2>8. Inverted(seal(body), decoded', flips')
    BY <2>1, <2>7
  <2> QED BY <2>2, <2>8 DEF Damaged
<1>5. CASE UNCHANGED vars
  BY <1>5 DEF Damaged, vars
<1> QED BY <1>1, <1>2, <1>3, <1>4, <1>5 DEF Next

\* "Corrupted or malformed frame: discarded": of packets of any length, damage
\* to the checksum alone, or to up to four bytes in a row before it, however
\* many bits of them it inverts, never gets past parse.
BurstIsSeen ==
  LET cut == Len(decoded) - CRC_LEN
  IN  /\ flips # {}
      /\ \/ \A bit \in flips : bit \div 8 >= cut
         \/ /\ \A bit \in flips : bit \div 8 < cut
            /\ \E first \in Nat :
                 \A bit \in flips : bit \div 8 \in first .. first + 3
      => received = Nothing

LEMMA DamagedIsSeen == PacketInv /\ Damaged => BurstIsSeen
<1> DEFINE cut == Len(decoded) - CRC_LEN
<1> SUFFICES ASSUME PacketInv, Damaged, flips # {},
                    \/ \A bit \in flips : bit \div 8 >= cut
                    \/ /\ \A bit \in flips : bit \div 8 < cut
                       /\ \E first \in Nat :
                            \A bit \in flips : bit \div 8 \in first .. first + 3
             PROVE  received = Nothing
  BY DEF BurstIsSeen
<1>1. PICK body \in Seq(Bytes) : Inverted(seal(body), decoded, flips)
  BY DEF Damaged
<1> DEFINE s == seal(body)
<1>2. decoded \in Seq(Bytes) /\ received = parse(decoded)
  BY DEF PacketInv
<1>3. s \in Seq(Bytes) /\ Len(s) = Len(body) + CRC_LEN /\ Len(body) \in Nat
  BY Sealed
<1>4. Inverted(s, decoded, flips)
  BY <1>1
<1> HIDE DEF s
<1>5. /\ \A k \in 1 .. Len(s) : (\A bit \in flips : bit \div 8 # k - 1)
                                  => decoded[k] = s[k]
      /\ decoded # s
  BY <1>2, <1>3, <1>4, WhereInverted
<1>6. Len(decoded) = Len(s) /\ cut = Len(body) /\ Len(s) = Len(body) + 4
      /\ flips \subseteq Int
  BY <1>2, <1>3, <1>4 DEF Inverted, CRC_LEN
<1> HIDE DEF cut
<1>7. \/ \A i \in 1 .. Len(body) : decoded[i] = s[i]
      \/ /\ \A i \in Len(body) + 1 .. Len(s) : decoded[i] = s[i]
         /\ \E j \in Nat : \A i \in 1 .. Len(body) :
              i \notin j + 1 .. j + 4 => decoded[i] = s[i]
  <2>1. CASE \A bit \in flips : bit \div 8 >= cut
    <3>1. ASSUME NEW i \in 1 .. Len(body) PROVE decoded[i] = s[i]
      <4>1. i \in 1 .. Len(s) /\ i - 1 < cut /\ \A bit \in flips : bit \div 8 \in Int
        BY <1>3, <1>6
      <4>2. \A bit \in flips : bit \div 8 # i - 1
        BY <1>3, <1>6, <2>1, <4>1
      <4> QED BY <1>5, <4>1, <4>2
    <3> QED BY <3>1
  <2>2. CASE /\ \A bit \in flips : bit \div 8 < cut
             /\ \E first \in Nat :
                  \A bit \in flips : bit \div 8 \in first .. first + 3
    <3>1. PICK first \in Nat : \A bit \in flips : bit \div 8 \in first .. first + 3
      BY <2>2
    <3>2. ASSUME NEW i \in Len(body) + 1 .. Len(s) PROVE decoded[i] = s[i]
      <4>1. i \in 1 .. Len(s) /\ ~ (i - 1 < cut)
        BY <1>3, <1>6
      <4>2. \A bit \in flips : bit \div 8 # i - 1
        BY <2>2, <4>1
      <4> QED BY <1>5, <4>1, <4>2
    <3>3. ASSUME NEW i \in 1 .. Len(body), i \notin first + 1 .. first + 4
          PROVE  decoded[i] = s[i]
      <4>1. i \in 1 .. Len(s) /\ i - 1 \notin first .. first + 3
        BY <1>3, <1>6, <3>3
      <4>2. \A bit \in flips : bit \div 8 # i - 1
        BY <3>1, <4>1
      <4> QED BY <1>5, <4>1, <4>2
    <3> QED BY <3>2, <3>3
  <2> QED BY <2>1, <2>2
<1>8. parse(decoded) = Nothing
  <2>1. Len(decoded) = Len(s) /\ decoded # s /\ s = seal(body)
    BY <1>5, <1>6 DEF s
  <2> QED BY <1>2, <1>7, <2>1, BurstRejected
<1> QED BY <1>2, <1>8

\* Whatever was sent, damage in one burst is noticed.
THEOREM BurstsAreRejected == Spec => []BurstIsSeen
<1>1. Init => PacketInv /\ Damaged
  BY InitPacket, InitDamaged
<1>2. PacketInv /\ Damaged /\ [Next]_vars => PacketInv' /\ Damaged'
  BY NextPacket, NextDamaged
<1>3. PacketInv /\ Damaged => BurstIsSeen
  BY DamagedIsSeen
<1> QED BY <1>1, <1>2, <1>3, PTL DEF Spec

\* No more than one bit is damaged.
AtMostOne == flips = {} \/ \E bit : flips = {bit}

\* Of packets of any length, a single inverted bit never gets past parse.
THEOREM OneBitIsSeen ==
  ASSUME MaxFlips <= 1
  PROVE  Spec => []DamageIsSeen
<1>1. Init => PacketInv /\ Damaged /\ AtMostOne
  BY InitPacket, InitDamaged DEF Init, AtMostOne
<1>2. AtMostOne /\ [Next]_vars => AtMostOne'
  <2> SUFFICES ASSUME AtMostOne, [Next]_vars PROVE AtMostOne'
    OBVIOUS
  <2>1. CASE Flip
    <3>1. Cardinality(flips) < 1
      <4> DEFINE n == Cardinality(flips)
      <4>1. n = 0 \/ n = 1
        BY FS_EmptySet, FS_Singleton DEF AtMostOne
      <4>2. n < MaxFlips
        BY <2>1 DEF Flip
      <4> HIDE DEF n
      <4>3. n < 1
        BY <4>1, <4>2, PacketAssumption
      <4> QED BY <4>3 DEF n
    <3>2. flips = {}
      <4>1. ASSUME NEW bit, flips = {bit} PROVE FALSE
        <5>1. Cardinality(flips) = 1
          BY <4>1, FS_Singleton
        <5> QED BY <3>1, <5>1
      <4> QED BY <4>1 DEF AtMostOne
    <3>3. PICK bit : flips' = flips \cup {bit}
      BY <2>1 DEF Flip
    <3> QED BY <3>2, <3>3 DEF AtMostOne
  <2>2. CASE flips' = flips
    BY <2>2 DEF AtMostOne
  <2> QED BY <2>1, <2>2 DEF Next, EncodeData, EncodeAck, SealOther, vars
<1>3. PacketInv /\ Damaged /\ AtMostOne => DamageIsSeen
  <2> SUFFICES ASSUME PacketInv, Damaged, AtMostOne, flips # {} PROVE received = Nothing
    BY DEF DamageIsSeen
  <2>1. PICK bit : flips = {bit}
    BY DEF AtMostOne
  <2>2. PICK body \in Seq(Bytes) : Inverted(seal(body), decoded, flips)
    BY DEF Damaged
  <2>3. bit \in Nat /\ Len(decoded) - CRC_LEN \in Int
    <3>1. Len(seal(body)) \in Nat /\ flips \subseteq 0 .. 8 * Len(seal(body)) - 1
      BY <2>2, Sealed DEF Inverted
    <3> QED BY <2>1, <3>1 DEF PacketInv, CRC_LEN
  <2> DEFINE cut == Len(decoded) - CRC_LEN
             first == bit \div 8
  <2>4. /\ first \in Nat /\ first \in first .. first + 3 /\ cut \in Int
        /\ \A b \in flips : b \div 8 = first
    BY <2>1, <2>3
  <2> HIDE DEF first
  <2>5. first >= cut \/ first < cut
    <3> HIDE DEF cut
    <3> QED BY <2>4
  <2>6. \/ \A b \in flips : b \div 8 >= cut
        \/ /\ \A b \in flips : b \div 8 < cut
           /\ \E f \in Nat : \A b \in flips : b \div 8 \in f .. f + 3
    <3> HIDE DEF cut
    <3> QED BY <2>4, <2>5
  <2> QED BY <2>6, DamagedIsSeen DEF BurstIsSeen
<1> QED BY <1>1, <1>2, <1>3, NextPacket, NextDamaged, PTL DEF Spec

-----------------------------------------------------------------------------
(* The value that identifies the algorithm *)

\* y is x after the register has taken in bit k of a byte.
Becomes(x, y, k, byte) ==
  \A i \in 0 .. 31 :
    i \in y <=> ~ (i + 1 \in x <=> (i \in Polynomial /\ ~ (0 \in x <=> k \in byte)))

LEMMA BecomesTake ==
  ASSUME NEW x \in Words, NEW y \in Words, NEW k, NEW byte, Becomes(x, y, k, byte)
  PROVE  Take(x, k \in byte) = y
<1> DEFINE a == (0 \in x) # (k \in byte)
           p == IF a THEN Polynomial ELSE {}
           z == SymDiff(Shr(x, 1), p)
<1>1. Take(x, k \in byte) = z
  BY Zenon DEF Take
<1>2. z \in Words
  <2>1. Take(x, k \in byte) \in Words
    BY TakeType
  <2> QED BY <1>1, <2>1, Zenon
<1>3. \A i : i \in p <=> i \in Polynomial /\ ~ (0 \in x <=> k \in byte)
  OBVIOUS
<1> HIDE DEF a, p
<1>4. ASSUME NEW i \in 0 .. 31 PROVE i \in z <=> i \in y
  <2>1. i \in z <=> ~ (i \in Shr(x, 1) <=> i \in p)
    BY DEF SymDiff
  <2>2. i \in Shr(x, 1) <=> i + 1 \in x
    BY ShrIs
  <2>3. i \in y <=> ~ (i + 1 \in x <=> i \in p)
    BY <1>3 DEF Becomes
  <2> QED BY <2>1, <2>2, <2>3
<1> HIDE DEF z
<1>5. ASSUME NEW i \in Nat PROVE i \in z <=> i \in y
  <2>1. CASE i \in 0 .. 31
    BY <1>4, <2>1
  <2>2. CASE i \notin 0 .. 31
    BY <1>2, <2>2 DEF Words, WordBits
  <2> QED BY <2>1, <2>2
<1> QED BY <1>1, <1>2, <1>5, WordsEqual

\* One byte, bit by bit.
LEMMA OneByte ==
  ASSUME NEW byte \in Bytes,
         NEW a \in Words, NEW b \in Words, NEW c \in Words, NEW d \in Words,
         NEW e \in Words, NEW f \in Words, NEW g \in Words, NEW h \in Words,
         NEW i \in Words,
         Becomes(a, b, 0, byte), Becomes(b, c, 1, byte), Becomes(c, d, 2, byte),
         Becomes(d, e, 3, byte), Becomes(e, f, 4, byte), Becomes(f, g, 5, byte),
         Becomes(g, h, 6, byte), Becomes(h, i, 7, byte)
  PROVE  Absorb(a, byte) = i
<1>1. PICK r \in [0 .. 8 -> Words] :
        /\ Serial(a, byte) = r[8]
        /\ r[0] = a
        /\ \A k \in 1 .. 8 : r[k] = Take(r[k - 1], k - 1 \in byte)
  BY SerialSteps
<1>2. ASSUME NEW k \in 0 .. 7, NEW x \in Words, NEW y \in Words,
             r[k] = x, Becomes(x, y, k, byte)
      PROVE  r[k + 1] = y
  <2>1. \A l \in 1 .. 8 : l = k + 1 => r[l] = Take(r[k], k \in byte)
    BY <1>1
  <2>2. k + 1 \in 1 .. 8
    OBVIOUS
  <2>3. r[k + 1] = Take(r[k], k \in byte)
    BY <2>1, <2>2, Zenon
  <2>4. Take(x, k \in byte) = y
    BY <1>2, BecomesTake
  <2> QED BY <1>2, <2>3, <2>4, Zenon
<1>3. r[1] = b
  BY <1>1, <1>2
<1>4. r[2] = c
  BY <1>2, <1>3
<1>5. r[3] = d
  BY <1>2, <1>4
<1>6. r[4] = e
  BY <1>2, <1>5
<1>7. r[5] = f
  BY <1>2, <1>6
<1>8. r[6] = g
  BY <1>2, <1>7
<1>9. r[7] = h
  BY <1>2, <1>8
<1>10. r[8] = i
  BY <1>2, <1>9
<1> QED BY <1>1, <1>10, TableIsSerial

\* The register after each digit of the check value's input, as the steps
\* of its eight bits give it.
LEMMA Digit1 ==
  Absorb(WordBits,
         {0, 4, 5})
    = {3, 6, 12, 16, 17, 21, 26, 27, 28, 29, 30}
<1> DEFINE a == WordBits
           b == {0, 1, 2, 3, 4, 5, 6, 7, 8, 9, 10, 11, 12, 13, 14, 15, 16, 17,
                 18, 19, 20, 21, 22, 23, 24, 25, 26, 27, 28, 29, 30}
           c == {0, 1, 2, 3, 4, 6, 7, 10, 11, 12, 13, 14, 16, 17, 18, 22, 25,
                 28, 30, 31}
           d == {0, 1, 2, 3, 6, 8, 10, 11, 12, 13, 16, 17, 19, 20, 23, 26, 31}
           e == {0, 1, 2, 7, 8, 10, 11, 12, 16, 18, 20, 21, 22, 23, 24, 25, 26,
                 27, 29, 31}
           f == {0, 1, 6, 7, 9, 10, 11, 15, 17, 19, 20, 21, 22, 23, 24, 25, 26,
                 28, 30}
           g == {0, 5, 6, 8, 9, 10, 14, 16, 18, 19, 20, 21, 22, 23, 24, 25, 27,
                 29}
           h == {4, 7, 13, 17, 18, 22, 27, 28, 29, 30, 31}
           i == {3, 6, 12, 16, 17, 21, 26, 27, 28, 29, 30}
           byte == {0, 4, 5}
<1>1. /\ a \in Words /\ b \in Words /\ c \in Words /\ d \in Words /\ e \in Words
      /\ f \in Words /\ g \in Words /\ h \in Words /\ i \in Words
  BY DEF Words, WordBits
<1>2. byte \in Bytes
  BY DEF Bytes, ByteBits
<1>3. Becomes(a, b, 0, byte)
  BY DEF Becomes, Polynomial, WordBits
<1>4. Becomes(b, c, 1, byte)
  BY DEF Becomes, Polynomial
<1>5. Becomes(c, d, 2, byte)
  BY DEF Becomes, Polynomial
<1>6. Becomes(d, e, 3, byte)
  BY DEF Becomes, Polynomial
<1>7. Becomes(e, f, 4, byte)
  BY DEF Becomes, Polynomial
<1>8. Becomes(f, g, 5, byte)
  BY DEF Becomes, Polynomial
<1>9. Becomes(g, h, 6, byte)
  BY DEF Becomes, Polynomial
<1>10. Becomes(h, i, 7, byte)
  BY DEF Becomes, Polynomial
<1> HIDE DEF a, b, c, d, e, f, g, h, i, byte
<1>11. Absorb(a, byte) = i
  BY <1>1, <1>2, <1>3, <1>4, <1>5, <1>6, <1>7, <1>8, <1>9, <1>10, OneByte
<1> QED BY <1>11 DEF a, i, byte

LEMMA Digit2 ==
  Absorb({3, 6, 12, 16, 17, 21, 26, 27, 28, 29, 30},
         {1, 4, 5})
    = {1, 4, 5, 8, 9, 11, 12, 13, 15, 18, 19, 21, 23, 28, 29, 31}
<1> DEFINE a == {3, 6, 12, 16, 17, 21, 26, 27, 28, 29, 30}
           b == {2, 5, 11, 15, 16, 20, 25, 26, 27, 28, 29}
           c == {1, 4, 5, 8, 9, 10, 14, 20, 21, 23, 25, 28, 29, 30, 31}
           d == {0, 3, 4, 7, 8, 9, 13, 19, 20, 22, 24, 27, 28, 29, 30}
           e == {2, 3, 5, 6, 7, 9, 12, 15, 18, 20, 24, 28, 30, 31}
           f == {1, 2, 4, 6, 9, 11, 14, 15, 17, 20, 21, 24, 26, 31}
           g == {0, 1, 3, 9, 10, 13, 14, 15, 16, 21, 24, 25, 26, 27, 29, 31}
           h == {0, 2, 5, 12, 13, 14, 19, 21, 25, 27, 28, 29, 31}
           i == {1, 4, 5, 8, 9, 11, 12, 13, 15, 18, 19, 21, 23, 28, 29, 31}
           byte == {1, 4, 5}
<1>1. /\ a \in Words /\ b \in Words /\ c \in Words /\ d \in Words /\ e \in Words
      /\ f \in Words /\ g \in Words /\ h \in Words /\ i \in Words
  BY DEF Words, WordBits
<1>2. byte \in Bytes
  BY DEF Bytes, ByteBits
<1>3. Becomes(a, b, 0, byte)
  BY DEF Becomes, Polynomial
<1>4. Becomes(b, c, 1, byte)
  BY DEF Becomes, Polynomial
<1>5. Becomes(c, d, 2, byte)
  BY DEF Becomes, Polynomial
<1>6. Becomes(d, e, 3, byte)
  BY DEF Becomes, Polynomial
<1>7. Becomes(e, f, 4, byte)
  BY DEF Becomes, Polynomial
<1>8. Becomes(f, g, 5, byte)
  BY DEF Becomes, Polynomial
<1>9. Becomes(g, h, 6, byte)
  BY DEF Becomes, Polynomial
<1>10. Becomes(h, i, 7, byte)
  BY DEF Becomes, Polynomial
<1> HIDE DEF a, b, c, d, e, f, g, h, i, byte
<1>11. Absorb(a, byte) = i
  BY <1>1, <1>2, <1>3, <1>4, <1>5, <1>6, <1>7, <1>8, <1>9, <1>10, OneByte
<1> QED BY <1>11 DEF a, i, byte

LEMMA Digit3 ==
  Absorb({1, 4, 5, 8, 9, 11, 12, 13, 15, 18, 19, 21, 23, 28, 29, 31},
         {0, 1, 4, 5})
    = {0, 2, 3, 5, 10, 11, 12, 15, 16, 17, 18, 20, 21, 23, 24, 25, 26, 28, 29,
       30}
<1> DEFINE a == {1, 4, 5, 8, 9, 11, 12, 13, 15, 18, 19, 21, 23, 28, 29, 31}
           b == {0, 3, 4, 5, 7, 9, 10, 11, 12, 14, 15, 17, 18, 19, 21, 22, 23,
                 24, 26, 28, 29, 31}
           c == {2, 3, 4, 6, 8, 9, 10, 11, 13, 14, 16, 17, 18, 20, 21, 22, 23,
                 25, 27, 28, 30}
           d == {1, 2, 3, 5, 7, 8, 9, 10, 12, 13, 15, 16, 17, 19, 20, 21, 22,
                 24, 26, 27, 29}
           e == {0, 1, 2, 4, 6, 7, 8, 9, 11, 12, 14, 15, 16, 18, 19, 20, 21,
                 23, 25, 26, 28}
           f == {0, 1, 3, 5, 6, 7, 8, 10, 11, 13, 14, 15, 17, 18, 19, 20, 22,
                 24, 25, 27}
           g == {0, 2, 4, 5, 6, 7, 9, 10, 12, 13, 14, 16, 17, 18, 19, 21, 23,
                 24, 26}
           h == {1, 3, 4, 6, 11, 12, 13, 16, 17, 18, 19, 21, 22, 24, 25, 26,
                 27, 29, 30, 31}
           i == {0, 2, 3, 5, 10, 11, 12, 15, 16, 17, 18, 20, 21, 23, 24, 25,
                 26, 28, 29, 30}
           byte == {0, 1, 4, 5}
<1>1. /\ a \in Words /\ b \in Words /\ c \in Words /\ d \in Words /\ e \in Words
      /\ f \in Words /\ g \in Words /\ h \in Words /\ i \in Words
  BY DEF Words, WordBits
<1>2. byte \in Bytes
  BY DEF Bytes, ByteBits
<1>3. Becomes(a, b, 0, byte)
  BY DEF Becomes, Polynomial
<1>4. Becomes(b, c, 1, byte)
  BY DEF Becomes, Polynomial
<1>5. Becomes(c, d, 2, byte)
  BY DEF Becomes, Polynomial
<1>6. Becomes(d, e, 3, byte)
  BY DEF Becomes, Polynomial
<1>7. Becomes(e, f, 4, byte)
  BY DEF Becomes, Polynomial
<1>8. Becomes(f, g, 5, byte)
  BY DEF Becomes, Polynomial
<1>9. Becomes(g, h, 6, byte)
  BY DEF Becomes, Polynomial
<1>10. Becomes(h, i, 7, byte)
  BY DEF Becomes, Polynomial
<1> HIDE DEF a, b, c, d, e, f, g, h, i, byte
<1>11. Absorb(a, byte) = i
  BY <1>1, <1>2, <1>3, <1>4, <1>5, <1>6, <1>7, <1>8, <1>9, <1>10, OneByte
<1> QED BY <1>11 DEF a, i, byte

LEMMA Digit4 ==
  Absorb({0, 2, 3, 5, 10, 11, 12, 15, 16, 17, 18, 20, 21, 23, 24, 25, 26, 28,
          29, 30},
         {2, 4, 5})
    = {2, 3, 4, 6, 8, 9, 10, 11, 12, 18, 19, 20, 26, 29, 30}
<1> DEFINE a == {0, 2, 3, 5, 10, 11, 12, 15, 16, 17, 18, 20, 21, 23, 24, 25,
                 26, 28, 29, 30}
           b == {1, 2, 4, 5, 8, 10, 11, 14, 16, 17, 21, 22, 25, 26, 28, 30, 31}
           c == {0, 1, 3, 4, 7, 9, 10, 13, 15, 16, 20, 21, 24, 25, 27, 29, 30}
           d == {0, 2, 3, 6, 8, 9, 12, 14, 15, 19, 20, 23, 24, 26, 28, 29}
           e == {1, 2, 7, 9, 11, 13, 14, 15, 18, 20, 21, 22, 24, 25, 26, 28,
                 29, 30, 31}
           f == {0, 1, 5, 6, 9, 10, 12, 13, 14, 15, 17, 25, 26, 28, 31}
           g == {0, 4, 5, 8, 9, 11, 12, 13, 14, 16, 24, 25, 27, 30}
           h == {3, 4, 5, 7, 9, 10, 11, 12, 13, 19, 20, 21, 27, 30, 31}
           i == {2, 3, 4, 6, 8, 9, 10, 11, 12, 18, 19, 20, 26, 29, 30}
           byte == {2, 4, 5}
<1>1. /\ a \in Words /\ b \in Words /\ c \in Words /\ d \in Words /\ e \in Words
      /\ f \in Words /\ g \in Words /\ h \in Words /\ i \in Words
  BY DEF Words, WordBits
<1>2. byte \in Bytes
  BY DEF Bytes, ByteBits
<1>3. Becomes(a, b, 0, byte)
  BY DEF Becomes, Polynomial
<1>4. Becomes(b, c, 1, byte)
  BY DEF Becomes, Polynomial
<1>5. Becomes(c, d, 2, byte)
  BY DEF Becomes, Polynomial
<1>6. Becomes(d, e, 3, byte)
  BY DEF Becomes, Polynomial
<1>7. Becomes(e, f, 4, byte)
  BY DEF Becomes, Polynomial
<1>8. Becomes(f, g, 5, byte)
  BY DEF Becomes, Polynomial
<1>9. Becomes(g, h, 6, byte)
  BY DEF Becomes, Polynomial
<1>10. Becomes(h, i, 7, byte)
  BY DEF Becomes, Polynomial
<1> HIDE DEF a, b, c, d, e, f, g, h, i, byte
<1>11. Absorb(a, byte) = i
  BY <1>1, <1>2, <1>3, <1>4, <1>5, <1>6, <1>7, <1>8, <1>9, <1>10, OneByte
<1> QED BY <1>11 DEF a, i, byte

LEMMA Digit5 ==
  Absorb({2, 3, 4, 6, 8, 9, 10, 11, 12, 18, 19, 20, 26, 29, 30},
         {0, 2, 4, 5})
    = {0, 1, 5, 6, 7, 8, 10, 14, 15, 17, 19, 26, 28, 29}
<1> DEFINE a == {2, 3, 4, 6, 8, 9, 10, 11, 12, 18, 19, 20, 26, 29, 30}
           b == {1, 2, 3, 7, 10, 11, 15, 17, 18, 20, 21, 23, 24, 25, 26, 27,
                 28, 30, 31}
           c == {0, 1, 2, 6, 9, 10, 14, 16, 17, 19, 20, 22, 23, 24, 25, 26, 27,
                 29, 30}
           d == {0, 1, 5, 8, 9, 13, 15, 16, 18, 19, 21, 22, 23, 24, 25, 26, 28,
                 29}
           e == {0, 4, 5, 7, 9, 12, 14, 17, 18, 19, 22, 25, 26, 28, 29, 30, 31}
           f == {3, 4, 6, 8, 11, 13, 16, 17, 18, 21, 24, 25, 27, 28, 29, 30}
           g == {2, 3, 7, 8, 9, 10, 12, 16, 17, 19, 21, 28, 30, 31}
           h == {1, 2, 6, 7, 8, 9, 11, 15, 16, 18, 20, 27, 29, 30}
           i == {0, 1, 5, 6, 7, 8, 10, 14, 15, 17, 19, 26, 28, 29}
           byte == {0, 2, 4, 5}
<1>1. /\ a \in Words /\ b \in Words /\ c \in Words /\ d \in Words /\ e \in Words
      /\ f \in Words /\ g \in Words /\ h \in Words /\ i \in Words
  BY DEF Words, WordBits
<1>2. byte \in Bytes
  BY DEF Bytes, ByteBits
<1>3. Becomes(a, b, 0, byte)
  BY DEF Becomes, Polynomial
<1>4. Becomes(b, c, 1, byte)
  BY DEF Becomes, Polynomial
<1>5. Becomes(c, d, 2, byte)
  BY DEF Becomes, Polynomial
<1>6. Becomes(d, e, 3, byte)
  BY DEF Becomes, Polynomial
<1>7. Becomes(e, f, 4, byte)
  BY DEF Becomes, Polynomial
<1>8. Becomes(f, g, 5, byte)
  BY DEF Becomes, Polynomial
<1>9. Becomes(g, h, 6, byte)
  BY DEF Becomes, Polynomial
<1>10. Becomes(h, i, 7, byte)
  BY DEF Becomes, Polynomial
<1> HIDE DEF a, b, c, d, e, f, g, h, i, byte
<1>11. Absorb(a, byte) = i
  BY <1>1, <1>2, <1>3, <1>4, <1>5, <1>6, <1>7, <1>8, <1>9, <1>10, OneByte
<1> QED BY <1>11 DEF a, i, byte

LEMMA Digit6 ==
  Absorb({0, 1, 5, 6, 7, 8, 10, 14, 15, 17, 19, 26, 28, 29},
         {1, 2, 4, 5})
    = {1, 2, 3, 4, 7, 10, 11, 13, 16, 18, 19, 23, 25, 26, 28, 29, 30, 31}
<1> DEFINE a == {0, 1, 5, 6, 7, 8, 10, 14, 15, 17, 19, 26, 28, 29}
           b == {0, 4, 6, 7, 8, 13, 14, 15, 16, 18, 19, 20, 21, 23, 24, 25, 26,
                 28, 29, 30, 31}
           c == {3, 5, 6, 7, 12, 13, 14, 15, 17, 18, 19, 20, 22, 23, 24, 25,
                 27, 28, 29, 30}
           d == {2, 4, 6, 8, 9, 11, 12, 13, 14, 15, 16, 17, 18, 20, 22, 28, 30,
                 31}
           e == {1, 3, 5, 7, 8, 10, 11, 12, 13, 14, 15, 16, 17, 19, 21, 27, 29,
                 30}
           f == {0, 2, 4, 5, 6, 7, 8, 10, 11, 12, 13, 14, 16, 18, 19, 21, 23,
                 24, 27, 28, 30, 31}
           g == {1, 3, 4, 5, 6, 7, 9, 10, 11, 12, 13, 15, 17, 18, 20, 22, 23,
                 26, 27, 29, 30}
           h == {0, 2, 3, 4, 5, 6, 8, 9, 10, 11, 12, 14, 16, 17, 19, 21, 22,
                 25, 26, 28, 29}
           i == {1, 2, 3, 4, 7, 10, 11, 13, 16, 18, 19, 23, 25, 26, 28, 29, 30,
                 31}
           byte == {1, 2, 4, 5}
<1>1. /\ a \in Words /\ b \in Words /\ c \in Words /\ d \in Words /\ e \in Words
      /\ f \in Words /\ g \in Words /\ h \in Words /\ i \in Words
  BY DEF Words, WordBits
<1>2. byte \in Bytes
  BY DEF Bytes, ByteBits
<1>3. Becomes(a, b, 0, byte)
  BY DEF Becomes, Polynomial
<1>4. Becomes(b, c, 1, byte)
  BY DEF Becomes, Polynomial
<1>5. Becomes(c, d, 2, byte)
  BY DEF Becomes, Polynomial
<1>6. Becomes(d, e, 3, byte)
  BY DEF Becomes, Polynomial
<1>7. Becomes(e, f, 4, byte)
  BY DEF Becomes, Polynomial
<1>8. Becomes(f, g, 5, byte)
  BY DEF Becomes, Polynomial
<1>9. Becomes(g, h, 6, byte)
  BY DEF Becomes, Polynomial
<1>10. Becomes(h, i, 7, byte)
  BY DEF Becomes, Polynomial
<1> HIDE DEF a, b, c, d, e, f, g, h, i, byte
<1>11. Absorb(a, byte) = i
  BY <1>1, <1>2, <1>3, <1>4, <1>5, <1>6, <1>7, <1>8, <1>9, <1>10, OneByte
<1> QED BY <1>11 DEF a, i, byte

LEMMA Digit7 ==
  Absorb({1, 2, 3, 4, 7, 10, 11, 13, 16, 18, 19, 23, 25, 26, 28, 29, 30, 31},
         {0, 1, 2, 4, 5})
    = {5, 6, 9, 10, 12, 15, 18, 19, 20, 21, 22, 23, 24, 25, 26, 27, 29, 31}
<1> DEFINE a == {1, 2, 3, 4, 7, 10, 11, 13, 16, 18, 19, 23, 25, 26, 28, 29, 30,
                 31}
           b == {0, 1, 2, 3, 5, 6, 8, 10, 12, 17, 18, 19, 20, 21, 22, 23, 25,
                 26, 28, 31}
           c == {0, 1, 2, 4, 5, 7, 9, 11, 16, 17, 18, 19, 20, 21, 22, 24, 25,
                 27, 30}
           d == {0, 1, 3, 4, 6, 8, 10, 15, 16, 17, 18, 19, 20, 21, 23, 24, 26,
                 29}
           e == {0, 2, 3, 7, 8, 14, 16, 17, 18, 21, 22, 24, 25, 26, 27, 28, 29,
                 30, 31}
           f == {1, 2, 6, 7, 13, 15, 16, 17, 20, 21, 23, 24, 25, 26, 27, 28,
                 29, 30}
           g == {0, 1, 6, 8, 9, 12, 14, 16, 21, 22, 25, 28, 30, 31}
           h == {0, 7, 9, 11, 13, 19, 23, 26, 31}
           i == {5, 6, 9, 10, 12, 15, 18, 19, 20, 21, 22, 23, 24, 25, 26, 27,
                 29, 31}
           byte == {0, 1, 2, 4, 5}
<1>1. /\ a \in Words /\ b \in Words /\ c \in Words /\ d \in Words /\ e \in Words
      /\ f \in Words /\ g \in Words /\ h \in Words /\ i \in Words
  BY DEF Words, WordBits
<1>2. byte \in Bytes
  BY DEF Bytes, ByteBits
<1>3. Becomes(a, b, 0, byte)
  BY DEF Becomes, Polynomial
<1>4. Becomes(b, c, 1, byte)
  BY DEF Becomes, Polynomial
<1>5. Becomes(c, d, 2, byte)
  BY DEF Becomes, Polynomial
<1>6. Becomes(d, e, 3, byte)
  BY DEF Becomes, Polynomial
<1>7. Becomes(e, f, 4, byte)
  BY DEF Becomes, Polynomial
<1>8. Becomes(f, g, 5, byte)
  BY DEF Becomes, Polynomial
<1>9. Becomes(g, h, 6, byte)
  BY DEF Becomes, Polynomial
<1>10. Becomes(h, i, 7, byte)
  BY DEF Becomes, Polynomial
<1> HIDE DEF a, b, c, d, e, f, g, h, i, byte
<1>11. Absorb(a, byte) = i
  BY <1>1, <1>2, <1>3, <1>4, <1>5, <1>6, <1>7, <1>8, <1>9, <1>10, OneByte
<1> QED BY <1>11 DEF a, i, byte

LEMMA Digit8 ==
  Absorb({5, 6, 9, 10, 12, 15, 18, 19, 20, 21, 22, 23, 24, 25, 26, 27, 29, 31},
         {3, 4, 5})
    = {4, 6, 8, 10, 13, 16, 17, 18, 19, 20, 24, 26, 29, 30}
<1> DEFINE a == {5, 6, 9, 10, 12, 15, 18, 19, 20, 21, 22, 23, 24, 25, 26, 27,
                 29, 31}
           b == {4, 5, 8, 9, 11, 14, 17, 18, 19, 20, 21, 22, 23, 24, 25, 26,
                 28, 30}
           c == {3, 4, 7, 8, 10, 13, 16, 17, 18, 19, 20, 21, 22, 23, 24, 25,
                 27, 29}
           d == {2, 3, 6, 7, 9, 12, 15, 16, 17, 18, 19, 20, 21, 22, 23, 24, 26,
                 28}
           e == {1, 2, 6, 9, 11, 14, 16, 17, 18, 22, 24, 25, 26, 29, 30, 31}
           f == {0, 1, 9, 10, 13, 16, 17, 19, 20, 25, 26, 27, 28, 31}
           g == {0, 8, 9, 12, 15, 16, 18, 19, 24, 25, 26, 27, 30}
           h == {5, 7, 9, 11, 14, 17, 18, 19, 20, 21, 25, 27, 30, 31}
           i == {4, 6, 8, 10, 13, 16, 17, 18, 19, 20, 24, 26, 29, 30}
           byte == {3, 4, 5}
<1>1. /\ a \in Words /\ b \in Words /\ c \in Words /\ d \in Words /\ e \in Words
      /\ f \in Words /\ g \in Words /\ h \in Words /\ i \in Words
  BY DEF Words, WordBits
<1>2. byte \in Bytes
  BY DEF Bytes, ByteBits
<1>3. Becomes(a, b, 0, byte)
  BY DEF Becomes, Polynomial
<1>4. Becomes(b, c, 1, byte)
  BY DEF Becomes, Polynomial
<1>5. Becomes(c, d, 2, byte)
  BY DEF Becomes, Polynomial
<1>6. Becomes(d, e, 3, byte)
  BY DEF Becomes, Polynomial
<1>7. Becomes(e, f, 4, byte)
  BY DEF Becomes, Polynomial
<1>8. Becomes(f, g, 5, byte)
  BY DEF Becomes, Polynomial
<1>9. Becomes(g, h, 6, byte)
  BY DEF Becomes, Polynomial
<1>10. Becomes(h, i, 7, byte)
  BY DEF Becomes, Polynomial
<1> HIDE DEF a, b, c, d, e, f, g, h, i, byte
<1>11. Absorb(a, byte) = i
  BY <1>1, <1>2, <1>3, <1>4, <1>5, <1>6, <1>7, <1>8, <1>9, <1>10, OneByte
<1> QED BY <1>11 DEF a, i, byte

LEMMA Digit9 ==
  Absorb({4, 6, 8, 10, 13, 16, 17, 18, 19, 20, 24, 26, 29, 30},
         {0, 3, 4, 5})
    = {0, 3, 4, 6, 7, 9, 10, 14, 15, 16, 17, 19, 26, 28, 29}
<1> DEFINE a == {4, 6, 8, 10, 13, 16, 17, 18, 19, 20, 24, 26, 29, 30}
           b == {3, 7, 8, 12, 16, 17, 18, 20, 21, 24, 25, 26, 27, 28, 30, 31}
           c == {2, 6, 7, 11, 15, 16, 17, 19, 20, 23, 24, 25, 26, 27, 29, 30}
           d == {1, 5, 6, 10, 14, 15, 16, 18, 19, 22, 23, 24, 25, 26, 28, 29}
           e == {0, 4, 8, 13, 14, 17, 18, 19, 20, 22, 25, 26, 28, 29, 30, 31}
           f == {3, 7, 12, 13, 16, 17, 18, 19, 21, 24, 25, 27, 28, 29, 30}
           g == {2, 5, 6, 8, 9, 11, 12, 16, 17, 18, 19, 21, 28, 30, 31}
           h == {1, 4, 5, 7, 8, 10, 11, 15, 16, 17, 18, 20, 27, 29, 30}
           i == {0, 3, 4, 6, 7, 9, 10, 14, 15, 16, 17, 19, 26, 28, 29}
           byte == {0, 3, 4, 5}
<1>1. /\ a \in Words /\ b \in Words /\ c \in Words /\ d \in Words /\ e \in Words
      /\ f \in Words /\ g \in Words /\ h \in Words /\ i \in Words
  BY DEF Words, WordBits
<1>2. byte \in Bytes
  BY DEF Bytes, ByteBits
<1>3. Becomes(a, b, 0, byte)
  BY DEF Becomes, Polynomial
<1>4. Becomes(b, c, 1, byte)
  BY DEF Becomes, Polynomial
<1>5. Becomes(c, d, 2, byte)
  BY DEF Becomes, Polynomial
<1>6. Becomes(d, e, 3, byte)
  BY DEF Becomes, Polynomial
<1>7. Becomes(e, f, 4, byte)
  BY DEF Becomes, Polynomial
<1>8. Becomes(f, g, 5, byte)
  BY DEF Becomes, Polynomial
<1>9. Becomes(g, h, 6, byte)
  BY DEF Becomes, Polynomial
<1>10. Becomes(h, i, 7, byte)
  BY DEF Becomes, Polynomial
<1> HIDE DEF a, b, c, d, e, f, g, h, i, byte
<1>11. Absorb(a, byte) = i
  BY <1>1, <1>2, <1>3, <1>4, <1>5, <1>6, <1>7, <1>8, <1>9, <1>10, OneByte
<1> QED BY <1>11 DEF a, i, byte

\* The check value, and the checksum of nothing.
LEMMA CheckValueIs == CheckValueMatches
<1>1. Digits \in Seq(Bytes) /\ Len(Digits) = 9
  <2>1. \A b \in {Digits[1], Digits[2], Digits[3], Digits[4], Digits[5],
                  Digits[6], Digits[7], Digits[8], Digits[9]} : b \in Bytes
    BY DEF Digits, Bytes, ByteBits
  <2> QED BY <2>1 DEF Digits
<1>2. PICK r : Registers(Digits, 9, r)
  BY <1>1, FoldSteps
<1>3. r[0] = WordBits /\ \A k \in 1 .. 9 : r[k] = Absorb(r[k - 1], Digits[k])
  BY <1>2 DEF Registers
<1>4. /\ r[1] = Absorb(r[0], Digits[1]) /\ r[2] = Absorb(r[1], Digits[2])
      /\ r[3] = Absorb(r[2], Digits[3]) /\ r[4] = Absorb(r[3], Digits[4])
      /\ r[5] = Absorb(r[4], Digits[5]) /\ r[6] = Absorb(r[5], Digits[6])
      /\ r[7] = Absorb(r[6], Digits[7]) /\ r[8] = Absorb(r[7], Digits[8])
      /\ r[9] = Absorb(r[8], Digits[9])
  BY <1>3
<1>5. /\ Digits[1] = {0, 4, 5}
      /\ Digits[2] = {1, 4, 5}
      /\ Digits[3] = {0, 1, 4, 5}
      /\ Digits[4] = {2, 4, 5}
      /\ Digits[5] = {0, 2, 4, 5}
      /\ Digits[6] = {1, 2, 4, 5}
      /\ Digits[7] = {0, 1, 2, 4, 5}
      /\ Digits[8] = {3, 4, 5}
      /\ Digits[9] = {0, 3, 4, 5}
  BY DEF Digits
<1>6. r[1] = {3, 6, 12, 16, 17, 21, 26, 27, 28, 29, 30}
  BY <1>3, <1>4, <1>5, Digit1, Zenon
<1>7. r[2] = {1, 4, 5, 8, 9, 11, 12, 13, 15, 18, 19, 21, 23, 28, 29, 31}
  BY <1>6, <1>4, <1>5, Digit2, Zenon
<1>8. r[3] = {0, 2, 3, 5, 10, 11, 12, 15, 16, 17, 18, 20, 21, 23, 24, 25, 26, 28, 29, 30}
  BY <1>7, <1>4, <1>5, Digit3, Zenon
<1>9. r[4] = {2, 3, 4, 6, 8, 9, 10, 11, 12, 18, 19, 20, 26, 29, 30}
  BY <1>8, <1>4, <1>5, Digit4, Zenon
<1>10. r[5] = {0, 1, 5, 6, 7, 8, 10, 14, 15, 17, 19, 26, 28, 29}
  BY <1>9, <1>4, <1>5, Digit5, Zenon
<1>11. r[6] = {1, 2, 3, 4, 7, 10, 11, 13, 16, 18, 19, 23, 25, 26, 28, 29, 30, 31}
  BY <1>10, <1>4, <1>5, Digit6, Zenon
<1>12. r[7] = {5, 6, 9, 10, 12, 15, 18, 19, 20, 21, 22, 23, 24, 25, 26, 27, 29, 31}
  BY <1>11, <1>4, <1>5, Digit7, Zenon
<1>13. r[8] = {4, 6, 8, 10, 13, 16, 17, 18, 19, 20, 24, 26, 29, 30}
  BY <1>12, <1>4, <1>5, Digit8, Zenon
<1>14. r[9] = {0, 3, 4, 6, 7, 9, 10, 14, 15, 16, 17, 19, 26, 28, 29}
  BY <1>13, <1>4, <1>5, Digit9, Zenon
<1>15. WordBits \ r[9] = CheckValue
  BY <1>14 DEF WordBits, CheckValue
<1>16. crc32(Digits) = CheckValue
  BY <1>2, <1>15 DEF crc32, Registers
<1>17. crc32(<< >>) = {}
  <2>1. << >> \in Seq(Bytes) /\ Len(<< >>) = 0
    OBVIOUS
  <2>2. PICK q : Registers(<< >>, 0, q)
    BY <2>1, FoldSteps
  <2> QED BY <2>2 DEF crc32, Registers
<1> QED BY <1>16, <1>17 DEF CheckValueMatches

\* In every state crc32 is CRC-32/ISO-HDLC: the table does to the register what
\* the polynomial does bit by bit, and the value that identifies the algorithm
\* comes out.
THEOREM ChecksumIsRight == Spec => []ChecksumIsCrc32
<1>1. PacketInv => ChecksumIsCrc32
  <2> SUFFICES ASSUME PacketInv PROVE ChecksumIsCrc32
    OBVIOUS
  <2>1. Fold(decoded) \in Words
    <3>1. decoded \in Seq(Bytes)
      BY DEF PacketInv
    <3>2. PICK r : Registers(decoded, Len(decoded), r)
      BY <3>1, FoldSteps
    <3>3. Len(decoded) \in 0 .. Len(decoded)
      BY <3>1
    <3> QED BY <3>2, <3>3 DEF Registers
  <2>2. \A byte \in {{}, {0, 3, 4, 7}} : byte \in Bytes
    BY DEF Bytes, ByteBits
  <2>3. \A byte \in {{}, {0, 3, 4, 7}} :
          Absorb(Fold(decoded), byte) = Serial(Fold(decoded), byte)
    BY <2>1, <2>2, TableIsSerial
  <2> QED BY <2>3, CheckValueIs DEF ChecksumIsCrc32
<1> QED BY <1>1, InitPacket, NextPacket, PTL DEF Spec
==============================================================================
