-------------------------- MODULE PduFormatProofs ---------------------------
(***************************************************************************)
(* A name of at most 127 bytes survives create, validate and parse, for    *)
(* every length of name and text and every sum of the bytes; so does every *)
(* list of members without an empty name, and every list of servers that   *)
(* has arrived whole.                                                      *)
(***************************************************************************)
EXTENDS PduFormat, FiniteSetTheorems, FunctionTheorems, SequenceTheorems, TLAPS

(* What the creating function has put into a PDU whose identity has a      *)
(* length that a char holds.                                               *)
Laid ==
  /\ idLen = ident
  /\ op \in {"JOIN", "REG"} => size = 4 + Padded(ident)
  /\ op \in {"PJOIN"} => size = 8 + Padded(ident)
  /\ op \in {"MESS"} =>
       size = 12 + Padded(text) + Padded(ident) /\ crc = Checksum(sum)

FormatInv ==
  /\ op \in {"JOIN", "PJOIN", "REG", "MESS", "PARTICIPANTS", "SLIST"}
  /\ ident \in 0..254 /\ text \in Nat /\ sum \in Nat
  /\ op = "MESS" => text > 0
  /\ stage \in {"new", "made", "valid", "refused", "read", "dead", "garbled"}
  /\ op \notin Lists /\ ident <= 127 =>
       /\ stage \in {"made", "valid", "refused", "read"} => Laid
       /\ stage \notin {"dead", "garbled"}
       /\ stage = "refused" => op = "MESS" /\ sum % 65536 = 65535
       /\ stage = "read" => read = ident
       /\ size % 4 = 0
  /\ op \in {"JOIN", "PJOIN", "MESS"} /\ ident > 127 =>
       /\ stage \in {"made", "valid"} => idLen \in -128..-1
       /\ stage # "read"

LEMMA CharOfShort ==
  ASSUME NEW n \in 0..127
  PROVE  Char(n) = n /\ UnsignedChar(n) = n
BY DEF Char, UnsignedChar

LEMMA CharOfLong ==
  ASSUME NEW n \in 128..255
  PROVE  Char(n) \in -128..-1
BY DEF Char

(* PDU.c, getNrPads: whole words.                                          *)
LEMMA PadsFillWords ==
  ASSUME NEW n \in Nat
  PROVE  Padded(n) \in Nat /\ Padded(n) % 4 = 0 /\ Padded(n) >= n
BY DEF Padded, getNrPads

LEMMA CharTyped ==
  ASSUME NEW n \in Nat
  PROVE  Char(n) \in -128..127 /\ Padded(Char(n)) \in Int /\ getNrPads(Char(n)) \in Int
<1>1. Char(n) \in -128..127
  BY DEF Char
<1>2. \A c \in -128..127 : getNrPads(c) \in Int /\ Padded(c) \in Int
  BY DEF getNrPads, Padded
<1>3. QED
  BY <1>1, <1>2

LEMMA Div255 ==
  ASSUME NEW n \in Nat
  PROVE  \E q, r \in Nat : r <= 254 /\ n = (255 * q) + r /\ n % 255 = r
<1>1. n \div 255 \in Nat /\ n % 255 \in Nat /\ n % 255 <= 254
  OBVIOUS
<1>2. n = (255 * (n \div 255)) + (n % 255)
  OBVIOUS
<1>3. QED
  BY <1>1, <1>2

LEMMA Div65536 ==
  ASSUME NEW n \in Nat
  PROVE  \E q, r \in Nat : r <= 65535 /\ n = (65536 * q) + r /\ n % 65536 = r
<1>1. n \div 65536 \in Nat /\ n % 65536 \in Nat /\ n % 65536 <= 65535
  OBVIOUS
<1>2. n = (65536 * (n \div 65536)) + (n % 65536)
  OBVIOUS
<1>3. QED
  BY <1>1, <1>2

(* The sum of the bytes with the checksum among them gives 255, unless it  *)
(* is carried out of the unsigned short.                                   *)
LEMMA ChecksumChecks ==
  ASSUME NEW s \in Nat
  PROVE  /\ Checksum(s) \in 1..255
         /\ s % 65536 # 65535 => Checksum(s + Checksum(s)) = 255
         /\ s % 65536 = 65535 => Checksum(s + Checksum(s)) # 255
<1>1. PICK k \in Nat, w \in Nat :
        w <= 65535 /\ s = (65536 * k) + w /\ s % 65536 = w
  BY Div65536
<1>2. PICK q \in Nat, r \in Nat : r <= 254 /\ w = (255 * q) + r /\ w % 255 = r
  BY Div255
<1>3. PICK d \in Nat : d = 255 - r /\ 1 <= d /\ d <= 255
  BY <1>2
<1>4. Checksum(s) = d
  BY <1>1, <1>2, <1>3 DEF Checksum
<1>5. w + d = 255 * (q + 1)
  BY <1>2, <1>3
<1>6. CASE w # 65535
  <2>1. q <= 256
    BY <1>1, <1>2, <1>6
  <2>2. PICK t \in Nat : t = w + d /\ t <= 65535
    BY <1>5, <2>1
  <2>3. s + d = (65536 * k) + t
    BY <1>1, <2>2
  <2>4. (s + d) % 65536 = t
    BY <2>2, <2>3
  <2>5. t % 255 = 0
    BY <1>5, <2>2
  <2>6. Checksum(s + d) = 255
    BY <2>4, <2>5 DEF Checksum
  <2>7. QED
    BY <1>1, <1>3, <1>4, <1>6, <2>6
<1>7. CASE w = 65535
  <2>1. d = 255
    BY <1>2, <1>3, <1>7
  <2>2. s + d = (65536 * (k + 1)) + 254
    BY <1>1, <1>7, <2>1
  <2>3. (s + d) % 65536 = 254
    BY <2>2
  <2>4. Checksum(s + d) = 1
    BY <2>3 DEF Checksum
  <2>5. QED
    BY <1>1, <1>3, <1>4, <1>7, <2>4
<1>8. QED
  BY <1>6, <1>7

LEMMA FormatInit == Init => FormatInv
<1> SUFFICES ASSUME Init PROVE FormatInv
  OBVIOUS
<1>0. ident \in NameLens \cup {0} /\ stage = "new" /\ size = 0
  BY DEF Init, Lists
<1>1. ident \in 0..254
  BY <1>0, FormatAssumption
<1>1a. size % 4 = 0
  BY <1>0
<1>2. CASE op = "MESS"
  <2>1. text \in Nat /\ 1 <= text /\ sum \in Nat
    <3>1. text \in TextLens /\ sum \in Sums
      BY <1>2 DEF Init
    <3>2. QED
      BY <3>1, FormatAssumption
  <2>2. text \in Nat /\ text > 0
    BY <2>1
  <2>3. QED
    BY <1>0, <1>1, <1>1a, <1>2, <2>1, <2>2 DEF FormatInv
<1>3. CASE op # "MESS"
  <2>1. text = 0 /\ sum = 0 /\ op \in {"JOIN", "PJOIN", "REG", "PARTICIPANTS", "SLIST"}
    BY <1>3 DEF Init
  <2>2. QED
    BY <1>0, <1>1, <1>1a, <2>1 DEF FormatInv
<1>4. QED
  BY <1>2, <1>3

(* The three creating functions lay an identity out that a char can count. *)
LEMMA Creates ==
  ASSUME FormatInv, NEW bytes \in Int, NEW kept, Made(bytes, kept), op \notin Lists,
         ident <= 127 => (kept /\ bytes % 4 = 0 /\ Laid')
  PROVE  FormatInv'
<1>1. CASE ident <= 127
  <2>1. stage' = "made" /\ size' = bytes /\ UNCHANGED <<op, ident, text, sum, read>>
    BY <1>1 DEF Made, input
  <2>2. QED
    BY <1>1, <2>1 DEF FormatInv
<1>2. CASE ident > 127
  <2>1. /\ stage' \in {"made", "dead", "garbled"} /\ UNCHANGED <<op, ident, text, sum>>
        /\ idLen' = Char(ident)
    BY DEF Made, input
  <2>2. ident \in 0..254
    BY DEF FormatInv
  <2>3. ident \in 128..255
    BY <1>2, <2>2
  <2>4. Char(ident) \in -128..-1
    BY <2>3, CharOfLong
  <2>5. QED
    BY <1>2, <2>1, <2>4 DEF FormatInv
<1>3. QED
  BY <1>1, <1>2 DEF FormatInv

LEMMA FormatStep == FormatInv /\ [Next]_vars => FormatInv'
<1> SUFFICES ASSUME FormatInv, [Next]_vars PROVE FormatInv'
  OBVIOUS
<1>0. ident \in Nat /\ text \in Nat /\ sum \in Nat /\ ident \in 0..254
  BY DEF FormatInv
<1>a. /\ Padded(ident) \in Nat /\ Padded(ident) % 4 = 0 /\ Padded(ident) >= ident
      /\ Padded(text) \in Nat /\ Padded(text) % 4 = 0 /\ Padded(text) >= text
  BY <1>0, PadsFillWords
<1>b. ident <= 127 => Char(ident) = ident /\ UnsignedChar(ident) = ident
  BY <1>0, CharOfShort
<1>c. Char(ident) \in Int /\ Padded(Char(ident)) \in Int
  BY <1>0, CharTyped
<1>1. CASE create_JOIN
  BY <1>1, <1>0, <1>a, <1>b, <1>c, Creates DEF create_JOIN, Laid, Made, input, Lists
<1>1r. CASE create_REG
  BY <1>1r, <1>0, <1>a, <1>b, <1>c, Creates DEF create_REG, Laid, Made, input, Lists
<1>2. CASE create_PJOIN
  BY <1>2, <1>0, <1>a, <1>b, <1>c, Creates DEF create_PJOIN, Laid, Made, input, Lists
<1>3. CASE create_MESS
  <2> DEFINE named == getNrPads(UnsignedChar(Char(ident))) + Char(ident)
             bytes == 12 + Padded(text) + named
  <2>1. /\ op = "MESS" /\ Made(bytes, named >= 0) /\ crc' = Checksum(sum)
        /\ size' = bytes /\ idLen' = Char(ident) /\ UNCHANGED <<op, ident, text, sum>>
    BY <1>3 DEF create_MESS, Made, input
  <2>2. getNrPads(ident) \in Nat /\ Char(ident) \in Int /\ UnsignedChar(Char(ident)) \in Nat
    BY <1>0 DEF getNrPads, Char, UnsignedChar
  <2>3. bytes \in Int
    BY <1>0, <1>a, <2>2 DEF getNrPads
  <2>4. ASSUME ident <= 127 PROVE named >= 0 /\ bytes % 4 = 0 /\ Laid'
    <3>0. named = Padded(ident) /\ named >= 0
      <4>1. Char(ident) = ident /\ UnsignedChar(Char(ident)) = ident
        BY <1>b, <2>4
      <4>2. named = Padded(ident)
        BY <1>0, <2>2, <4>1 DEF Padded
      <4>3. QED
        BY <1>0, <1>a, <4>2
    <3>1. bytes = 12 + Padded(text) + Padded(ident)
      BY <3>0
    <3>2. bytes % 4 = 0
      BY <3>1, <1>a
    <3>3. idLen' = ident'
      BY <1>b, <2>1, <2>4
    <3>4. size' = 12 + Padded(text') + Padded(ident') /\ crc' = Checksum(sum') /\ op' = "MESS"
      BY <2>1, <3>1
    <3>5. QED
      BY <3>0, <3>2, <3>3, <3>4 DEF Laid
  <2>5. QED
    BY <2>1, <2>3, <2>4, Creates DEF Lists
<1>4. CASE validate_JOIN
  BY <1>4, <1>a DEF validate_JOIN, Validated, FormatInv, Laid, input, Lists
<1>5. CASE validate_PJOIN_PLEAVE
  BY <1>5, <1>a DEF validate_PJOIN_PLEAVE, Validated, FormatInv, Laid, input, Lists
<1>6. CASE validate_MESS
  <2>1. /\ op = "MESS" /\ stage = "made" /\ stage' \in {"valid", "refused"}
        /\ UNCHANGED <<op, ident, text, sum, size, idLen, crc, read>>
    BY <1>6 DEF validate_MESS, Validated, input
  <2>2. ASSUME ident <= 127, stage' = "refused" PROVE sum % 65536 = 65535
    <3>1. idLen = ident /\ crc = Checksum(sum) /\ size = 12 + Padded(text) + Padded(ident)
      BY <2>1, <2>2 DEF FormatInv, Laid, Lists
    <3>2. Padded(text) >= 1 /\ Padded(text) % 4 = 0
      BY <1>0, <1>a, <2>1 DEF FormatInv
    <3>3. size >= 16
      BY <1>a, <3>1, <3>2
    <3>4. Checksum(sum + Checksum(sum)) # 255
      BY <1>6, <2>1, <2>2, <3>1, <3>3 DEF validate_MESS, Validated
    <3>5. QED
      BY <1>0, <3>4, ChecksumChecks
  <2>3. ASSUME ident > 127, stage' = "valid" PROVE idLen' \in -128..-1
    BY <2>1, <2>3 DEF FormatInv
  <2>4. QED
    BY <2>1, <2>2, <2>3 DEF FormatInv, Laid
<1>7. CASE parse_JOIN \/ parse_PJOIN \/ parse_MSG
  <2>1. /\ op \in {"JOIN", "PJOIN", "MESS"} /\ stage = "valid"
        /\ UNCHANGED <<op, ident, text, sum, size, idLen, crc>>
        /\ \/ idLen >= 0 /\ stage' = "read" /\ read' = idLen
           \/ idLen < 0 /\ stage' = "dead"
    BY <1>7 DEF parse_JOIN, parse_PJOIN, parse_MSG, ReadName, input
  <2>2. CASE ident <= 127
    <3>1. Laid /\ idLen = ident
      BY <2>1, <2>2 DEF FormatInv, Laid, Lists
    <3>2. stage' = "read" /\ read' = ident
      BY <1>0, <2>1, <3>1
    <3>3. Laid'
      BY <2>1, <3>1 DEF Laid, Padded
    <3>4. QED
      BY <2>1, <2>2, <3>2, <3>3 DEF FormatInv, Lists
  <2>3. CASE ident > 127
    <3>1. idLen \in -128..-1
      BY <2>1, <2>3 DEF FormatInv
    <3>2. stage' = "dead"
      BY <2>1, <3>1
    <3>3. QED
      BY <2>1, <2>3, <3>2 DEF FormatInv
  <2>4. QED
    BY <1>0, <2>2, <2>3
<1>7r. CASE parse_REG
  BY <1>7r, <1>0 DEF parse_REG, FormatInv, Laid, Copied, input, Lists
<1>8. CASE UNCHANGED vars
  BY <1>8 DEF vars, input, FormatInv, Laid
<1>9. CASE \/ create_PARTICIPANTS \/ RecvSLIST
           \/ validate_PARTICIPANTS \/ validate_SLIST
           \/ parse_PARTICIPANTS \/ parse_SLIST
  <2>1. /\ op \in Lists /\ UNCHANGED <<op, ident, text, sum>>
        /\ stage' \in {"made", "valid", "refused", "read", "garbled"}
    BY <1>9 DEF create_PARTICIPANTS, RecvSLIST, validate_PARTICIPANTS, validate_SLIST,
                parse_PARTICIPANTS, parse_SLIST, Validated, input, Lists
  <2>2. QED
    BY <2>1 DEF FormatInv, Lists
<1>10. QED
  BY <1>1, <1>1r, <1>2, <1>3, <1>4, <1>5, <1>6, <1>7, <1>7r, <1>8, <1>9 DEF Next

(* PDU.c and pdu_validator.c: an identity of at most 127 bytes is created, *)
(* validated and parsed back.                                              *)
THEOREM IdentityCarried == Spec => []RoundTrip
<1>1. FormatInv => RoundTrip
  <2>1. ASSUME FormatInv, op \in {"JOIN", "PJOIN", "MESS"}, stage = "read" PROVE read = ident
    <3>1. ident \in 0..254 /\ ~(ident > 127)
      BY <2>1 DEF FormatInv
    <3>2. QED
      BY <2>1, <3>1 DEF FormatInv, Lists
  <2>2. QED
    BY <2>1 DEF FormatInv, RoundTrip
<1>2. QED
  BY FormatInit, FormatStep, <1>1, PTL DEF Spec

-----------------------------------------------------------------------------
(* What create_PARTICIPANTS has put into the PDU, and what the validator   *)
(* and the parser make of it.                                              *)
NoEmptyName == \A k \in DOMAIN roster : Gap(roster, k) > 1

RosterInv ==
  op = "PARTICIPANTS" =>
    /\ roster \in Rosters
    /\ stage \in {"new", "made", "valid", "refused", "read"}
    /\ stage \in {"made", "valid"} => size = 4 + Padded(Total) /\ idLen = Char(Len(roster))
    /\ stage \in {"valid", "read"} => NoEmptyName
    /\ stage = "refused" => ~NoEmptyName
    /\ stage = "read" => readList = roster

(* The count byte, written from a char and read without its sign.          *)
LEMMA CountOfChar ==
  ASSUME NEW n \in Nat, n <= 255
  PROVE  UnsignedChar(Char(n)) = n
BY DEF Char, UnsignedChar

(* Increasing positions, of n names' ends.                                 *)
Ends(r, n) ==
  /\ n \in Nat
  /\ \A k \in 1..n : r[k] \in Nat /\ 0 < r[k] /\ r[k] <= 32640
  /\ \A j, k \in 1..n : j < k => r[j] < r[k]

LEMMA EndsIntro ==
  ASSUME NEW r, NEW n \in Nat,
         \A k \in 1..n : r[k] \in Nat /\ 0 < r[k] /\ r[k] <= 32640,
         \A j, k \in 1..n : j < k => r[j] < r[k]
  PROVE  Ends(r, n)
BY DEF Ends

LEMMA RosterEnds ==
  ASSUME roster \in Rosters
  PROVE  /\ Ends(roster, Len(roster))
         /\ Len(roster) \in Nat /\ Len(roster) <= 255
         /\ DOMAIN roster = 1..Len(roster)
         /\ roster \in Seq(Nat)
<1>1. /\ roster \in Seq(Nat) /\ Len(roster) <= 255
      /\ \A k \in DOMAIN roster : 0 < roster[k] /\ roster[k] <= 32640
      /\ \A j, k \in DOMAIN roster : j < k => roster[j] < roster[k]
  BY ListAssumption
<1>2. Len(roster) \in Nat /\ DOMAIN roster = 1..Len(roster)
  BY <1>1
<1>3. \A k \in 1..Len(roster) : roster[k] \in Nat
  BY <1>1, <1>2
<1>4. \A k \in 1..Len(roster) : roster[k] \in Nat /\ 0 < roster[k] /\ roster[k] <= 32640
  BY <1>1, <1>2, <1>3
<1>5. \A j, k \in 1..Len(roster) : j < k => roster[j] < roster[k]
  BY <1>1, <1>2
<1>6. Ends(roster, Len(roster))
  BY <1>2, <1>4, <1>5, EndsIntro
<1>7. QED
  BY <1>1, <1>2, <1>6

LEMMA LastEnd ==
  ASSUME NEW r, NEW n, Ends(r, n), NEW k \in 1..n
  PROVE  r[k] \in Nat /\ 0 < r[k] /\ r[n] \in Nat /\ r[k] <= r[n] /\ r[n] <= 32640
<1>1. n \in Nat /\ n \in 1..n /\ k \in Nat
  BY DEF Ends
<1>2. r[n] \in Nat /\ r[k] \in Nat /\ 0 < r[k] /\ r[n] <= 32640
  BY <1>1 DEF Ends
<1>3. CASE k = n
  BY <1>2, <1>3
<1>4. CASE k < n
  <2>1. r[k] < r[n]
    BY <1>1, <1>4 DEF Ends
  <2>2. QED
    BY <1>2, <2>1
<1>5. QED
  BY <1>1, <1>3, <1>4

LEMMA EndsDiffer ==
  ASSUME NEW r, NEW n, Ends(r, n)
  PROVE  Cardinality({r[k] : k \in 1..n}) = n
<1> DEFINE P == {r[k] : k \in 1..n}
           f == [k \in 1..n |-> r[k]]
<1>1. n \in Nat
  BY DEF Ends
<1>2. f \in [1..n -> P]
  OBVIOUS
<1>3. \A j, k \in 1..n : f[j] = f[k] => j = k
  <2>1. SUFFICES ASSUME NEW j \in 1..n, NEW k \in 1..n, r[j] = r[k], j # k PROVE FALSE
    OBVIOUS
  <2>2. r[j] \in Nat /\ r[k] \in Nat /\ j \in Nat /\ k \in Nat
    BY <1>1 DEF Ends
  <2>3. j < k \/ k < j
    BY <2>1, <2>2
  <2>4. r[j] < r[k] \/ r[k] < r[j]
    BY <2>3 DEF Ends
  <2>5. QED
    BY <2>1, <2>2, <2>4
<1>4. \A e \in P : \E k \in 1..n : f[k] = e
  OBVIOUS
<1> HIDE DEF P, f
<1>5. f \in Bijection(1..n, P)
  BY <1>2, <1>3, <1>4, Fun_IsBij
<1>6. ExistsBijection(1..n, P)
  BY <1>5, Zenon DEF ExistsBijection
<1>7. IsFiniteSet(1..n) /\ Cardinality(1..n) = n
  <2>1. 1 \in Int /\ n \in Int
    BY <1>1
  <2>2. IsFiniteSet(1..n) /\ Cardinality(1..n) = IF 1 > n THEN 0 ELSE n - 1 + 1
    BY <2>1, FS_Interval
  <2>3. QED
    BY <1>1, <2>2
<1>8. Cardinality(P) = Cardinality(1..n)
  BY <1>6, <1>7, FS_Bijection
<1>9. QED
  BY <1>7, <1>8 DEF P

LEMMA GapPositive ==
  ASSUME NEW r, NEW n, Ends(r, n), NEW k \in 1..n
  PROVE  Gap(r, k) \in Nat /\ Gap(r, k) > 0
<1>1. n \in Nat /\ k \in Nat /\ r[k] \in Nat /\ 0 < r[k]
  BY DEF Ends
<1>2. CASE k = 1
  BY <1>1, <1>2 DEF Gap
<1>3. CASE k # 1
  <2>1. k - 1 \in 1..n /\ k - 1 < k
    BY <1>1, <1>3
  <2>2. r[k - 1] \in Nat /\ r[k - 1] < r[k]
    BY <2>1 DEF Ends
  <2>3. QED
    BY <1>1, <1>3, <2>2 DEF Gap
<1>4. QED
  BY <1>2, <1>3

(* Two PADs in a row, or one at the front, are an empty name.              *)
LEMMA PadsOfEmptyName ==
  ASSUME NEW r, NEW n, Ends(r, n), NEW k \in 1..n, Gap(r, k) = 1
  PROVE  \/ r[k] = 1
         \/ \E j \in 1..n : r[k] = r[j] + 1
<1>1. n \in Nat /\ k \in Nat /\ r[k] \in Nat /\ 0 < r[k]
  BY DEF Ends
<1>2. CASE k = 1
  BY <1>1, <1>2 DEF Gap
<1>3. CASE k # 1
  <2>1. k - 1 \in 1..n
    BY <1>1, <1>3
  <2>2. r[k - 1] \in Nat
    BY <2>1 DEF Ends
  <2>3. r[k] - r[k - 1] = 1
    BY <1>3 DEF Gap
  <2>4. r[k] = r[k - 1] + 1
    BY <1>1, <2>2, <2>3
  <2>5. QED
    BY <2>1, <2>4
<1>4. QED
  BY <1>2, <1>3

LEMMA EmptyNameOfFirstPad ==
  ASSUME NEW r, NEW n, Ends(r, n), NEW k \in 1..n, r[k] = 1
  PROVE  Gap(r, k) = 1
<1>1. n \in Nat /\ k \in Nat
  BY DEF Ends
<1>2. CASE k = 1
  BY <1>2 DEF Gap
<1>3. CASE k # 1
  <2>1. 1 \in 1..n /\ 1 < k
    BY <1>1, <1>3
  <2>2. r[1] \in Nat /\ 0 < r[1] /\ r[1] < r[k]
    BY <2>1 DEF Ends
  <2>3. QED
    BY <2>2
<1>4. QED
  BY <1>2, <1>3

LEMMA EmptyNameOfTwoPads ==
  ASSUME NEW r, NEW n, Ends(r, n), NEW j \in 1..n, NEW k \in 1..n, r[k] = r[j] + 1
  PROVE  Gap(r, k) = 1
<1>1. n \in Nat /\ j \in Nat /\ k \in Nat /\ r[j] \in Nat /\ r[k] \in Nat /\ 0 < r[k]
  BY DEF Ends
<1>2. j < k
  <2>1. j # k
    BY <1>1
  <2>2. ASSUME k < j PROVE FALSE
    <3>1. r[k] < r[j]
      BY <2>2 DEF Ends
    <3>2. QED
      BY <1>1, <3>1
  <2>3. QED
    BY <1>1, <2>1, <2>2
<1>3. k # 1 /\ k - 1 \in 1..n /\ k - 1 < k /\ (j = k - 1 \/ j < k - 1)
  BY <1>1, <1>2
<1>4. r[k - 1] \in Nat /\ r[k - 1] < r[k]
  BY <1>3 DEF Ends
<1>5. j = k - 1
  <2>1. ASSUME j < k - 1 PROVE FALSE
    <3>1. r[j] < r[k - 1]
      BY <1>3, <2>1 DEF Ends
    <3>2. QED
      BY <1>1, <1>4, <3>1
  <2>2. QED
    BY <1>3, <2>1
<1>6. Gap(r, k) = r[k] - r[j]
  BY <1>3, <1>5 DEF Gap
<1>7. QED
  BY <1>1, <1>6

LEMMA ModSmall == \A m \in Nat : m <= 32640 => m % 65536 = m
OBVIOUS

(* Every name's end is among the bytes the validator looks at.             *)
LEMMA AllPadsSeen ==
  ASSUME roster \in Rosters
  PROVE  /\ Total \in Nat
         /\ PadBytes = {roster[k] : k \in 1..Len(roster)}
         /\ Len(roster) = 0 => Total = 0
<1> DEFINE n == Len(roster)
<1>1. n \in Nat /\ Ends(roster, n) /\ DOMAIN roster = 1..n
  BY RosterEnds
<1> HIDE DEF n
<1>2. CASE n = 0
  <2>1. Total = 0
    BY <1>2 DEF Total, n
  <2>2. PadBytes = {} /\ {roster[k] : k \in 1..n} = {}
    BY <1>1, <1>2 DEF PadBytes
  <2>3. QED
    BY <2>1, <2>2 DEF n
<1>3. CASE n # 0
  <2>1. n \in 1..n
    BY <1>1, <1>3
  <2>2. roster[n] \in Nat /\ roster[n] <= 32640
    BY <1>1, <2>1, LastEnd
  <2>3. Total = roster[n] % 65536
    BY <1>3 DEF Total, n
  <2>4. Total = roster[n]
    BY <2>2, <2>3, ModSmall
  <2>5. \A k \in 1..n : roster[k] \in Nat /\ 0 < roster[k] /\ roster[k] <= Total
    BY <1>1, <2>4, LastEnd
  <2>6. \A k \in 1..n : roster[k] \in 1..Total
    BY <2>2, <2>4, <2>5
  <2>7. PadBytes = {roster[k] : k \in 1..n}
    BY <1>1, <2>6, Zenon DEF PadBytes
  <2>8. QED
    BY <1>3, <2>2, <2>4, <2>7 DEF n
<1>4. QED
  BY <1>2, <1>3

LEMMA PadsTell ==
  ASSUME roster \in Rosters
  PROVE  /\ NoEmptyName <=> 1 \notin PadBytes /\ \A i \in PadBytes : i + 1 \notin PadBytes
         /\ Cardinality(PadBytes) = Len(roster)
<1> DEFINE n == Len(roster)
<1>1. /\ n \in Nat /\ Ends(roster, n) /\ DOMAIN roster = 1..n
      /\ PadBytes = {roster[k] : k \in 1..n}
  BY RosterEnds, AllPadsSeen
<1> HIDE DEF n
<1>2. Cardinality(PadBytes) = Len(roster)
  BY <1>1, EndsDiffer DEF n
<1>3. ASSUME NoEmptyName, 1 \in PadBytes PROVE FALSE
  <2>1. PICK k \in 1..n : roster[k] = 1
    BY <1>1, <1>3
  <2>2. Gap(roster, k) = 1
    BY <1>1, <2>1, EmptyNameOfFirstPad
  <2>3. Gap(roster, k) > 1
    BY <1>1, <1>3 DEF NoEmptyName
  <2>4. QED
    BY <2>2, <2>3
<1>4. ASSUME NoEmptyName, NEW i \in PadBytes, i + 1 \in PadBytes PROVE FALSE
  <2>1. PICK j \in 1..n : roster[j] = i
    BY <1>1
  <2>2. PICK k \in 1..n : roster[k] = i + 1
    BY <1>1, <1>4
  <2>3. Gap(roster, k) = 1
    BY <1>1, <2>1, <2>2, EmptyNameOfTwoPads
  <2>4. Gap(roster, k) > 1
    BY <1>1, <1>4 DEF NoEmptyName
  <2>5. QED
    BY <2>3, <2>4
<1>5. ASSUME ~NoEmptyName
      PROVE  1 \in PadBytes \/ \E i \in PadBytes : i + 1 \in PadBytes
  <2>1. PICK k \in 1..n : ~(Gap(roster, k) > 1)
    BY <1>1, <1>5 DEF NoEmptyName
  <2>2. Gap(roster, k) \in Nat /\ Gap(roster, k) > 0
    BY <1>1, GapPositive
  <2>3. Gap(roster, k) = 1
    BY <2>1, <2>2
  <2>4. roster[k] = 1 \/ \E j \in 1..n : roster[k] = roster[j] + 1
    BY <1>1, <2>3, PadsOfEmptyName
  <2>5. roster[k] \in PadBytes /\ \A j \in 1..n : roster[j] \in PadBytes
    BY <1>1
  <2>6. QED
    BY <2>4, <2>5
<1>6. QED
  BY <1>2, <1>3, <1>4, <1>5

LEMMA RosterInit == Init => RosterInv
BY DEF Init, RosterInv

LEMMA RosterStep == RosterInv /\ [Next]_vars => RosterInv'
<1> SUFFICES ASSUME RosterInv, [Next]_vars, op = "PARTICIPANTS" PROVE RosterInv'
  <2>1. op # "PARTICIPANTS" /\ [Next]_vars => op' # "PARTICIPANTS"
    BY DEF Next, vars, input, create_JOIN, create_REG, create_PJOIN, create_MESS, Made,
           create_PARTICIPANTS, RecvSLIST, validate_JOIN, validate_PJOIN_PLEAVE, validate_MESS,
           validate_PARTICIPANTS, validate_SLIST, Validated,
           parse_JOIN, parse_PJOIN, parse_MSG, parse_REG, ReadName, parse_PARTICIPANTS, parse_SLIST
  <2>2. QED
    BY <2>1 DEF RosterInv
<1>0. roster \in Rosters
  BY DEF RosterInv
<1>0a. Len(roster) \in Nat /\ Len(roster) <= 255 /\ DOMAIN roster = 1..Len(roster)
  BY <1>0, RosterEnds DEF Ends
<1>1. CASE create_PARTICIPANTS
  BY <1>1 DEF create_PARTICIPANTS, RosterInv, input, Total
<1>2. CASE validate_PARTICIPANTS
  <2>1. stage = "made" /\ size = 4 + Padded(Total) /\ idLen = Char(Len(roster))
    BY <1>2 DEF validate_PARTICIPANTS, Validated, RosterInv
  <2>2. UnsignedChar(idLen) = Len(roster)
    BY <1>0a, <2>1, CountOfChar
  <2>3. size \in Nat /\ size >= 4 /\ (Len(roster) = 0 => size = 4)
    <3>0. Total \in Nat
      BY <1>0, AllPadsSeen
    <3>1. Padded(Total) \in Nat
      BY <3>0, PadsFillWords
    <3>2. Padded(0) = 0
      BY DEF Padded, getNrPads
    <3>3. QED
      BY <1>0, <2>1, <3>1, <3>2, AllPadsSeen
  <2>4. Len(roster) = 0 => NoEmptyName
    BY <1>0a DEF NoEmptyName
  <2>5. stage' = IF NoEmptyName THEN "valid" ELSE "refused"
    <3>1. Cardinality(PadBytes) = UnsignedChar(idLen)
      BY <1>0, <2>2, PadsTell
    <3> DEFINE ok == /\ size >= 4 /\ size = 4 + Padded(Total)
                     /\ \/ size = 4 /\ UnsignedChar(idLen) = 0
                        \/ /\ 1 \notin PadBytes
                           /\ \A i \in PadBytes : i + 1 \notin PadBytes
                           /\ Cardinality(PadBytes) = UnsignedChar(idLen)
    <3>2. ok <=> NoEmptyName
      BY <1>0, <2>1, <2>2, <2>3, <2>4, <3>1, PadsTell
    <3>3. stage' = IF ok THEN "valid" ELSE "refused"
      BY <1>2 DEF validate_PARTICIPANTS, Validated
    <3>4. QED
      BY <3>2, <3>3
  <2>6. UNCHANGED <<op, roster, size, idLen>>
    BY <1>2 DEF validate_PARTICIPANTS, Validated, input
  <2>7. Total' = Total /\ (NoEmptyName' <=> NoEmptyName)
    BY <2>6 DEF Total, NoEmptyName
  <2>8. QED
    BY <1>0, <2>1, <2>5, <2>6, <2>7 DEF RosterInv
<1>3. CASE parse_PARTICIPANTS
  <2>1. stage = "valid" /\ stage' = "read" /\ UNCHANGED <<op, roster>> /\ NoEmptyName
        /\ idLen = Char(Len(roster))
    BY <1>3 DEF parse_PARTICIPANTS, RosterInv, input
  <2>2. UnsignedChar(idLen) = Len(roster)
    BY <1>0a, <2>1, CountOfChar
  <2>3. readList' = [k \in 1..Len(roster) |-> roster[k]]
    BY <1>3, <2>2 DEF parse_PARTICIPANTS
  <2>4. readList' = roster
    <3>1. roster \in Seq(Nat)
      BY <1>0, RosterEnds
    <3>2. roster = [k \in 1..Len(roster) |-> roster[k]]
      BY <3>1
    <3>3. QED
      BY <2>3, <3>2
  <2>5. NoEmptyName'
    BY <2>1 DEF NoEmptyName
  <2>6. QED
    BY <1>0, <2>1, <2>4, <2>5 DEF RosterInv
<1>4. CASE UNCHANGED vars
  BY <1>4 DEF vars, input, RosterInv, NoEmptyName, Total
<1>5. QED
  BY <1>1, <1>2, <1>3, <1>4
  DEF Next, create_JOIN, create_REG, create_PJOIN, create_MESS, RecvSLIST, validate_JOIN,
      validate_PJOIN_PLEAVE, validate_MESS, validate_SLIST, parse_JOIN, parse_PJOIN, parse_MSG, parse_REG, ReadName, parse_SLIST

(* PDU.c and pdu_validator.c: a list of up to 255 members, with names of   *)
(* any lengths that a JOIN can bring, is read back name for name if none   *)
(* is empty, and refused otherwise.                                        *)
THEOREM RosterRead == Spec => []RosterCarried
<1>1. RosterInv => RosterCarried
  <2> SUFFICES ASSUME RosterInv, op = "PARTICIPANTS" PROVE RosterCarried
    BY DEF RosterCarried
  <2>1. stage = "refused" => \E k \in DOMAIN roster : Gap(roster, k) = 1
    <3> SUFFICES ASSUME stage = "refused" PROVE \E k \in DOMAIN roster : Gap(roster, k) = 1
      OBVIOUS
    <3>1. roster \in Rosters
      BY DEF RosterInv
    <3>2. PICK k \in DOMAIN roster : ~(Gap(roster, k) > 1)
      BY DEF RosterInv, NoEmptyName
    <3>3. Gap(roster, k) \in Nat /\ Gap(roster, k) > 0
      BY <3>1, RosterEnds, GapPositive
    <3>4. QED
      BY <3>2, <3>3
  <2>2. QED
    BY <2>1 DEF RosterInv, RosterCarried, NoEmptyName
<1>2. QED
  BY RosterInit, RosterStep, <1>1, PTL DEF Spec
-----------------------------------------------------------------------------
(***************************************************************************)
(* Lists of servers: where an entry ends is computed from where the one    *)
(* before it ends.  What holds of every entry is proved of the least that  *)
(* would break it.                                                         *)
(***************************************************************************)
LEMMA LeastNatural ==
  ASSUME NEW Bad \in SUBSET Nat, Bad # {}
  PROVE  \E m \in Bad : \A n \in Bad : m <= n
<1> DEFINE T == {0..n : n \in Bad}
           O == StrictSubsetOrdering(Nat)
<1>1. T \subseteq FiniteSubsetsOf(Nat) /\ T # {}
  <2>1. ASSUME NEW n \in Bad PROVE 0..n \in FiniteSubsetsOf(Nat)
    BY FS_Interval DEF FiniteSubsetsOf
  <2>2. QED
    BY <2>1
<1>2. IsWellFoundedOn(O, FiniteSubsetsOf(Nat))
  BY FS_StrictSubsetOrderingWellFounded
<1> HIDE DEF O, T
<1>3. \E x \in T : \A y \in T : ~ (<<y, x>> \in O)
  BY <1>1, <1>2, WFMin
<1>4. PICK m \in Bad : \A n \in Bad : <<0..n, 0..m>> \notin O
  BY <1>3 DEF T
<1>5. ASSUME NEW n \in Bad, n < m PROVE FALSE
  <2>1. 0..n \subseteq 0..m /\ 0..n # 0..m /\ 0..n \in SUBSET Nat /\ 0..m \in SUBSET Nat
    <3>1. m \in 0..m /\ m \notin 0..n
      BY <1>5
    <3>2. QED
      BY <1>5, <3>1
  <2>2. <<0..n, 0..m>> \in O
    BY <2>1 DEF O, StrictSubsetOrdering
  <2>3. QED
    BY <1>4, <2>2
<1>6. QED
  BY <1>5

EntryAfter(end, k) == end + 8 + Padded(servers[k])

LEMMA EntryLength ==
  ASSUME servers \in Seq(0..255), NEW k \in 1..Len(servers)
  PROVE  Padded(servers[k]) \in Nat
<1>1. servers[k] \in 0..255
  BY ElementOfSeq
<1>2. \A n \in 0..255 : n \in Nat
  OBVIOUS
<1>3. QED
  BY <1>1, <1>2, PadsFillWords

(* There is a function that is computed so, ...                            *)
LEMMA EntriesExist ==
  ASSUME servers \in Seq(0..255)
  PROVE  \E f : f = [k \in 0..Len(servers) |->
                      IF k = 0 THEN 4 ELSE f[k - 1] + 8 + Padded(servers[k])]
<1> DEFINE G(n) == {f \in [0..n -> Nat] :
                      f[0] = 4 /\ \A k \in 1..n : f[k] = EntryAfter(f[k - 1], k)}
           Bad == {n \in 0..Len(servers) : G(n) = {}}
<1>1. Len(servers) \in Nat
  OBVIOUS
<1>2. Bad = {}
  <2>1. SUFFICES ASSUME Bad # {} PROVE FALSE
    OBVIOUS
  <2>2. Bad \in SUBSET Nat
    BY <1>1
  <2> HIDE DEF Bad
  <2>3. PICK m \in Bad : \A n \in Bad : m <= n
    BY <2>1, <2>2, LeastNatural
  <2> USE DEF Bad
  <2>4. m \in 0..Len(servers) /\ G(m) = {}
    BY <2>3
  <2>5. m # 0
    <3>1. [k \in 0..0 |-> 4] \in G(0)
      OBVIOUS
    <3>2. QED
      BY <2>4, <3>1
  <2>6. m - 1 \in 0..Len(servers) /\ m \in 1..Len(servers)
    BY <1>1, <2>4, <2>5
  <2>7. G(m - 1) # {}
    <3>1. m \in Nat /\ m - 1 \in Nat /\ ~(m <= m - 1)
      BY <1>1, <2>6
    <3>2. m - 1 \notin Bad
      BY <2>3, <3>1
    <3> HIDE DEF G
    <3>3. QED
      BY <2>6, <3>2
  <2>8. PICK g \in G(m - 1) : TRUE
    BY <2>7
  <2>9. /\ g \in [0..(m - 1) -> Nat] /\ g[0] = 4
        /\ \A k \in 1..(m - 1) : g[k] = EntryAfter(g[k - 1], k)
    BY <2>8
  <2> DEFINE h == [k \in 0..m |-> IF k = m THEN EntryAfter(g[m - 1], m) ELSE g[k]]
  <2>10. EntryAfter(g[m - 1], m) \in Nat
    <3>1. g[m - 1] \in Nat
      BY <1>1, <2>6, <2>9
    <3>2. Padded(servers[m]) \in Nat
      BY <2>6, EntryLength
    <3>3. QED
      BY <3>1, <3>2 DEF EntryAfter
  <2>11. h \in [0..m -> Nat] /\ h[0] = 4
    BY <1>1, <2>6, <2>9, <2>10
  <2>12. ASSUME NEW k \in 1..m PROVE h[k] = EntryAfter(h[k - 1], k)
    <3>1. CASE k = m
      <4>1. h[m - 1] = g[m - 1] /\ h[m] = EntryAfter(g[m - 1], m)
        BY <1>1, <2>6
      <4>2. QED
        BY <3>1, <4>1
    <3>2. CASE k # m
      <4>1. k \in 1..(m - 1) /\ h[k] = g[k] /\ h[k - 1] = g[k - 1]
        BY <1>1, <2>6, <3>2
      <4>2. QED
        BY <2>9, <4>1
    <3>3. QED
      BY <3>1, <3>2
  <2> HIDE DEF h
  <2>13. h \in G(m)
    BY <2>11, <2>12
  <2>14. QED
    BY <2>4, <2>13
<1>3. G(Len(servers)) # {}
  <2>1. Len(servers) \in 0..Len(servers)
    BY <1>1
  <2>2. Len(servers) \notin Bad
    BY <1>2
  <2> HIDE DEF G
  <2>3. QED
    BY <2>1, <2>2
<1>4. PICK f \in [0..Len(servers) -> Nat] :
        f[0] = 4 /\ \A k \in 1..Len(servers) : f[k] = EntryAfter(f[k - 1], k)
  BY <1>3
<1>5. f = [k \in 0..Len(servers) |-> IF k = 0 THEN 4 ELSE f[k - 1] + 8 + Padded(servers[k])]
  BY <1>1, <1>4 DEF EntryAfter
<1>6. QED
  BY <1>5

(* ... so EntryEnd is one.                                                 *)
LEMMA EntryEnds ==
  ASSUME servers \in Seq(0..255)
  PROVE  /\ EntryEnd[0] = 4
         /\ \A k \in 1..Len(servers) :
              EntryEnd[k] = EntryEnd[k - 1] + 8 + Padded(servers[k])
<1>1. EntryEnd = [k \in 0..Len(servers) |->
                    IF k = 0 THEN 4 ELSE EntryEnd[k - 1] + 8 + Padded(servers[k])]
  BY EntriesExist DEF EntryEnd
<1>2. Len(servers) \in Nat
  OBVIOUS
<1>3. QED
  BY <1>1, <1>2

(* No entry ends before one that precedes it.                              *)
LEMMA EntriesInOrder ==
  ASSUME servers \in Seq(0..255)
  PROVE  \A k \in 0..Len(servers) :
           EntryEnd[k] \in Nat /\ \A j \in 0..k : EntryEnd[j] <= EntryEnd[k]
<1> DEFINE Good(k) == EntryEnd[k] \in Nat /\ \A j \in 0..k : EntryEnd[j] <= EntryEnd[k]
           Bad == {k \in 0..Len(servers) : ~Good(k)}
<1>1. Len(servers) \in Nat
  OBVIOUS
<1>2. SUFFICES ASSUME Bad # {} PROVE FALSE
  OBVIOUS
<1>3. Bad \in SUBSET Nat
  BY <1>1
<1> HIDE DEF Bad
<1>4. PICK m \in Bad : \A n \in Bad : m <= n
  BY <1>2, <1>3, LeastNatural
<1> USE DEF Bad
<1>5. m \in 0..Len(servers) /\ ~Good(m)
  BY <1>4
<1>6. m # 0
  BY <1>5, EntryEnds
<1>7. m \in 1..Len(servers) /\ m - 1 \in 0..Len(servers)
  BY <1>1, <1>5, <1>6
<1>8. Good(m - 1)
  BY <1>1, <1>4, <1>7
<1>9. EntryEnd[m] = EntryEnd[m - 1] + 8 + Padded(servers[m]) /\ Padded(servers[m]) \in Nat
  BY <1>7, EntryEnds, EntryLength
<1>10. EntryEnd[m] \in Nat /\ EntryEnd[m - 1] <= EntryEnd[m]
  BY <1>8, <1>9
<1>11. ASSUME NEW j \in 0..m PROVE EntryEnd[j] <= EntryEnd[m]
  <2>1. CASE j = m
    BY <1>10, <2>1
  <2>2. CASE j # m
    <3>1. j \in 0..(m - 1)
      BY <1>1, <1>7, <2>2
    <3>2. EntryEnd[j] <= EntryEnd[m - 1] /\ EntryEnd[j] \in Nat
      <4>1. j \in 0..Len(servers) /\ j < m
        BY <1>1, <1>7, <3>1
      <4>2. Good(j)
        BY <1>4, <4>1
      <4>3. QED
        BY <1>8, <3>1, <4>2
    <3>3. QED
      BY <1>8, <1>10, <3>2
  <2>3. QED
    BY <2>1, <2>2
<1>12. QED
  BY <1>5, <1>10, <1>11

LEMMA ServersTyped == servers \in ServerLists => servers \in Seq(0..255)
BY ListAssumption

(* A list whose names a char can count.                                    *)
Short == \A k \in DOMAIN servers : Char(servers[k]) >= 0

LEMMA CharOfByte ==
  ASSUME NEW n \in 0..255
  PROVE  /\ Char(n) >= 0 => Char(n) = n
         /\ Char(n) < 0 => n > 127
         /\ Char(n) \in Int
BY DEF Char

LEMMA OneFirstLong ==
  ASSUME servers \in Seq(0..255), NEW l, FirstLong(l), NEW m, FirstLong(m)
  PROVE  l = m
<1>1. l \in 1..Len(servers) /\ m \in 1..Len(servers) /\ Len(servers) \in Nat
  BY LenProperties DEF FirstLong
<1>2. ASSUME NEW j \in 1..Len(servers), NEW k \in 1..Len(servers),
             FirstLong(j), FirstLong(k), j < k
      PROVE  FALSE
  <2>1. j \in 1..(k - 1) /\ servers[j] \in 0..255
    BY <1>1, <1>2, ElementOfSeq
  <2>2. Char(servers[j]) >= 0 /\ Char(servers[j]) < 0 /\ Char(servers[j]) \in Int
    BY <1>2, <2>1, CharOfByte DEF FirstLong
  <2>3. QED
    BY <2>2
<1>3. l < m \/ m < l \/ l = m
  BY <1>1
<1>4. QED
  BY <1>1, <1>2, <1>3

(* An entry of a short name that fits has been received whole.             *)
LEMMA FitsWhole ==
  ASSUME servers \in Seq(0..255), NEW k \in 1..Len(servers), Char(servers[k]) >= 0,
         size \in Int
  PROVE  Fits(k) <=> size >= EntryEnd[k]
<1>1. servers[k] \in 0..255 /\ Char(servers[k]) = servers[k]
  BY ElementOfSeq, CharOfByte
<1>2. EntryEnd[k] = EntryEnd[k - 1] + 8 + Padded(servers[k]) /\ Padded(servers[k]) \in Nat
  BY EntryEnds, EntryLength
<1>3. EntryEnd[k - 1] \in Nat
  <2>1. k - 1 \in 0..Len(servers)
    BY LenProperties
  <2>2. QED
    BY <2>1, EntriesInOrder
<1>4. QED
  BY <1>1, <1>2, <1>3 DEF Fits

(* The list on the wire, and how much of it has been received.             *)
ServersInv ==
  op = "SLIST" =>
    /\ servers \in ServerLists
    /\ stage \in {"new", "made", "valid", "refused", "read", "garbled"}
    /\ stage = "made" => size \in 0..EntryEnd[Len(servers)]
    /\ stage = "refused" => size < EntryEnd[Len(servers)] \/ ~Short
    /\ stage = "valid" /\ Short => size = EntryEnd[Len(servers)]
    /\ stage = "valid" =>
         \A l \in DOMAIN servers : FirstLong(l) =>
           \A k \in 1..(l - 1) : size >= EntryEnd[k]
    /\ stage = "read" => size = EntryEnd[Len(servers)] /\ readList = servers
    /\ stage = "garbled" =>
         \E l \in DOMAIN servers :
           /\ FirstLong(l) /\ readList = [k \in 1..(l - 1) |-> servers[k]]
           /\ \A k \in 1..(l - 1) : size >= EntryEnd[k]

LEMMA ServersInit == Init => ServersInv
BY DEF Init, ServersInv

LEMMA ServersStep == ServersInv /\ [Next]_vars => ServersInv'
<1> SUFFICES ASSUME ServersInv, [Next]_vars, op = "SLIST" PROVE ServersInv'
  <2>1. op # "SLIST" /\ [Next]_vars => op' # "SLIST"
    BY DEF Next, vars, input, create_JOIN, create_REG, create_PJOIN, create_MESS, Made,
           create_PARTICIPANTS, RecvSLIST, validate_JOIN, validate_PJOIN_PLEAVE, validate_MESS,
           validate_PARTICIPANTS, validate_SLIST, Validated,
           parse_JOIN, parse_PJOIN, parse_MSG, parse_REG, ReadName, parse_PARTICIPANTS, parse_SLIST
  <2>2. QED
    BY <2>1 DEF ServersInv
<1>1. servers \in ServerLists /\ servers \in Seq(0..255) /\ Len(servers) \in Nat
      /\ DOMAIN servers = 1..Len(servers)
  BY ServersTyped, LenProperties DEF ServersInv
<1>2. servers' = servers =>
        /\ EntryEnd' = EntryEnd /\ Short' = Short
        /\ \A l : FirstLong(l)' = FirstLong(l)
  BY DEF EntryEnd, Padded, Short, FirstLong
<1>3. CASE RecvSLIST
  <2>1. /\ stage' = "made" /\ UNCHANGED <<op, servers>>
        /\ size' \in 0..EntryEnd[Len(servers)]
    BY <1>3 DEF RecvSLIST, input
  <2>2. QED
    BY <1>1, <1>2, <2>1 DEF ServersInv
<1>4. CASE validate_SLIST
  <2> DEFINE last == EntryEnd[Len(servers)]
  <2>1. stage = "made" /\ stage' \in {"valid", "refused"} /\ UNCHANGED <<op, servers, size>>
    BY <1>4 DEF validate_SLIST, Validated, input
  <2>2. size \in 0..last
    BY <2>1 DEF ServersInv
  <2>3. /\ EntryEnd[0] = 4 /\ last \in Nat
        /\ \A k \in 0..Len(servers) : EntryEnd[k] \in Nat /\ EntryEnd[k] <= last
    BY <1>1, EntryEnds, EntriesInOrder
  <2>4. size \in Int
    BY <2>2, <2>3
  <2>5. last' = last
    BY <1>2, <2>1
  <2>6. CASE Short
    <3> DEFINE ok == size >= 4 /\ \A k \in DOMAIN servers : Fits(k)
    <3>1. \A l : ~FirstLong(l)
      <4>1. SUFFICES ASSUME NEW l, FirstLong(l) PROVE FALSE
        OBVIOUS
      <4>2. l \in 1..Len(servers) /\ Char(servers[l]) < 0 /\ Char(servers[l]) >= 0
        BY <1>1, <2>6, <4>1 DEF FirstLong, Short
      <4>3. Char(servers[l]) \in Int
        BY <1>1, <4>2, ElementOfSeq, CharOfByte
      <4>4. QED
        BY <4>2, <4>3
    <3>2. stage' = IF ok THEN "valid" ELSE "refused"
      BY <1>4, <3>1 DEF validate_SLIST, Validated
    <3>3. \A k \in DOMAIN servers : Fits(k) <=> size >= EntryEnd[k]
      BY <1>1, <2>4, <2>6, FitsWhole DEF Short
    <3>4. ok => size = last
      <4>1. CASE Len(servers) = 0
        BY <2>2, <2>3, <4>1
      <4>2. CASE Len(servers) # 0
        <5>1. Len(servers) \in DOMAIN servers
          BY <1>1, <4>2
        <5>2. QED
          BY <2>2, <2>3, <3>3, <5>1
      <4>3. QED
        BY <4>1, <4>2
    <3>5. ~ok => size < last
      <4>1. size < 4 => size < last
        <5>1. 0 \in 0..Len(servers)
          BY <1>1
        <5>2. QED
          BY <2>2, <2>3, <5>1
      <4>2. ASSUME NEW k \in DOMAIN servers, ~Fits(k) PROVE size < last
        <5>1. k \in 0..Len(servers) /\ ~(size >= EntryEnd[k])
          BY <1>1, <3>3, <4>2
        <5>2. QED
          BY <2>2, <2>3, <5>1
      <4>3. QED
        BY <2>4, <4>1, <4>2
    <3> HIDE DEF ok
    <3>6. QED
      BY <1>1, <1>2, <2>1, <2>5, <3>1, <3>2, <3>4, <3>5 DEF ServersInv
  <2>7. CASE ~Short
    <3>1. PICK l \in DOMAIN servers, rest \in BOOLEAN :
            /\ FirstLong(l)
            /\ Validated(size >= 4 /\ (\A k \in 1..l : Fits(k)) /\ rest)
      BY <1>4, <2>7 DEF validate_SLIST, Short
    <3>2. ASSUME stage' = "valid", NEW k \in 1..(l - 1) PROVE size >= EntryEnd[k]
      <4>1. k \in 1..l /\ k \in 1..Len(servers)
        BY <1>1, <3>1
      <4>2. Fits(k)
        BY <3>1, <3>2, <4>1 DEF Validated
      <4>3. Char(servers[k]) >= 0
        BY <3>1 DEF FirstLong
      <4>4. QED
        BY <1>1, <2>4, <4>1, <4>2, <4>3, FitsWhole
    <3>3. \A m \in DOMAIN servers : FirstLong(m) => m = l
      BY <1>1, <3>1, OneFirstLong
    <3>4. stage' = "valid" =>
            \A m \in DOMAIN servers : FirstLong(m) => \A k \in 1..(m - 1) : size >= EntryEnd[k]
      BY <3>2, <3>3
    <3>5. QED
      BY <1>1, <1>2, <2>1, <2>7, <3>4 DEF ServersInv
  <2>8. QED
    BY <2>6, <2>7
<1>5. CASE parse_SLIST
  <2>1. stage = "valid" /\ UNCHANGED <<op, servers, size>>
    BY <1>5 DEF parse_SLIST, input
  <2>2. \A k \in DOMAIN servers : Char(servers[k]) >= 0 => Char(servers[k]) = servers[k]
    BY <1>1, CharOfByte, ElementOfSeq
  <2>3. ASSUME Short, stage' = "read",
               readList' = [k \in DOMAIN servers |-> Char(servers[k])]
        PROVE  ServersInv'
    <3>1. readList' = [k \in 1..Len(servers) |-> servers[k]]
      BY <1>1, <2>2, <2>3 DEF Short
    <3>2. readList' = servers
      BY <1>1, <3>1
    <3>3. size = EntryEnd[Len(servers)]
      BY <2>1, <2>3 DEF ServersInv
    <3>4. QED
      BY <1>1, <1>2, <2>1, <2>3, <3>2, <3>3 DEF ServersInv
  <2>4. ASSUME NEW l \in DOMAIN servers, FirstLong(l), stage' = "garbled",
               readList' = [k \in 1..(l - 1) |-> Char(servers[k])]
        PROVE  ServersInv'
    <3>1. \A k \in 1..(l - 1) : k \in DOMAIN servers /\ Char(servers[k]) >= 0
      BY <1>1, <2>4 DEF FirstLong
    <3>2. readList' = [k \in 1..(l - 1) |-> servers[k]]
      BY <2>2, <2>4, <3>1
    <3>3. \A k \in 1..(l - 1) : size >= EntryEnd[k]
      BY <2>1, <2>4 DEF ServersInv
    <3>4. QED
      BY <1>1, <1>2, <2>1, <2>4, <3>2, <3>3 DEF ServersInv
  <2>5. QED
    BY <1>5, <2>3, <2>4 DEF parse_SLIST, Short
<1>6. CASE UNCHANGED vars
  BY <1>2, <1>6 DEF vars, input, ServersInv
<1>7. QED
  BY <1>3, <1>4, <1>5, <1>6
  DEF Next, create_JOIN, create_REG, create_PJOIN, create_MESS, create_PARTICIPANTS,
      validate_JOIN, validate_PJOIN_PLEAVE, validate_MESS, validate_PARTICIPANTS,
      parse_JOIN, parse_PJOIN, parse_MSG, parse_REG, ReadName, parse_PARTICIPANTS

(* validate_SLIST, parse_SLIST: a list of any number of servers is refused *)
(* until all of it has been received, and then read back; with a name of   *)
(* 128 bytes or more in it that is so up to the first of these.            *)
THEOREM ServersRead == Spec => []ServersCarried
<1>1. ServersInv => ServersCarried
  <2> SUFFICES ASSUME ServersInv, op = "SLIST" PROVE ServersCarried
    BY DEF ServersCarried
  <2>1. servers \in Seq(0..255) /\ Len(servers) \in Nat /\ DOMAIN servers = 1..Len(servers)
    BY ServersTyped, LenProperties DEF ServersInv
  <2>2. ASSUME NEW k \in DOMAIN servers, ~(Char(servers[k]) >= 0) PROVE servers[k] > 127
    <3>1. servers[k] \in 0..255
      BY <2>1, ElementOfSeq
    <3>2. Char(servers[k]) < 0
      BY <2>2, <3>1, CharOfByte
    <3>3. QED
      BY <3>1, <3>2, CharOfByte
  <2>3. ASSUME stage = "garbled"
        PROVE  /\ \E l \in DOMAIN servers : servers[l] > 127 /\ Len(readList) = l - 1
               /\ \A k \in DOMAIN readList : readList[k] = servers[k] /\ size >= EntryEnd[k]
    <3>1. PICK l \in DOMAIN servers :
            /\ FirstLong(l) /\ readList = [k \in 1..(l - 1) |-> servers[k]]
            /\ \A k \in 1..(l - 1) : size >= EntryEnd[k]
      BY <2>3 DEF ServersInv
    <3>2. servers[l] > 127
      <4>1. servers[l] \in 0..255 /\ Char(servers[l]) < 0
        BY <2>1, <3>1, ElementOfSeq DEF FirstLong
      <4>2. QED
        BY <4>1, CharOfByte
    <3>3. Len(readList) = l - 1 /\ DOMAIN readList = 1..(l - 1)
      BY <2>1, <3>1
    <3>4. QED
      BY <3>1, <3>2, <3>3
  <2>4. QED
    BY <2>2, <2>3 DEF ServersInv, ServersCarried, Short
<1>2. QED
  BY ServersInit, ServersStep, <1>1, PTL DEF Spec

-----------------------------------------------------------------------------
LEMMA TypesInit == Init => TypeOK
<1> SUFFICES ASSUME Init PROVE TypeOK
  OBVIOUS
<1>1. sum \in Nat
  BY FormatAssumption DEF Init
<1>2. /\ op \in {"JOIN", "PJOIN", "REG", "MESS", "PARTICIPANTS", "SLIST"}
      /\ ident \in NameLens \cup {0} /\ text \in TextLens \cup {0}
      /\ roster \in Rosters \cup {<<>>} /\ servers \in ServerLists \cup {<<>>}
      /\ stage = "new" /\ size = 0 /\ idLen = 0 /\ crc = 0 /\ read = 0 /\ readList = <<>>
  BY DEF Init
<1>3. readList \in Seq(Nat)
  BY <1>2, EmptySeq
<1>4. QED
  BY <1>1, <1>2, <1>3 DEF TypeOK

LEMMA TypesStep == TypeOK /\ RosterInv /\ [Next]_vars => TypeOK'
<1> SUFFICES ASSUME TypeOK, RosterInv, [Next]_vars PROVE TypeOK'
  OBVIOUS
<1>1. ident \in Nat /\ text \in Nat
  BY FormatAssumption DEF TypeOK
<1>2. ASSUME NEW bytes \in Int, NEW kept, Made(bytes, kept), crc' \in 0..255 PROVE TypeOK'
  BY <1>1, <1>2, CharTyped DEF Made, input, TypeOK
<1>3. CASE create_JOIN \/ create_REG \/ create_PJOIN
  <2>1. 4 + Padded(Char(ident)) \in Int /\ 8 + Padded(Char(ident)) \in Int
    BY <1>1, CharTyped
  <2>2. crc' \in 0..255
    <3>1. crc' = crc
      BY <1>3 DEF create_JOIN, create_REG, create_PJOIN
    <3>2. QED
      BY <3>1 DEF TypeOK
  <2>3. QED
    BY <1>2, <1>3, <2>1, <2>2 DEF create_JOIN, create_REG, create_PJOIN
<1>4. CASE create_MESS
  <2>1. 12 + Padded(text) + (getNrPads(UnsignedChar(Char(ident))) + Char(ident)) \in Int
    <3>1. Padded(text) \in Int /\ Char(ident) \in -128..127
      BY <1>1, PadsFillWords, CharTyped
    <3>2. UnsignedChar(Char(ident)) \in Nat
      BY <3>1 DEF UnsignedChar
    <3>3. getNrPads(UnsignedChar(Char(ident))) \in Int
      BY <3>2 DEF getNrPads
    <3>4. QED
      BY <3>1, <3>3
  <2>2. crc' \in 0..255
    <3>1. crc' = Checksum(sum) /\ sum \in Nat
      BY <1>4 DEF create_MESS, TypeOK
    <3>2. QED
      BY <3>1, ChecksumChecks
  <2>3. QED
    BY <1>2, <1>4, <2>1, <2>2 DEF create_MESS
<1>5. CASE create_PARTICIPANTS
  <2>1. roster \in Rosters /\ Len(roster) \in Nat
    BY <1>5, RosterEnds DEF create_PARTICIPANTS, RosterInv
  <2>2. Padded(Total) \in Int /\ Char(Len(roster)) \in -128..127
    BY <2>1, AllPadsSeen, PadsFillWords, CharTyped
  <2>3. QED
    BY <1>5, <2>2 DEF create_PARTICIPANTS, input, TypeOK
<1>6. CASE RecvSLIST
  BY <1>6 DEF RecvSLIST, input, TypeOK
<1>7. CASE \/ validate_JOIN \/ validate_PJOIN_PLEAVE \/ validate_MESS
           \/ validate_PARTICIPANTS \/ validate_SLIST
  <2>1. stage' \in {"valid", "refused"} /\ UNCHANGED <<input, size, idLen, crc, read, readList>>
    BY <1>7 DEF validate_JOIN, validate_PJOIN_PLEAVE, validate_MESS, validate_PARTICIPANTS,
                validate_SLIST, Validated
  <2>2. QED
    BY <2>1 DEF input, TypeOK
<1>8. ASSUME NEW o, ReadName(o) PROVE TypeOK'
  <2>1. /\ stage' \in {"read", "dead"} /\ UNCHANGED <<input, size, idLen, crc, readList>>
        /\ read' = read \/ (idLen >= 0 /\ read' = idLen)
    BY <1>8 DEF ReadName
  <2>2. read' \in 0..127
    <3>1. idLen \in -128..127 /\ read \in 0..127
      BY DEF TypeOK
    <3>2. QED
      BY <2>1, <3>1
  <2>3. QED
    BY <2>1, <2>2 DEF input, TypeOK
<1>8r. CASE parse_REG
  BY <1>8r DEF parse_REG, Copied, input, TypeOK
<1>9. CASE parse_PARTICIPANTS
  <2>1. roster \in Seq(Nat) /\ Len(roster) \in Nat /\ UnsignedChar(idLen) = Len(roster)
    <3>1. roster \in Rosters /\ idLen = Char(Len(roster))
      BY <1>9 DEF parse_PARTICIPANTS, RosterInv
    <3>2. QED
      BY <3>1, RosterEnds, CountOfChar
  <2>2. readList' = [k \in 1..Len(roster) |-> roster[k]]
    BY <1>9, <2>1 DEF parse_PARTICIPANTS
  <2>3. readList' \in Seq(Nat)
    BY <2>1, <2>2
  <2>4. QED
    BY <1>9, <2>3 DEF parse_PARTICIPANTS, input, TypeOK
<1>10. CASE parse_SLIST
  <2>1. servers \in Seq(0..255)
    BY ServersTyped, EmptySeq DEF TypeOK
  <2>2. DOMAIN servers = 1..Len(servers) /\ Len(servers) \in Nat
    BY <2>1, LenProperties
  <2>3. \A k \in DOMAIN servers : Char(servers[k]) >= 0 => Char(servers[k]) \in Nat
    <3>1. \A n \in 0..255 : Char(n) >= 0 => Char(n) \in Nat
      BY CharOfByte
    <3>2. QED
      BY <2>1, <2>2, <3>1, ElementOfSeq
  <2>4. \E n \in Nat : /\ n <= Len(servers)
                       /\ \A k \in 1..n : Char(servers[k]) >= 0
                       /\ readList' = [k \in 1..n |-> Char(servers[k])]
    <3>1. CASE /\ \A k \in DOMAIN servers : Char(servers[k]) >= 0
               /\ readList' = [k \in DOMAIN servers |-> Char(servers[k])]
      <4>1. Len(servers) <= Len(servers)
        BY <2>2
      <4>2. QED
        BY <2>2, <3>1, <4>1
    <3>2. ASSUME NEW l \in DOMAIN servers, FirstLong(l),
                 readList' = [k \in 1..(l - 1) |-> Char(servers[k])]
          PROVE  \E n \in Nat : /\ n <= Len(servers)
                                /\ \A k \in 1..n : Char(servers[k]) >= 0
                                /\ readList' = [k \in 1..n |-> Char(servers[k])]
      <4>1. l - 1 \in Nat /\ l - 1 <= Len(servers)
        BY <2>2
      <4>2. QED
        BY <3>2, <4>1 DEF FirstLong
    <3>3. QED
      BY <1>10, <3>1, <3>2 DEF parse_SLIST
  <2>5. PICK n \in Nat : /\ n <= Len(servers)
                         /\ \A k \in 1..n : Char(servers[k]) >= 0
                         /\ readList' = [k \in 1..n |-> Char(servers[k])]
    BY <2>4
  <2>6. \A k \in 1..n : Char(servers[k]) \in Nat
    BY <2>2, <2>3, <2>5
  <2>7. readList' \in Seq(Nat)
    BY <2>5, <2>6
  <2>8. stage' \in {"read", "garbled"} /\ UNCHANGED <<input, size, idLen, crc, read>>
    BY <1>10 DEF parse_SLIST
  <2>9. QED
    BY <2>7, <2>8 DEF input, TypeOK
<1>11. CASE UNCHANGED vars
  BY <1>11 DEF vars, input, TypeOK
<1>12. QED
  BY <1>3, <1>4, <1>5, <1>6, <1>7, <1>8, <1>8r, <1>9, <1>10, <1>11
  DEF Next, parse_JOIN, parse_PJOIN, parse_MSG

(* PduFormat.TypeOK: lengths and counts stay within a char, and a name     *)
(* parsed fits its buffer, whatever the names, the texts and the lists.    *)
THEOREM FormatTyped == Spec => []TypeOK
<1>1. RosterInv /\ [Next]_vars => RosterInv'
  BY RosterStep
<1>2. QED
  BY TypesInit, TypesStep, RosterInit, <1>1, PTL DEF Spec
=============================================================================
