----------------------------- MODULE PduFormat ------------------------------
(***************************************************************************)
(* The way of one PDU from create_*() over validate_*() to parse_*(): the  *)
(* PDUs that carry one name, JOIN, PJOIN (and PLEAVE, built by the same    *)
(* function), REG and the MESS of the server, and those that carry a list  *)
(* of names, PARTICIPANTS and the SLIST of the name server.  What the      *)
(* functions decide by is kept: lengths, pads, counts and the checksum;    *)
(* what the bytes spell is not.  Lengths and counts go through a `char',   *)
(* which is signed in the build; % takes the sign of its left operand, as  *)
(* in C.                                                                   *)
(*                                                                         *)
(* A definition named X_Something is a faulty X; no action uses one.       *)
(***************************************************************************)
EXTENDS Integers, Sequences, FiniteSets

CONSTANTS
  NameLens,     (* lengths of identities, as strlen() gives them           *)
  TextLens,     (* lengths of texts: the msglen of a MESS                  *)
  Sums,         (* sums of the bytes of a MESS, its checksum byte left out *)
  Rosters,      (* client lists: where each member's name ends, when they  *)
                (* follow one another, one byte behind each                *)
  ServerLists   (* the name server's lists: lengths of the servers' names  *)

ASSUME FormatAssumption ==
  /\ \A n \in NameLens : n \in Nat /\ n <= 254
  /\ \A m \in TextLens : m \in Nat /\ 1 <= m /\ m <= 65535
  /\ Sums \subseteq Nat

ASSUME ListAssumption ==
  /\ \A ends \in Rosters :
       /\ ends \in Seq(Nat) /\ Len(ends) <= 255
       /\ \A k \in DOMAIN ends : 0 < ends[k] /\ ends[k] <= 32640
       /\ \A j, k \in DOMAIN ends : j < k => ends[j] < ends[k]
  /\ ServerLists \subseteq Seq(0..255)

VARIABLES
  op,
  ident,        (* the length of the name the PDU is to carry              *)
  roster,       (* or the client list,                                     *)
  servers,      (* or the list of servers                                  *)
  text,         (* the length of the text                                  *)
  sum,
  stage,
  size,         (* the bytes of the PDU: *byte_size, then nr_bytes         *)
  idLen,        (* the length byte, or the count, read as a char           *)
  crc,          (* the checksum byte                                       *)
  read,         (* the length of the name parsed                           *)
  readList      (* the list parsed                                         *)

input == <<op, ident, roster, servers, text, sum>>
vars == <<input, stage, size, idLen, crc, read, readList>>

Lists == {"PARTICIPANTS", "SLIST"}

Char_Unsigned(n) == n % 256

Char(n) == IF n % 256 > 127 THEN (n % 256) - 256 ELSE n % 256
UnsignedChar(c) == c % 256

Copied(len) == IF len > 0 THEN len ELSE 0

getNrPads(len) ==
  LET rest == IF len >= 0 THEN len % 4 ELSE -((-len) % 4)
  IN  IF rest = 0 THEN 0 ELSE 4 - rest

(* % 256 for % 255, not complemented.                                      *)
Checksum_Plain(s) == (s % 65536) % 256

(* checkSumCalculator and calculateChecksum, of bytes with the sum s: an   *)
(* unsigned short, % 255, complemented.                                    *)
Checksum(s) == 255 - ((s % 65536) % 255)

Padded(len) == len + getNrPads(len)

(***************************************************************************)
(* Creation.  With a negative length malloc() fails and the first byte is  *)
(* written through its NULL, or what is written does not stay within the   *)
(* memory, or the pads, which begin at the end of the header plus the      *)
(* length, go over the length byte.  Where they do not the PDU is kept,    *)
(* with the negative length in it.                                         *)
(***************************************************************************)
Made(bytes, kept) ==
  /\ stage = "new"
  /\ \/ kept /\ stage' = "made"
     \/ ~kept /\ bytes < 0 /\ stage' = "dead"
     \/ ~kept /\ bytes >= 0 /\ stage' \in {"dead", "garbled"}
  /\ size' = bytes
  /\ idLen' = Char(ident)
  /\ UNCHANGED <<input, read, readList>>

create_JOIN ==
  /\ op = "JOIN"
  /\ Made(4 + Padded(Char(ident)), 4 + Char(ident) >= 2)
  /\ UNCHANGED crc

create_REG ==
  /\ op = "REG"
  /\ Made(4 + Padded(Char(ident)), 4 + Char(ident) >= 2)
  /\ UNCHANGED crc

create_PJOIN ==
  /\ op = "PJOIN"
  /\ Made(8 + Padded(Char(ident)), 8 + Char(ident) >= 2 /\ Padded(Char(ident)) >= 0)
  /\ UNCHANGED crc

create_MESS ==
  /\ op = "MESS"
  /\ LET named == getNrPads(UnsignedChar(Char(ident))) + Char(ident)
     IN  Made(12 + Padded(text) + named, named >= 0)
  /\ crc' = Checksum(sum)

(* The length of all names, in an unsigned short.                          *)
Total == (IF Len(roster) = 0 THEN 0 ELSE roster[Len(roster)]) % 65536

create_PARTICIPANTS ==
  /\ op = "PARTICIPANTS"
  /\ stage = "new" /\ stage' = "made"
  /\ size' = 4 + Padded(Total)
  /\ idLen' = Char(Len(roster))
  /\ UNCHANGED <<input, crc, read, readList>>

(* Where the entry of each server ends, as the name server lays them out;  *)
(* eight bytes precede a name.                                             *)
EntryEnd ==
  LET end[k \in 0..Len(servers)] ==
        IF k = 0 THEN 4 ELSE end[k - 1] + 8 + Padded(servers[k])
  IN  end

(* The name server's; recv() returns any part of it from its beginning.    *)
RecvSLIST ==
  /\ op = "SLIST"
  /\ stage = "new" /\ stage' = "made"
  /\ size' \in 0..EntryEnd[Len(servers)]
  /\ UNCHANGED <<input, idLen, crc, read, readList>>

(***************************************************************************)
(* Validation by the receiver, of the sizes, the count and the checksum.   *)
(***************************************************************************)
Validated(ok) ==
  /\ stage = "made"
  /\ stage' = IF ok THEN "valid" ELSE "refused"
  /\ UNCHANGED <<input, size, idLen, crc, read, readList>>

validate_JOIN == op = "JOIN" /\ Validated(size >= 4)

validate_PJOIN_PLEAVE == op = "PJOIN" /\ Validated(size >= 2 /\ size = 8 + Padded(idLen))

validate_MESS ==
  /\ op = "MESS"
  /\ Validated(/\ size >= 16
               /\ size = 12 + Padded(text) + Padded(idLen)
               /\ Checksum(sum + crc) = 255)

(* The bytes behind the header that are PAD, up to the length given.       *)
PadBytes == {roster[k] : k \in DOMAIN roster} \cap 1..Total

validate_PARTICIPANTS_SignedCount ==
  /\ op = "PARTICIPANTS"
  /\ Validated(/\ size >= 4 /\ size = 4 + Padded(Total)
               /\ \/ size = 4 /\ idLen = 0
                  \/ /\ 1 \notin PadBytes
                     /\ \A i \in PadBytes : i + 1 \notin PadBytes
                     /\ Cardinality(PadBytes) = idLen)

(* The sender validates the PDU itself before it sends it.                 *)
validate_PARTICIPANTS ==
  /\ op = "PARTICIPANTS"
  /\ Validated(/\ size >= 4 /\ size = 4 + Padded(Total)
               /\ \/ size = 4 /\ UnsignedChar(idLen) = 0
                  \/ /\ 1 \notin PadBytes
                     /\ \A i \in PadBytes : i + 1 \notin PadBytes
                     /\ Cardinality(PadBytes) = UnsignedChar(idLen))

validate_SLIST_HeadersOnly ==
  /\ op = "SLIST"
  /\ Validated(size >= 4 /\ \A k \in DOMAIN servers : size >= EntryEnd[k - 1] + 8)

(* The first name of more bytes than a char can count.                     *)
FirstLong(l) ==
  /\ l \in DOMAIN servers /\ Char(servers[l]) < 0
  /\ \A k \in 1..(l - 1) : Char(servers[k]) >= 0

(* What is asked of an entry that begins where the one before it ends.     *)
Fits(k) ==
  /\ size >= EntryEnd[k - 1] + 8
  /\ size >= EntryEnd[k - 1] + 8 + Padded(Char(servers[k]))

(* The entries must be within what was received, one after the other.      *)
(* From a long name on the index goes by a negative length, to bytes that  *)
(* may be anything.                                                        *)
validate_SLIST ==
  /\ op = "SLIST"
  /\ \/ /\ \A k \in DOMAIN servers : Char(servers[k]) >= 0
        /\ Validated(size >= 4 /\ \A k \in DOMAIN servers : Fits(k))
     \/ \E l \in DOMAIN servers, rest \in BOOLEAN :
          /\ FirstLong(l)
          /\ Validated(size >= 4 /\ (\A k \in 1..l : Fits(k)) /\ rest)

(* As many bytes are taken as the length byte says, read as a char; of the *)
(* identity in a MESS the client shows as many.  With a negative length    *)
(* the memory for them cannot be had, and is written to.                   *)
ReadName(o) ==
  /\ op = o
  /\ stage = "valid"
  /\ \/ idLen >= 0 /\ stage' = "read" /\ read' = idLen
     \/ idLen < 0 /\ stage' = "dead" /\ UNCHANGED read
  /\ UNCHANGED <<input, size, idLen, crc, readList>>

parse_JOIN == ReadName("JOIN")
parse_PJOIN == ReadName("PJOIN")
parse_MSG == ReadName("MESS")

(* There is no validation of a REG, and its struct has room for a name.    *)
parse_REG ==
  /\ op = "REG"
  /\ stage = "made" /\ stage' = "read"
  /\ read' = Copied(idLen)
  /\ UNCHANGED <<input, size, idLen, crc, readList>>

(* As many names as the count says, each up to the next PAD.               *)
parse_PARTICIPANTS ==
  /\ op = "PARTICIPANTS"
  /\ stage = "valid" /\ stage' = "read"
  /\ readList' = [k \in 1..UnsignedChar(idLen) |-> roster[k]]
  /\ UNCHANGED <<input, size, idLen, crc, read>>

(* The names before the first long one; it is read as empty, and what is   *)
(* taken for the entries behind it may be anything.                        *)
parse_SLIST ==
  /\ op = "SLIST"
  /\ stage = "valid"
  /\ \/ /\ \A k \in DOMAIN servers : Char(servers[k]) >= 0
        /\ stage' = "read"
        /\ readList' = [k \in DOMAIN servers |-> Char(servers[k])]
     \/ \E l \in DOMAIN servers :
          /\ FirstLong(l)
          /\ stage' = "garbled"
          /\ readList' = [k \in 1..(l - 1) |-> Char(servers[k])]
  /\ UNCHANGED <<input, size, idLen, crc, read>>

Init ==
  /\ op \in {"JOIN", "PJOIN", "REG", "MESS", "PARTICIPANTS", "SLIST"}
  /\ ident \in IF op \in Lists THEN {0} ELSE NameLens
  /\ roster \in IF op = "PARTICIPANTS" THEN Rosters ELSE {<<>>}
  /\ servers \in IF op = "SLIST" THEN ServerLists ELSE {<<>>}
  /\ text \in IF op = "MESS" THEN TextLens ELSE {0}
  /\ sum \in IF op = "MESS" THEN {s \in Sums : s <= 255 * (11 + text + ident)} ELSE {0}
  /\ stage = "new"
  /\ size = 0 /\ idLen = 0 /\ crc = 0 /\ read = 0 /\ readList = <<>>

Next ==
  \/ create_JOIN \/ create_REG \/ create_PJOIN \/ create_MESS
  \/ create_PARTICIPANTS \/ RecvSLIST
  \/ validate_JOIN \/ validate_PJOIN_PLEAVE \/ validate_MESS
  \/ validate_PARTICIPANTS \/ validate_SLIST
  \/ parse_JOIN \/ parse_PJOIN \/ parse_MSG \/ parse_REG
  \/ parse_PARTICIPANTS \/ parse_SLIST

Spec == Init /\ [][Next]_vars

-----------------------------------------------------------------------------
(* The values the variables range over; a name parsed fits its buffer.     *)
TypeOK ==
  /\ op \in {"JOIN", "PJOIN", "REG", "MESS", "PARTICIPANTS", "SLIST"}
  /\ ident \in NameLens \cup {0} /\ text \in TextLens \cup {0} /\ sum \in Nat
  /\ roster \in Rosters \cup {<<>>} /\ servers \in ServerLists \cup {<<>>}
  /\ stage \in {"new", "made", "valid", "refused", "read", "dead", "garbled"}
  /\ size \in Int
  /\ idLen \in -128..127
  /\ crc \in 0..255
  /\ read \in 0..127
  /\ readList \in Seq(Nat)

(* The bytes of a name and the one behind it.                              *)
Gap(ends, k) == ends[k] - (IF k = 1 THEN 0 ELSE ends[k - 1])

(* create_*, validate_*, parse_*: a name of up to 127 bytes survives the   *)
(* three of them, whatever the text, in a PDU made of whole words, except  *)
(* in a MESS whose bytes sum up to 65535 (16 bits of the sum).  A longer   *)
(* one, whose length a signed char makes negative, is never read back as   *)
(* another name: the PDU is refused, or a program does not survive it.     *)
RoundTrip ==
  /\ op \notin Lists /\ ident <= 127 /\ (op = "MESS" => sum % 65536 # 65535) =>
       /\ stage \notin {"refused", "dead", "garbled"}
       /\ size % 4 = 0
       /\ stage = "read" => read = ident
  /\ op \in {"JOIN", "PJOIN", "MESS"} /\ stage = "read" => read = ident

(* create_PARTICIPANTS, validate_PARTICIPANTS, parse_PARTICIPANTS: a list  *)
(* of up to 255 members is read back name for name; it is refused exactly  *)
(* if one of the names is empty.                                           *)
RosterCarried ==
  op = "PARTICIPANTS" =>
    /\ stage = "refused" => \E k \in DOMAIN roster : Gap(roster, k) = 1
    /\ stage = "read" =>
         readList = roster /\ \A k \in DOMAIN roster : Gap(roster, k) > 1

(* validate_SLIST, parse_SLIST: a list of servers is refused until all of  *)
(* it has been received, and then read back.  That holds of lists of names *)
(* that a signed char can count; in another one, which may pass although   *)
(* a part of it is missing or be refused although it is whole, the names   *)
(* before the first of 128 bytes or more are read only if they have come.  *)
ServersCarried ==
  op = "SLIST" =>
    /\ stage = "refused" =>
         \/ size < EntryEnd[Len(servers)]
         \/ \E k \in DOMAIN servers : servers[k] > 127
    /\ stage = "read" => readList = servers /\ size = EntryEnd[Len(servers)]
    /\ stage = "garbled" =>
         /\ \E l \in DOMAIN servers : servers[l] > 127 /\ Len(readList) = l - 1
         /\ \A k \in DOMAIN readList : readList[k] = servers[k] /\ size >= EntryEnd[k]
=============================================================================
