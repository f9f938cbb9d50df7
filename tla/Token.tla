------------------------------- MODULE Token -------------------------------
(***************************************************************************)
(* How the token is kept in the configuration file: encrypted under a key  *)
(* that is derived from the name of the host, and written in base64        *)
(* (src/src/config/ConfigManager.cpp:31-195).  Text and data are sequences *)
(* of bytes.                                                               *)
(***************************************************************************)
EXTENDS Integers, Sequences

Byte == 0..255
Block == 16
PadChar == 61  \* '='

(* tbl, and the lookup that should be its inverse. *)
Char(n) ==
    CASE n \in 0..25  -> 65 + n
      [] n \in 26..51 -> 97 + (n - 26)
      [] n \in 52..61 -> 48 + (n - 52)
      [] n = 62 -> 43
      [] n = 63 -> 47

(* Mutant of Lookup, as it once was (README.md:822): padding counts as 0. *)
LookupPadding(c) ==
    CASE c = 43 -> 62
      [] c = 47 -> 63
      [] c \in 48..57  -> c - 48 + 52
      [] c \in 65..90  -> c - 65
      [] c \in 97..122 -> c - 97 + 26
      [] c = PadChar -> 0
      [] OTHER -> -1

Lookup(c) ==
    CASE c = 43 -> 62
      [] c = 47 -> 63
      [] c \in 48..57  -> c - 48 + 52
      [] c \in 65..90  -> c - 65
      [] c \in 97..122 -> c - 97 + 26
      [] OTHER -> -1

b64Encode(data) ==
    LET b(n) == IF n <= Len(data) THEN data[n] ELSE 0 IN
    [k \in 1..4 * ((Len(data) + 2) \div 3) |->
        LET i == 3 * ((k - 1) \div 4) + 1 IN
        CASE k % 4 = 1 -> Char(b(i) \div 4)
          [] k % 4 = 2 -> Char((b(i) % 4) * 16 + b(i + 1) \div 16)
          [] k % 4 = 3 -> IF i + 1 <= Len(data) THEN Char((b(i + 1) % 16) * 4 + b(i + 2) \div 64) ELSE PadChar
          [] k % 4 = 0 -> IF i + 2 <= Len(data) THEN Char(b(i + 2) % 64) ELSE PadChar]

(* The loop of b64Decode over the characters of a text.  val is an int     *)
(* that overflows; the shift only looks at its low bits, which are kept.   *)
ValBits == 16
Decoding(val, bits, out) == [val |-> val, bits |-> bits, out |-> out, loop |-> "on"]
Broken(out) == [out |-> out, loop |-> "left"]

DecodeChar(d, c) ==
    LET val == (d.val * 64 + Lookup(c)) % 2^ValBits
        bits == d.bits + 6
    IN  IF d.loop = "left" \/ Lookup(c) = -1 THEN Broken(d.out)
        ELSE IF bits < 0 THEN Decoding(val, bits, d.out)
        ELSE Decoding(val, bits - 8, Append(d.out, (val \div 2^bits) % 256))

b64Decode(text) ==
    LET decoding[n \in 0..Len(text)] ==
            IF n = 0 THEN Decoding(0, -8, <<>>) ELSE DecodeChar(decoding[n - 1], text[n])
    IN  decoding[Len(text)].out

(* AES-256-CBC of OpenSSL, by what it does to lengths and padding; a host  *)
(* stands for the key derived from its name.                               *)
Padded(data) ==
    LET n == Block - (Len(data) % Block) IN data \o [k \in 1..n |-> n]
Cipher(host, data) == [k \in DOMAIN Padded(data) |-> (Padded(data)[k] + host) % 256]
Plain(host, data) == [k \in DOMAIN data |-> (data[k] + 256 - host) % 256]
Unpadded(data) ==
    LET n == data[Len(data)] IN
    IF /\ n \in 1..Block
       /\ \A k \in Len(data) - n + 1..Len(data) : data[k] = n
    THEN SubSeq(data, 1, Len(data) - n)
    ELSE <<>>

(* base64 of the initialisation vector and the ciphertext *)
encryptToken(host, iv, token) ==
    IF token = <<>> THEN <<>> ELSE b64Encode(iv \o Cipher(host, token))

(* Whatever cannot be decrypted is an empty token. *)
decryptToken(host, text) ==
    LET combined == b64Decode(text) IN
    IF Len(combined) < Block + 1 \/ Len(combined) % Block # 0
    THEN <<>>
    ELSE Unpadded(Plain(host, SubSeq(combined, Block + 1, Len(combined))))
=============================================================================
