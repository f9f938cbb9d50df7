------------------------------- MODULE Subnet -------------------------------
(***************************************************************************)
(* The addresses of a network scan: src/src/services/NetworkScanner.cpp,   *)
(* detectLocalSubnet and expandCIDR.  Prefixes below 16 are refused, so    *)
(* that an address and a mask are their low 16 bits, the high ones being   *)
(* those of the interface and all set.                                     *)
(***************************************************************************)
EXTENDS Naturals, Sequences

Word == 0..2^16 - 1

(* Leading ones of a mask: while (m & 0x80000000) { prefix++; m <<= 1; } *)
LeadingOnes[m \in Word] == IF m >= 2^15 THEN 1 + LeadingOnes[(2 * m) % 2^16] ELSE 0

(* ip & mask, and the length of the mask, for a mask without holes *)
detectLocalSubnet(ip, mask) ==
    [net |-> ip - (ip % (2^16 - mask)), prefix |-> 16 + LeadingOnes[mask]]

(* Mutant of expandCIDR: only the network's own address is left out. *)
expandWithBroadcast(cidr) ==
    IF cidr.prefix \in 16..30
    THEN LET hosts == 2^(32 - cidr.prefix) - 1
             count == IF hosts > 254 THEN 254 ELSE hosts
         IN  [i \in 1..count |-> cidr.net + i]
    ELSE <<>>

expandCIDR(cidr) ==
    IF cidr.prefix \in 16..30
    THEN LET hosts == 2^(32 - cidr.prefix) - 2
             count == IF hosts > 254 THEN 254 ELSE hosts
         IN  [i \in 1..count |-> cidr.net + i]
    ELSE <<>>
=============================================================================
