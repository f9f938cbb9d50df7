---------------------------- MODULE MCCollection ----------------------------
(* TLC instances of Collection, and of Subnet for the other collecting service. *)
EXTENDS Collection, Subnet, TLC

Symmetry == Permutations(Plugins)

Addresses == {1, 37, 128, 254, 255, 256, 300, 511, 4095, 32768, 43690, 65279, 65534}
Mask(prefix) == 2^16 - 2^(32 - prefix)
IsHost(h, ip, prefix) ==
    LET size == 2^(32 - prefix) IN h \div size = ip \div size /\ h % size \notin {0, size - 1}

(* The scan from an address asks hosts of its own network only, each once, *)
(* and, when the network has no more than 254, all of them.                *)
ScansNetworkOf(ip, prefix) ==
    LET scanned == ToSet(expandCIDR(detectLocalSubnet(ip, Mask(prefix))))
        size == 2^(32 - prefix)
    IN  /\ \A h \in scanned : h \in Word /\ IsHost(h, ip, prefix)
        /\ Cardinality(scanned) =
              CASE prefix > 30 -> 0 [] prefix \in 24..30 -> size - 2 [] OTHER -> 254
        /\ prefix \in 24..30 /\ IsHost(ip, ip, prefix) => ip \in scanned

(* A scan asks hosts of the interface's own network only, each once, never *)
(* the network's or the broadcast address, and, when the network has no    *)
(* more than 254, all of them (NetworkScanner.cpp:172-256).  It is looked  *)
(* at where the services are set up.                                       *)
ScansOwnSubnet ==
    pc = "load" => \A ip \in Addresses, prefix \in 16..32 : ScansNetworkOf(ip, prefix)
=============================================================================
