------------------------------ MODULE MCAgent ------------------------------
(* TLC instances of Agent, and of Token, by which it keeps its token. *)
EXTENDS Agent, Token

(* Ids are alike: it is enough to look at the behaviours that use the ids  *)
(* in one order.                                                           *)
IdsInOrder == known # {} => (CHOOSE i \in Ids : TRUE) \in known

Vector == [k \in 1..Block |-> (37 * k) % 256]
ShortTokens == UNION {[1..n -> {0, 97, 255}] : n \in 1..3}
LongTokens == {[k \in 1..n |-> (19 * k + n) % 256] : n \in 4..34}
Tokens == ShortTokens \cup LongTokens
Hosts == {3, 200}

(* The token that load() finds is the token that save() wrote, for tokens  *)
(* of every length around the blocks of the cipher and the groups of       *)
(* base64; on a host of another name it is not (ConfigManager.cpp:31-195). *)
(* It is looked at where the agent first loads its configuration.          *)
TokenSurvives ==
    main = "load" /\ restarts = 0 /\ config = NoCredentials =>
        \A t \in Tokens, h \in Hosts, g \in Hosts :
            decryptToken(g, encryptToken(h, Vector, t)) = t <=> g = h
=============================================================================
