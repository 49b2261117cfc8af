--------------------------- MODULE MCRevisionFields --------------------------
(* Bases and lengths with the property of 36, 31, 256 and 20 that a number of *)
(* the text form may be too large for the raw one; three ids, of which the    *)
(* last is 0; a field of the revision takes any value, but at most two of     *)
(* them differ from those of an ordinary revision at a time.                  *)
EXTENDS RevisionFields

CONSTANTS a, b, c

MCUsers == {[kind |-> "NamedUser", name |-> "u"], [kind |-> "IpV4User", name |-> "v"]}
MCComments == {[len |-> 10, tail |-> ""], [len |-> 258, tail |-> "FFFD"],
               [len |-> 256, tail |-> "FFFD.."], [len |-> 256, tail |-> ""]}
MCHashes == {<<1, 0, 2>>, <<2, 2, 0>>}

Ordinary == [user |-> [kind |-> "NamedUser", name |-> "u"],
             comment |-> [len |-> 10, tail |-> ""], sha1 |-> <<1, 0, 2>>,
             model |-> Wikitext, size |-> 1]
MCContents ==
    {x \in Content : Cardinality({f \in DOMAIN x : x[f] # Ordinary[f]}) <= 2}
==============================================================================
