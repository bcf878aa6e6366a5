------------------------------ MODULE MCPolicies ------------------------------
(* Every byte that begins or ends a class of UTF-8 bytes, addresses that end *)
(* soon after the longest patch, and inputs long enough for a symbol to      *)
(* follow every run of symbols that the functions treat alike.               *)
EXTENDS Policies

\* " Basic " has blanks inside its brackets, "a]b" cannot be asked for, and the
\* name "Long" is so long that a text holds it once.
MCName == {"", "SETTINGS", "Basic", "basic", " Basic ", "a]b", "Long"}
MCFold == [n \in MCName |-> IF n = "basic" THEN "Basic" ELSE n]
MCTrim == [n \in MCName |-> IF n = " Basic " THEN "Basic" ELSE n]
MCListable == MCName \ {""}
MCAskable == MCListable \ {"a]b"}
MCFits(text) == Cardinality({i \in DOMAIN text : text[i].name = "Long"}) <= 1
MCByte == {65, 127, 128, 143, 144, 159, 160, 191, 193, 194, 224, 237, 239, 240, 244, 245}
MCMaxLength == [arguments |-> 6, utf8 |-> 4, memory |-> 6, ranges |-> 4, patches |-> 3, ini |-> 5]

=============================================================================
