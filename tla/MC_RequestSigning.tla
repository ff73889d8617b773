------------------------- MODULE MC_RequestSigning -------------------------
(***************************************************************************)
(* Parameter names a, b, a-b and ab; values of up to two characters, of    *)
(* letters, slashes and equals signs; queries of none to two parameters.   *)
(* The buffer of a URL takes every URL with a short path, some with a      *)
(* longer one and hardly any with the longest.                             *)
(***************************************************************************)
EXTENDS RequestSigning

MCAllocations == [header |-> 4, query |-> 2]

MCNames == {<<7>>, <<8>>, <<7, DASH, 8>>, <<7, 8>>}
MCValues == {<<>>} \cup {<<c>> : c \in {7, SLASH}}
              \cup {<<c, d>> : c, d \in {7, SLASH}}
MCParams == [name : MCNames, value : MCValues]
MCQueries == {<<>>} \cup {<<p>> : p \in MCParams}
               \cup {<<p, q>> : p \in MCParams, q \in [name : MCNames, value : {<<7>>, <<SLASH, 7>>}]}

MCUrlStart ==
  [p \in Paths |-> IF p = NoText THEN 8 ELSE IF p = "/path" THEN 24 ELSE 48]

=============================================================================
