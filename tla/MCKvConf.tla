------------------------------- MODULE MCKvConf -------------------------------
(***************************************************************************)
(* Files for KvConf: a line that sets v, a line that sets k to a short     *)
(* text of special characters, and what that text makes of the rest.       *)
(***************************************************************************)
EXTENDS KvConf

UpTo(S, n) == UNION {[1..m -> S] : m \in 0..n}
Line(key, val) == <<key, "=">> \o val \o <<"nl">>
File(v, val) == Line("v", v) \o Line("k", val)

Chars == {"a", "bs", "dq", "sq", "sp", "nl", "#"}
Around == {"a", "bs", "dq", "sq", "sp", "nl", "$", "{", "}"}
Var == <<"$", "{", "v", "}">>

Substs == {p \o Var \o q : p \in UpTo(Around, 2), q \in UpTo(Around, 2)}
MCTexts ==
  {File(<<"a">>, s) : s \in UpTo(Chars, 5)}
  \union {File(v, s) : v \in {<<"a">>, <<"sq", "a", "dq", "sq">>}, s \in Substs}
=============================================================================
