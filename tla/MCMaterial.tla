----------------------------- MODULE MCMaterial -----------------------------
(* Material on a small instance: names under ex.com, one issuing CA. *)
EXTENDS Material

Below(l) == <<l, "ex", "com">>
Says(key, by, ca, sameName, names, cn) ==
    [key |-> key, by |-> by, ca |-> ca, sameName |-> sameName, names |-> names, cn |-> cn]

\* r1, r2: two generations; deep: a leaf whose names look alike but are not
\* enough; mid: the CA's certificate; temp: the temporary one.
SmallInfo ==
    [c \in Certificate |->
       CASE c = "r1" -> Says("k1", "ca", FALSE, FALSE, {Below("*")}, NoName)
         [] c = "r2" -> Says("k2", "ca", FALSE, FALSE, {Below("*"), Below("API")}, <<"API", "ex", "com", "">>)
         [] c = "deep" -> Says("k1", "ca", FALSE, FALSE,
                               {Below("*"), <<"*", "com">>, <<"*", "*", "ex", "com">>}, Below("a*"))
         [] c = "mid" -> Says("ca", "root", TRUE, FALSE, {}, NoName)
         [] c = "temp" -> Says("k1", "k1", FALSE, TRUE, {Below("*")}, NoName)]

SmallLower == [l \in {"api", "API", "*", "a*", "ex", "com", ""} |-> IF l = "API" THEN "api" ELSE l]

SmallIssued == { [crt |-> <<"r1", "mid">>, key |-> <<"k1">>], [crt |-> <<"r2", "mid">>, key |-> <<"k2">>] }

\* Misplaced, broken and foreign content; a bundle with a block to skip.
SmallEdited ==
    { [crt |-> <<"other", "r1", "mid">>, key |-> <<"k1", "garbled">>],
      [crt |-> <<"mid", "r1">>, key |-> <<"k1">>],
      [crt |-> <<"r1", "r2">>, key |-> <<"k1">>],
      [crt |-> <<"r1", "garbled">>, key |-> <<"k1">>],
      [crt |-> <<"r1", "mid">>, key |-> <<"k2">>],
      [crt |-> <<"r2", "mid">>, key |-> <<"encrypted", "k2">>],
      [crt |-> <<"deep">>, key |-> <<"k1">>] }

SmallTemplate == {Below("*")}
SmallDomain == {<<"API", "ex", "com", "">>, Below("*"), <<"api", "api", "ex", "com">>}
=============================================================================
