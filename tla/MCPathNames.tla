---------------------------- MODULE MCPathNames -----------------------------
EXTENDS PathNames

Upto(n, symbols) == UNION {[1..k -> symbols] : k \in 0..n}
As(n) == [i \in 1..n |-> "a"]

MCSymbols == {"\\", "/", ":", ".", "?", "*", "a", "b", "B", "UNC", "GLOBALROOT", "NUL"}
MCFirstDirectory == <<"a", ":", "\\">>
MCDirectories == {<<"a", ":", "\\", "b", "a", "b">>, <<"b", ":", "\\", "a">>}

(* Every short name, and what the roots introduce; long ones for the limit. *)
MCNames ==
    Upto(3, {"\\", "/", "a", ":", "."})
    \cup {root \o tail : root \in {<<"\\", "\\", "?">>, <<"\\", "\\", ".", "/">>,
                                   <<"\\", "\\", "?", "\\", "UNC", "\\">>,
                                   <<"\\", "\\", ".", "\\", "UNC", "/">>,
                                   <<"/", "\\", ".", "\\", "GLOBALROOT", "\\">>,
                                   <<"\\", "\\", "?", "\\", "GLOBALROOT", "\\">>,
                                   <<"a", ":", "\\">>, <<"a", ":", "/">>, <<"\\", "\\", "a">>},
                          tail \in Upto(2, {"\\", "a", "?", ".", "UNC"})}
    \cup {root \o As(n) : root \in {<<"\\">>, <<"\\", "\\">>, <<"a", ":", "\\">>,
                                    <<"\\", "\\", "?", "\\">>}, n \in 5..14}

MCPatterns == Upto(3, {"*", "?", "a", "B"}) \cup
              {<<"*", "a", "*", "b">>, <<"?", "*", "?", "*">>, <<"*", "b", "*", "a", "*">>}
MCFileNames == Upto(3, {"a", "b"})
=============================================================================
