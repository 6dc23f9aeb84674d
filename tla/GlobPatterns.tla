---------------------------- MODULE GlobPatterns ----------------------------
(***************************************************************************)
(* The Ant-style patterns of core/access_control.py.  A pattern and a name *)
(* are sequences of characters; "*" stops at "/", "**" does not.           *)
(***************************************************************************)
EXTENDS Sequences, Naturals

Stars(p, i) == i < Len(p) /\ p[i] = "*" /\ p[i + 1] = "*"

\* "**" is tried before "*", from left to right.
Tokens(p) ==
    LET from[i \in 1 .. Len(p) + 1] ==
            IF i > Len(p) THEN <<>>
            ELSE IF Stars(p, i) THEN <<"**">> \o from[i + 2]
            ELSE <<p[i]>> \o from[i + 1]
    IN  from[1]

\* Whether the tokens from i on take the name from j on.
Accepts(t, v) ==
    LET takes[i \in 1 .. Len(t) + 1, j \in 1 .. Len(v) + 1] ==
            IF i > Len(t) THEN j > Len(v)
            ELSE LET one(ok)  == j <= Len(v) /\ ok /\ takes[i + 1, j + 1]
                     many(ok) == takes[i + 1, j] \/ (j <= Len(v) /\ ok /\ takes[i, j + 1])
                 IN  CASE t[i] = "**" -> many(TRUE)
                       [] t[i] = "*"  -> many(v[j] # "/")
                       [] t[i] = "?"  -> one(v[j] # "/")
                       [] OTHER       -> one(v[j] = t[i])
    IN  takes[1, 1]

MatchesInFull(p, v) == Accepts(Tokens(p), v)

IsUniversal(p) ==
    /\ \A i \in DOMAIN p : p[i] = "*"
    /\ \E i \in DOMAIN p : Stars(p, i)
=============================================================================
