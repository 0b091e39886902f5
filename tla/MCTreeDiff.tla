----------------------------- MODULE MCTreeDiff -----------------------------
EXTENDS TreeDiff

Names == 1 .. 2

\* Two contents, the first one also as an executable; files in directories
\* come in two kinds.
TopFiles == {<<1, "regular">>, <<2, "regular">>, <<1, "executable">>}
InnerFiles == {<<1, "regular">>, <<2, "regular">>}

\* What may stand under a name: nothing, a file or a directory.
Entry(n) ==
    {<<>>} \cup {<<n>> :> f : f \in TopFiles}
    \cup {(<<n>> :> Dir) @@ g :
             g \in UNION {[S -> InnerFiles] : S \in SUBSET {<<n, m>> : m \in Names}}}

SmallTrees == {a @@ b : a \in Entry(1), b \in Entry(2)}

AllOptions == {[detect |-> TRUE, limit |-> l, onlyExact |-> e] : l \in 0 .. 1, e \in BOOLEAN}

\* nameSimilarityScore for names of one letter.
LetterScore(p, q) ==
    LET dir == IF Len(p) = 1 /\ Len(q) = 1 THEN 200
               ELSE IF Len(p) # Len(q) THEN 0
               ELSE IF p[1] = q[1] THEN 200 ELSE 50
        file == IF p[Len(p)] = q[Len(q)] THEN 100 ELSE 0
    IN (dir * 25 + file * 50) \div 100

\* The two contents resemble each other.
Resembling(g, h) == IF g = h THEN 100 ELSE 70
=============================================================================
