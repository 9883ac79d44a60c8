---------------------------- MODULE MCResolution ----------------------------
EXTENDS Resolution
CONSTANTS merz, fmerz, merzz, MERZ, chancellor

\* merz and MERZ differ in case; merzz is a typo of merz; merz is contained in
\* fmerz ("friedrich merz"); the embedder finds chancellor close to fmerz.
MCNorm == [x \in Names |-> IF x = MERZ THEN merz ELSE x]
MCFuzzy == {{merz, merzz}, {MERZ, merzz}}
MCTokens == [x \in Names |->
    CASE x \in {merz, MERZ} -> {"merz"} [] x = merzz -> {"merzz"}
      [] x = fmerz -> {"friedrich", "merz"} [] x = chancellor -> {"chancellor"}]

Pair(x, y, a, b) == {x, y} = {a, b}
MCLikeness == [x \in Names |-> [y \in Names |->
    CASE x = y -> 3
      [] Pair(x, y, chancellor, fmerz) -> 2
      [] Pair(x, y, chancellor, merz) -> 1
      [] Pair(x, y, merz, fmerz) -> 1
      [] OTHER -> 0]]
=============================================================================
