----------------------------- MODULE MC_Pipeline -----------------------------
\* Bounded instances of Pipeline for TLC: every answer of up to two nodes with
\* up to two dependencies each, malformed ones included; every graph over
\* three nodes, and over four nodes without a self dependency, whose ids are
\* not in the order of the answer.
EXTENDS Pipeline

Lists(ids) == {<<>>} \union {<<a>> : a \in ids} \union {<<a, b>> : a, b \in ids}
Ascending(ids) == {SetToSortSeq(S, <) : S \in SUBSET ids}

Small == LET node == [id : {1, 2}, deps : Lists({1, 2, 9})] IN
         {<<>>} \union {<<m>> : m \in node} \union {<<m, n>> : m, n \in node}

Named(ids, deps) == [i \in DOMAIN ids |-> [id |-> ids[i], deps |-> deps[i]]]

Three == {Named(<<2, 3, 1>>, <<a, b, c>>) : a, b, c \in Ascending({1, 2, 3})}
Four  == {Named(<<3, 1, 4, 2>>, <<a, b, c, e>>) :
            a \in Ascending({1, 2, 4}), b \in Ascending({2, 3, 4}),
            c \in Ascending({1, 2, 3}), e \in Ascending({1, 3, 4})}

MC_Drafts == Small \union Three \union Four
=============================================================================
