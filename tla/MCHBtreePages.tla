--------------------------- MODULE MCHBtreePages ---------------------------
EXTENDS HBtreePagesInductive

\* The view of a state: the content of a page outside every tree a marker
\* leads to is never read, so it only matters that the page was written.
Led == UNION {Present(m.tree) \cup {m.overflowPage} :
                 m \in {marker, synced, mk[1], mk[2], dmk[1], dmk[2]}}
View ==
    <<pc, memory, txn, mk, dmk, exposed, unsynced \cap Led,
      [p \in Page |-> IF p \in Led \/ file[p] = Absent THEN file[p] ELSE Torn]>>
=============================================================================
