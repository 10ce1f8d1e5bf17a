---------------------------- MODULE DurableTree ----------------------------
(***************************************************************************)
(* What the page store of src/hbtree promises to its clients, without      *)
(* pages, markers or residues: a commit replaces the tree, a sync makes    *)
(* the committed tree the one a restart comes back to, and a restart never *)
(* comes back to anything else, whatever it interrupts.                    *)
(***************************************************************************)
EXTENDS Naturals

CONSTANTS
    Tree,   \* the trees there can be
    Empty   \* the tree of a new file

VARIABLES
    running,   \* whether the file is open
    committed, \* the tree of the last commit, while the file is open
    stable,    \* the tree of the last sync that is certainly durable
    syncing    \* the trees a sync in progress may have made durable

vars == <<running, committed, stable, syncing>>

Init ==
    /\ running = TRUE
    /\ committed = Empty
    /\ stable = Empty
    /\ syncing = {}

Commit ==
    /\ running
    /\ syncing = {}
    /\ committed' \in Tree
    /\ UNCHANGED <<running, stable, syncing>>

StartSync ==
    /\ running
    /\ syncing = {}
    /\ syncing' = {committed}
    /\ UNCHANGED <<running, committed, stable>>

EndSync ==
    /\ running
    /\ stable' \in syncing
    /\ syncing' = {}
    /\ UNCHANGED <<running, committed>>

\* The process ends; a sync it was in is undecided.
Stop ==
    /\ running
    /\ running' = FALSE
    /\ committed' = Empty
    /\ UNCHANGED <<stable, syncing>>

\* The machine loses power: a sync in progress took effect or did not.
Lose ==
    /\ running' = FALSE
    /\ committed' = Empty
    /\ stable' \in {stable} \cup syncing
    /\ syncing' = {}

Recover ==
    /\ ~running
    /\ running' = TRUE
    /\ committed' \in {stable} \cup syncing
    /\ UNCHANGED <<stable, syncing>>

Next == Commit \/ StartSync \/ EndSync \/ Stop \/ Lose \/ Recover

Spec == Init /\ [][Next]_vars
=============================================================================
