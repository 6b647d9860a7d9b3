---------------------------- MODULE CommitGraph ----------------------------
(***************************************************************************)
(* What the orchestrator asks of Git: which commit a ref names and whether *)
(* one commit is an ancestor of another.  Commits are numbered in the      *)
(* order they are created; history[c] is the set of commits reachable from *)
(* c, c itself included, which is what `git merge-base --is-ancestor`      *)
(* decides.                                                                *)
(***************************************************************************)
EXTENDS Naturals, Sequences

NoCommit == 0   \* the value of a ref that does not exist

IsHistory(history) ==
  \A c \in DOMAIN history :
    /\ c \in history[c]
    /\ history[c] \subseteq 1..c
    /\ \A p \in history[c] : history[p] \subseteq history[c]

\* git merge-base --is-ancestor a b
IsAncestor(history, a, b) == a \in history[b]

\* The history after a commit with these parents is created, and its name.
NextCommit(history) == Len(history) + 1

WithCommit(history, parents) ==
  Append(history, {NextCommit(history)} \union
                  UNION { history[p] : p \in parents })

=============================================================================
