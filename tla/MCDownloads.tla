----------------------------- MODULE MCDownloads -----------------------------
(* The instance of Downloads that TLC checks.                                *)
EXTENDS Downloads, TLC

Symmetry == Permutations(Downloads) \union Permutations(Files) \union Permutations(Inodes)

\* The content of an inode that nothing leads to cannot be read again: Open starts a new one.
View == <<shown, part, library, [i \in Inodes |-> IF Free(i) THEN << >> ELSE content[i]],
          tasks, disturbed>>

=============================================================================
