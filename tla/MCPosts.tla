------------------------------- MODULE MCPosts -------------------------------
(* Instances of Posts for TLC.                                             *)
EXTENDS Posts, TLC

CONSTANTS s1, s2, u1, u2

(* CreateServer makes its owner the only active member.                    *)
Owners == {<<s1, u1>>, <<s2, u2>>}

Symmetry ==
    Permutations(Request) \cup Permutations(Post) \cup Permutations(Comment)
        \cup Permutations(Caption)

=============================================================================
