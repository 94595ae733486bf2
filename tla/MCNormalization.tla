--------------------------- MODULE MCNormalization ---------------------------
EXTENDS Normalization
N(form, branch) == [form |-> form, branch |-> branch]
R(plus, colon, src, dst) == [plus |-> plus, colon |-> colon, src |-> src, dst |-> dst]
Plain(n) == R(FALSE, FALSE, n, n)
MCWords == {"origin", "fork", "feature/x", "+feature/x", "main", ":feature/x", "main:feature/x",
            "feature/x:refs/heads/main", "HEAD", "refs/tags/t", "feature/*", "topic", "feature/new"}
MCSpec  ==
    [w \in MCWords |->
       CASE w = "origin" -> Plain(N("short", "origin"))
         [] w = "fork" -> Plain(N("short", "fork"))
         [] w = "feature/x" -> Plain(N("short", "feature/x"))
         [] w = "+feature/x" -> [Plain(N("short", "feature/x")) EXCEPT !.plus = TRUE]
         [] w = "main" -> Plain(N("short", "main"))
         [] w = ":feature/x" -> R(FALSE, TRUE, N("none", "none"), N("short", "feature/x"))
         [] w = "main:feature/x" -> R(FALSE, TRUE, N("short", "main"), N("short", "feature/x"))
         [] w = "feature/x:refs/heads/main" -> R(FALSE, TRUE, N("short", "feature/x"), N("heads", "main"))
         [] w = "HEAD" -> Plain(N("HEAD", "none"))
         [] w = "refs/tags/t" -> Plain(N("other", "t"))
         [] w = "feature/*" -> Plain(N("wild", "none"))
         [] w = "topic" -> Plain(N("short", "topic"))
         [] w = "feature/new" -> Plain(N("short", "feature/new"))]
MCOptions == {"--force", "--all", "--delete", "--repo", "--repo=fork", "-o", "--follow-tags",
              "-n", "-fu", "-nd", "-uo", "--recurse-submodules", "--del"}
=============================================================================
