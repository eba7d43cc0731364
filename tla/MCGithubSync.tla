---------------------------- MODULE MCGithubSync -----------------------------
EXTENDS GithubSync

CONSTANTS t1, t2, x, y

=============================================================================
