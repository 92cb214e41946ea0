--------------------------- MODULE MCOAuthProvider ---------------------------
(* Two registrations, two consents and three refresh tokens.                    *)
EXTENDS OAuthProvider, TLC

\* Ids are random strings that differ only in being different.
IdSymmetry ==
    Permutations(Clients) \union Permutations(Requests) \union Permutations(Tokens)
=============================================================================
