---------------------------- MODULE MCChatServer ----------------------------
EXTENDS ChatServerBoards, TLC

CONSTANTS ann, bob, cyd, pw1, pw2

MCNames     == {ann, bob}
MoreNames   == {ann, bob, cyd}

MCPasswords == {pw1, pw2}
OnePassword == {pw1}
NameSymmetry     == Permutations(MCNames)
SessionSymmetry  == Permutations(MoreNames) \union Permutations(MCPasswords)
=============================================================================
