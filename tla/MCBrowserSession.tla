-------------------------- MODULE MCBrowserSession --------------------------
EXTENDS BrowserSession, TLC

\* Sound: no definition names a tab, or a user but by membership in Allowed.
TabUserSymmetry == Permutations(Tabs) \cup Permutations(Allowed)
=============================================================================
