---------------------------- MODULE MCBootstrap ----------------------------
(* Option sets of the runs of Bootstrap.                                   *)
EXTENDS Bootstrap

Opt(mode, auth, path, version) ==
    [mode |-> mode, auth |-> auth, path |-> path, version |-> version,
     teams |-> FALSE, pull |-> FALSE]

\* A first install, an upgrade, a change of transport, new keys and another path.
MCOptions ==
    { Opt("git", "ssh", "a", 1), Opt("git", "ssh", "a", 2), Opt("git", "basic", "a", 2),
      Opt("git", "bearer", "a", 1),
      Opt("provider", "keyFile", "a", 1), Opt("provider", "ssh", "b", 1),
      Opt("provider", "deployToken", "a", 2),
      [Opt("provider", "basic", "a", 1) EXCEPT !.teams = TRUE, !.pull = TRUE] }
=============================================================================
