----------------------------- MODULE MCSchedule -----------------------------
(* The configurations of modules and paths that TLC checks. *)
EXTENDS Schedule, TLC

\* Two paths that begin with the same filter.  What comes next needs a
\* producer twice, on one path, and nothing that the other path needs.
ChainGets == [m \in {"alpha", "beta", "gamma", "first", "left", "right"} |->
    CASE m = "beta"  -> <<"alpha">>
      [] m = "left"  -> <<"beta", "alpha">>
      [] m = "right" -> <<"gamma">>
      [] OTHER       -> <<>>]
ChainFilters == ("p" :> <<"first", "left">>) @@ ("q" :> <<"first", "right">>)
ChainQueue == [m \in DOMAIN ChainGets |-> IF m \in {"left", "right"} THEN "unsafe" ELSE "none"]

\* Two paths that go on, each by itself, with a filter that needs the same
\* producer, one of them through another that needs it too; and a path with no
\* filter.
DiamondGets == [m \in {"alpha", "beta", "first", "left", "right"} |->
    CASE m = "beta"  -> <<"alpha">>
      [] m = "left"  -> <<"beta", "alpha">>
      [] m = "right" -> <<"alpha">>
      [] OTHER       -> <<>>]
DiamondFilters ==
    ("p" :> <<"first", "left">>) @@ ("q" :> <<"first", "right">>) @@ ("r" :> <<>>)
DiamondQueue == [m \in DOMAIN DiamondGets |-> "none"]

\* Two paths that meet at their second filter.
SharedGets == [m \in {"left", "right", "shared"} |-> <<>>]
SharedFilters == ("p" :> <<"left", "shared">>) @@ ("q" :> <<"right", "shared">>)
SharedQueue == [m \in DOMAIN SharedGets |-> "none"]

TwoPaths == <<"p", "q">>
ThreePaths == <<"p", "q", "r">>
=============================================================================
