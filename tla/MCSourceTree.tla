----------------------------- MODULE MCSourceTree -----------------------------
(* A repository with files at its top and in two subdirectories, and files *)
(* that are never indexed, read by two runs.                               *)
EXTENDS SourceTree, TLC

CONSTANTS top, src, tests, deps, git, main, util, spec, lib, notes, config

MCDirs == {top, src, tests, deps, git}
MCFiles == {main, util, spec, lib, notes, config}
MCIn == (src :> top) @@ (deps :> src) @@ (git :> top) @@ (tests :> top)
          @@ (main :> top) @@ (util :> src) @@ (spec :> tests)
          @@ (lib :> deps) @@ (notes :> src) @@ (config :> git)
MCOrder == <<config, main, lib, notes, util, spec>>

(* f of two lines and g of one; g moved before f; f alone.                 *)
MCContent == {<<<<"f", 1>>, <<"f", 2>>, <<"g", 3>>>>,
              <<<<"g", 3>>, <<"f", 1>>, <<"f", 2>>>>,
              <<<<"f", 4>>>>}

Original == <<<<"f", 1>>, <<"f", 2>>, <<"g", 3>>>>
MCGiven == {[f \in MCFiles |-> Original],
            [f \in MCFiles |-> IF f = util THEN Null ELSE Original]}

Symmetric == Permutations(Run) \cup Permutations(Place)
===============================================================================
