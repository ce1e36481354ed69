-------------------------------- MODULE MCRig --------------------------------
(* An npm workspace with two members whose names sanitize to one id, a     *)
(* Python project beside it, and a hand-written file that adds             *)
(* dependencies between what the others find.                              *)
EXTENDS Rig

CONSTANTS core, app, app_

MCHandId == {<<"t">>}

MCSafe == [n \in {core, app, app_} |-> IF n = app_ THEN app ELSE n]

NpmPackage(path, name, deps) ==
  [path |-> path, name |-> name, deps |-> deps, scripts |-> {"build"}]

Workspace ==
  [root |-> NpmPackage("root", core, {app}),
   members |-> <<NpmPackage("a", app, {core}), NpmPackage("b", app_, {app})>>]

Single == [root |-> NpmPackage("root", app, {core}), members |-> <<>>]

Python == [name |-> core, deps |-> {app}, scripts |-> {"serve"}]

Entry(id, path, deps) == [id |-> id, path |-> path, dependsOn |-> deps]

ByHand ==
  [components |-> <<Entry(<<"pkg", app>>, "a", {<<"pkg", core>>, <<"py", core>>}),
                    Entry(<<"lib", core>>, "root", {<<"pkg", app>>})>>,
   targets |-> <<[id |-> <<"t">>, owner |-> <<"py", core>>],
                 [id |-> <<<<"pkg", app>>, "build">>, owner |-> <<"lib", core>>]>>,
   tests |-> <<[id |-> <<"t">>, owner |-> <<"pkg", app>>]>>]

CMake ==
  [components |-> <<Entry(<<"lib", core>>, "c", {<<"py", core>>}),
                    Entry(<<"pkg", app>>, "c", {<<"lib", core>>})>>,
   targets |-> <<[id |-> <<"t">>, owner |-> <<"lib", core>>]>>,
   tests |-> <<>>]

MCOrder == <<"package-json", "pyproject", "manual", "spade">>

MCContents ==
  [e \in Extractor |-> Bad(e) \cup
     CASE e = "package-json" -> {Workspace, Single}
       [] e = "pyproject"    -> {Python}
       [] e = "manual"       -> {ByHand}
       [] e = "spade"        -> {CMake}]
==============================================================================
