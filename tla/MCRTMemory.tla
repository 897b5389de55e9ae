----------------------------- MODULE MCRTMemory -----------------------------
EXTENDS RTMemory, TLC

CONSTANTS c1, c2

Map4(a, b, c, d) == (0 :> a) @@ (1 :> b) @@ (2 :> c) @@ (3 :> d)
Map3(a, b, c) == (0 :> a) @@ (1 :> b) @@ (2 :> c)

\* Mappings with a gap, a guard page, a device, writable code, the file once or twice.
Varied ==
  {Map4("data", "data", "data", "data"), Map4("data", "hole", "file", "lib"),
   Map4("data", "data", "hole", "data"), Map4("jit", "data", "lib", "lib"),
   Map4("lib", "data", "jit", "hole"), Map4("file", "guard", "lib", "file"),
   Map4("hole", "lib", "hole", "lib"), Map4("data", "data", "device", "hole")}
Few == {Map3("lib", "data", "data"), Map3("data", "data", "jit"), Map3("data", "hole", "lib")}
Two == {Map3("lib", "data", "data"), Map3("hole", "lib", "data")}

CallerSymmetry == Permutations({c1, c2})
=============================================================================
