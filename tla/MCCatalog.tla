----------------------------- MODULE MCCatalog -----------------------------
(* Catalog on two manifest paths and six possible files: two packages whose IDs and   *)
(* positions order them differently, an update that moves one, and the files each     *)
(* reader refuses.                                                                    *)
EXTENDS Catalog

Package(id, position) ==
  [id |-> id, launcher_position |-> position, mode |-> "Framebuffer", handoff |-> "Supervisor",
   executable |-> TRUE, icon_file |-> "png", violations |-> {}]

MCContents ==
  {Package(1, 20), Package(1, 5), Package(2, 10),
   [Package(2, 10) EXCEPT !.mode = "X11"],
   [Package(2, 10) EXCEPT !.handoff = "StockMediated", !.icon_file = "truncated"],
   [Package(1, 20) EXCEPT !.violations = {"environment"}]}

\* Nothing distinguishes the two paths but what their files hold.
Symmetry == Permutations(Paths)
=============================================================================
