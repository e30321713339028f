------------------------------ MODULE MCMenus ------------------------------
(***************************************************************************)
(* Values of Menus' constants: a menu with more items than fit the screen, *)
(* one that asks, a list of backups that leads to another menu, and a      *)
(* chooser with a directory and a file.                                    *)
(***************************************************************************)
EXTENDS Menus

SomeStyles ==
  [main |-> "main", wipe |-> "loop", backups |-> "once", restore |-> "loop",
   zips |-> "chooser", folder |-> "chooser"]

Do(kind) == [kind |-> kind, to |-> "main"]
Open(menu) == [kind |-> "menu", to |-> menu]

SomeItems ==
  [main |-> <<Do("return"), Open("backups"), Open("wipe"), Open("zips")>>,
   wipe |-> <<Do("return"), Do("wipe")>>,
   backups |-> <<Do("return"), Do("script"), Open("restore")>>,
   restore |-> <<Do("toggle"), Do("return")>>,
   zips |-> <<Do("return"), Open("folder"), Do("file")>>,
   folder |-> <<Do("return"), Do("file"), Do("file"), Do("file"), Do("file")>>]

SomeHeaders ==
  [main |-> 1, wipe |-> 2, backups |-> 1, restore |-> 1, zips |-> 1,
   folder |-> 1]

=============================================================================
