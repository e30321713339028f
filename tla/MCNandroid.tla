----------------------------- MODULE MCNandroid -----------------------------
(***************************************************************************)
(* Values of Nandroid's constants: one directory, and selections of the    *)
(* menus that between them reach every loop.                               *)
(***************************************************************************)
EXTENDS Nandroid

Directory == {"rom"}
Menus ==
  {{"boot", "recovery", "system"}, {"cache", "android_internalsd_secure"}}
Sizes ==
  <<Md5, "misc", "boot", "recovery", "wimax", "flexrom", "android_secure",
    "android_internalsd_secure", "cache", "ext", "data", "system">>

=============================================================================
