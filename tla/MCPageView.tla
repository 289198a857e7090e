----------------------------- MODULE MCPageView -----------------------------
(* A page of any viewer, or none, in heights above and below what it needs, *)
(* at two resolutions, with a panel that needs to scroll or does not.       *)
EXTENDS PageView

MCNames == {".dll", ".efi", ".exe", ".ico", ".iso", ".ISO", ""}
MCFold == [n \in MCNames |-> IF n = ".ISO" THEN ".iso" ELSE n]
=============================================================================
