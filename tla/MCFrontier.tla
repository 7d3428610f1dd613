----------------------------- MODULE MCFrontier -----------------------------
(* A small web: a listing whose second and third page are reached by a     *)
(* pager, two officials' pages, and a page off the seed's domain.            *)
EXTENDS Frontier

L(to, param, next, pager) ==
  [to |-> to, param |-> param, next |-> next, pager |-> pager, hot |-> FALSE]
Link(to) == L(to, "none", FALSE, FALSE)

MCUrls == {"list", "page2", "page3", "boss", "chief", "off", "pdf", "www.boss"}
MCLinks ==
  [u \in MCUrls |->
     CASE u = "list"  -> <<Link("pdf"), L("off", "other", FALSE, TRUE), L("page3", "none", FALSE, FALSE),
                           L("page2", "int", FALSE, TRUE)>>
       [] u = "page2" -> <<Link("off"), Link("boss"), L("page3", "none", TRUE, FALSE)>>
       [] u = "page3" -> <<L("page2", "int", FALSE, TRUE), Link("chief")>>
       [] u = "off"   -> <<Link("pdf"), Link("www.boss")>>
       [] OTHER       -> <<>>]
MCAliases == [u \in MCUrls |-> IF u = "www.boss" THEN "boss" ELSE u]
MCSeeds == <<"list">>
=============================================================================
