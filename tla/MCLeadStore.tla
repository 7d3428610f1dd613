---------------------------- MODULE MCLeadStore ----------------------------
(* A ministry with a portal below it, a second ministry, and a page below  *)
(* no known domain but the public suffix.                                  *)
EXTENDS LeadStore, TLC

MCUp == ("min" :> <<"min", "gov">>) @@ ("portal.min" :> <<"portal.min", "min", "gov">>)
          @@ ("other" :> <<"other", "gov">>) @@ ("gov" :> <<"gov">>)

Entry(cat, title, org, main, contact, ext, legacy) ==
  [cat |-> cat, title |-> title, state |-> cat, org |-> org, main |-> main, contact |-> contact,
   ext |-> ext, legacy |-> legacy]

MCFiles ==
  {<<Entry("union", "Union", "Ministry", "min", None, "x1", FALSE),
     Entry("union", "Union Territories", "Department", None, "other", None, FALSE),
     Entry("state", "State", "Nobody", None, None, None, TRUE)>>,
   <<Entry("state", "State", "Department", "other", None, None, FALSE),
     Entry("union", "Union", "Agency", "min", None, "x1", FALSE),
     Entry("union", "Union", "Ministry", "min", None, "x1", FALSE)>>}

MCFinds ==
  {[host |-> "portal.min", name |-> None, dept |-> "slug", band |-> "LOW"],
   [host |-> "other", name |-> "n1", dept |-> None, band |-> "HIGH"],
   [host |-> "gov", name |-> "n2", dept |-> "slug", band |-> "LOW"]}

MCSheets == {<<[email |-> "a", name |-> "n2"], [email |-> None, name |-> "n2"],
               [email |-> "a", name |-> None], [email |-> "b", name |-> None]>>}

MCWeights == {[high |-> 20, low |-> 10, name |-> 40], [high |-> 20, low |-> 15, name |-> 40]}
=============================================================================
