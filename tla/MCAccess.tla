------------------------------ MODULE MCAccess ------------------------------
(* Two users of two enterprises, every resource of the catalogue, and a     *)
(* body that grants a mutation of what it does not let be seen.             *)
EXTENDS Access

CONSTANTS ann, bob, e1, e2

Catalogue ==
  {"dashboard", "clients", "documentManagement", "suppliers", "invoices", "quotes",
   "orders", "invoiceSeries", "recurrentEarnings", "spents", "itemCategories",
   "spentCategories", "items", "users", "enterpriseRoles", "enterprises", "signings",
   "vacations", "holidays", "workSchedules", "defaultSchedules", "enterpriseSettings",
   "billing", "aiRequests"}

Contract ==
  [res \in Catalogue |->
     CASE res \in {"enterprises", "enterpriseSettings"} -> {"read", "write"}
       [] res \in {"aiRequests", "dashboard"} -> {"read"}
       [] OTHER -> Actions]

Body(res, as) == [k \in Catalogue \cup {Wildcard} |-> IF k = res THEN as ELSE {}]
Bodies == {Body("users", {"read", "write"}), Body("users", {"delete"})}

\* ann assigns and changes the roles, bob invites, removes and looks.
Called ==
  [u \in {ann, bob} |->
     IF u = ann THEN {Person("write"), Record("enterpriseRoles", "write")}
     ELSE {Sent("users", "write"), Person("delete"), Linked}]

\* What is judged and what is acted on.
Names(judged, e) == [judged |-> judged, enterprise |-> e]
Pairs == {Names(e1, e1), Names(e1, e2), Names(None, e1)}
=============================================================================
