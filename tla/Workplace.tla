------------------------------ MODULE Workplace ------------------------------
(***************************************************************************)
(* Enterprises with their settings, the default schedules of work, the     *)
(* holidays, and the links of their people with the vacations that hang    *)
(* from them (src/api/{enterprise,enterprise-settings,default-schedule,    *)
(* holiday,vacation,user}).  As in SalesDocuments and StoredFiles, an      *)
(* operator is the set of statements, or of sequences of them, that its    *)
(* handler may send.                                                       *)
(*                                                                         *)
(* Left out: the roles of an enterprise (EnterpriseRoles), and who is      *)
(* linked, by which card (UserAccounts).                                   *)
(***************************************************************************)
EXTENDS StoredFiles

(***************************************************************************)
(* Enterprises.  The tax number is compared at the creation only; the      *)
(* settings are inserted after the row, which may be one that the body     *)
(* names.                                                                  *)
(***************************************************************************)
EnterprisesWith(n) == Where("enterprise", LAMBDA r : r.nif = n)

CreateEnterprise ==
    {<<Insert("enterprise", e, [nif |-> n, logo |-> FALSE]),
       Insert("setting", x, [ent |-> e])>> :
        e \in Fresh("enterprise"), x \in Fresh("setting"),
        n \in {m \in Nifs : EnterprisesWith(m) = {}}}
    \cup {<<q, Insert("setting", x, [ent |-> q.id])>> :
            q \in AsNamed("enterprise", [nif : {m \in Nifs : EnterprisesWith(m) = {}},
                                         logo : BOOLEAN]),
            x \in Fresh("setting")}

UpdateEnterprise ==
    {<<q>> : q \in UNION {Edited("enterprise", e, [nif |-> n]) :
                             e \in Live("enterprise"), n \in Nifs}}

LogoPath(e) == Path(e, "logo", e)

(* The row is saved as it was read, with its logo.                          *)
CreateLogo ==
    {<<Upload("enterprise", LogoPath(e), <<>>),
       Update("enterprise", e, [db.enterprise[e] EXCEPT !.logo = TRUE])>> :
        e \in Live("enterprise")}

(* Its folder goes after its row.                                           *)
DeleteEnterprise ==
    {<<Delete("enterprise", e), RemoveFolder("enterprise", e)>> :
        e \in {k \in Live("enterprise") : Where("earning", LAMBDA r : r.ent = k) = {}}}

(***************************************************************************)
(* Settings: one that was never seeded reads as its default, and is        *)
(* inserted when it is changed.                                            *)
(***************************************************************************)
SettingsOf(e) == Where("setting", LAMBDA r : r.ent = e)

UpdateSetting ==
    {Update("setting", x, <<>>) : x \in UNION {SettingsOf(e) : e \in Live("enterprise")}}
    \cup {Insert("setting", x, [ent |-> e]) :
            x \in Fresh("setting"), e \in {k \in Live("enterprise") : SettingsOf(k) = {}}}

(***************************************************************************)
(* Default schedules and holidays stay in their enterprise, vacations with *)
(* their link; a link works to a schedule of its enterprise, or to none.   *)
(***************************************************************************)
CreateIn(t) == {Insert(t, x, [ent |-> e]) : x \in Fresh(t), e \in Live("enterprise")}

CreateVacation == {Insert("vacation", v, [link |-> l]) : v \in Fresh("vacation"), l \in Live("link")}

UpdateIn(t) == {Update(t, x, <<>>) : x \in Live(t)}
DeleteIn(t) == {Delete(t, x) : x \in Live(t)}

TemplatesFor(e) == Where("template", LAMBDA r : r.ent = e) \cup {None}

CreateLink ==
    UNION {{Insert("link", l, [ent |-> e, template |-> t]) :
                l \in Fresh("link"), t \in TemplatesFor(e)} : e \in Live("enterprise")}

UpdateLink ==
    UNION {{Update("link", l, [template |-> t]) : t \in TemplatesFor(db.link[l].ent)} :
              l \in Live("link")}

DeleteLink == {Delete("link", l) : l \in Live("link")}
=============================================================================
