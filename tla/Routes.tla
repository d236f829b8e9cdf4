------------------------------- MODULE Routes -------------------------------
(***************************************************************************)
(* The endpoints of the controllers (src/api/*/*.controller.ts): where the *)
(* enterprise of a call comes from and the permission it needs, as their   *)
(* decorators and the services they call say.                              *)
(*                                                                         *)
(*   asked    the query names it; the guards judge it                      *)
(*   sent     the body names it; the guards judge that of the query, when  *)
(*            there is one; the service asks for a link with the body's    *)
(*   linked   the query names it; only the link is asked for               *)
(*   record   it is that of the record, or of the parts of a new one; the  *)
(*            service judges it                                            *)
(*   within   named, and the record is looked for in it alone              *)
(*   person   those the caller shares with a user                          *)
(*   several  all the enterprises of the caller                            *)
(*   admin    the service asks for a global administrator                  *)
(*   open     none: any user                                               *)
(***************************************************************************)
EXTENDS FiniteSets

Route(where, resource, action) ==
    [where |-> where, resource |-> resource, action |-> action]

Asked(resource, action)  == Route("asked", resource, action)
Sent(resource, action)   == Route("sent", resource, action)
Record(resource, action) == Route("record", resource, action)
Within(resource, action) == Route("within", resource, action)
Person(action)           == Route("person", "users", action)
Several(resource)        == Route("several", resource, "read")
Linked                   == Route("linked", "none", "read")
Admin(action)            == Route("admin", "enterprises", action)
Open                     == Route("open", "none", "read")

(* A controller with the endpoints of both, by its methods' names.         *)
With(more, routes) ==
    [n \in DOMAIN more \cup DOMAIN routes |->
        IF n \in DOMAIN more THEN more[n] ELSE routes[n]]

(* A table of an enterprise: lists and creations name the enterprise.      *)
Crud(resource) ==
    [create     |-> Asked(resource, "write"),
     findAll    |-> Asked(resource, "read"),
     findById   |-> Record(resource, "read"),
     updateById |-> Record(resource, "write"),
     delete     |-> Record(resource, "delete")]

(* A table kept per enterprise: every call names the enterprise.           *)
CrudWithin(resource) ==
    [create     |-> Asked(resource, "write"),
     findAll    |-> Asked(resource, "read"),
     findById   |-> Within(resource, "read"),
     updateById |-> Within(resource, "write"),
     delete     |-> Within(resource, "delete")]

(* A table that nothing changes through its own endpoints.                 *)
Shown(resource) ==
    [findAll |-> Asked(resource, "read"), findById |-> Record(resource, "read")]

(* A document whose enterprise is that of its client or supplier.          *)
Document(resource) ==
    With([updateStatusById |-> Record(resource, "write"),
          downloadDocumentById |-> Record(resource, "read"),
          create |-> Record(resource, "write")],
         Crud(resource))

AiRequestRoutes ==
    With([create |-> Asked("aiRequests", "write")],
         Shown("aiRequests"))
BillingRoutes ==
    [getActiveSubscriptions |-> Linked,
     getProductsByMetadata  |-> Open,
     getProductsSigningsWithPrices   |-> Open,
     getProductsManagementWithPrices |-> Open]
BillingChangeRoutes ==
    [createSubscriptionCheckoutSession   |-> Sent("billing", "write"),
     updateSubscriptionPrice             |-> Sent("billing", "write"),
     cancelSubscriptionAtPeriodEnd       |-> Sent("billing", "write"),
     revokeCancelSubscriptionAtPeriodEnd |-> Sent("billing", "write")]
ClientDocumentRoutes ==
    With([downloadById |-> Record("documentManagement", "read")],
         Crud("documentManagement"))
ClientRoutes          == Crud("clients")
DefaultScheduleRoutes == CrudWithin("defaultSchedules")
EnterpriseRoleRoutes  ==
    With([getPermissionCatalog |-> Asked("enterpriseRoles", "read")],
         Crud("enterpriseRoles"))
EnterpriseSettingsRoutes ==
    [findAll     |-> Asked("enterpriseSettings", "read"),
     findByKey   |-> Within("enterpriseSettings", "read"),
     findById    |-> Within("enterpriseSettings", "read"),
     updateByKey |-> Within("enterpriseSettings", "write")]
EnterpriseRoutes ==
    [findAll    |-> Several("enterprises"),
     findById   |-> Record("enterprises", "read"),
     updateById |-> Record("enterprises", "write"),
     delete     |-> Admin("delete"),
     downloadLogoFile |-> Record("enterprises", "read")]
EnterpriseCreationRoutes ==
    [create |-> Admin("write"), createLogoInDropbox |-> Asked("enterprises", "write")]
HolidayRoutes              == CrudWithin("holidays")
InvoiceConceptSerialRoutes == Crud("invoices")
InvoiceConceptRoutes       == Crud("invoices")
InvoiceSeriesRoutes        == Crud("invoiceSeries")
InvoiceRoutes              == Document("invoices")
ItemCategoryRoutes         == Crud("itemCategories")
ItemSerialRoutes           == Shown("items")
ItemRoutes                 == Crud("items")
MetricCountRoutes ==
    [r \in {"invoices", "spents", "quotes", "users"} |-> Asked(r, "read")]
MetricListRoutes ==
    [r \in {"clients", "suppliers", "invoiceSeries", "aiRequests"} |->
        Asked(r, "read")]
MetricPeriodRoutes ==
    [r \in {"invoices", "spents"} |-> Asked(r, "read")]
MetricYearRoutes ==
    [r \in {"invoices", "spents"} |-> Asked(r, "read")]
OrderConceptRoutes      == Crud("orders")
OrderRoutes             == Document("orders")
QuoteConceptRoutes      == Crud("quotes")
QuoteRoutes             == Document("quotes")
RecurrentEarningRoutes  == Crud("recurrentEarnings")
SigningRoutes ==
    With([getSigningUpdates |-> Within("signings", "read")],
         CrudWithin("signings"))
SpentCategoryRoutes      == Crud("spentCategories")
SpentConceptSerialRoutes == Crud("spents")
SpentConceptRoutes       == Crud("spents")
SpentUploadRoutes ==
    [create             |-> Record("spents", "write"),
     addFileToSpentById |-> Record("spents", "write"),
     previewAiSpentFile |-> Asked("spents", "write")]
SpentRoutes ==
    [findAll    |-> Asked("spents", "read"),
     findById   |-> Record("spents", "read"),
     updateById |-> Record("spents", "write"),
     delete     |-> Record("spents", "delete"),
     downloadSpentFile       |-> Record("spents", "read"),
     removeFileFromSpentById |-> Record("spents", "delete")]
StockMovementRoutes  == Shown("items")
SupplierRoutes       == Crud("suppliers")
UserEnterpriseRoutes == [findByCardId |-> Asked("signings", "read")]
UserRoutes ==
    [create       |-> Sent("users", "write"),
     findAll      |-> Asked("users", "read"),
     findByCardId |-> Asked("users", "read"),
     findMyself   |-> Open,
     findByEmail  |-> Person("read")]
UserByIdRoutes ==
    [findById   |-> Person("read"),
     updateById |-> Person("write"),
     unlinkUserFromEnterprise |-> Person("delete")]
VacationRoutes     == CrudWithin("vacations")
WorkScheduleRoutes == CrudWithin("workSchedules")

Controllers ==
    {AiRequestRoutes, With(BillingRoutes, BillingChangeRoutes), ClientDocumentRoutes,
     ClientRoutes, DefaultScheduleRoutes, EnterpriseRoleRoutes,
     EnterpriseSettingsRoutes, With(EnterpriseRoutes, EnterpriseCreationRoutes),
     HolidayRoutes, InvoiceConceptSerialRoutes, InvoiceConceptRoutes,
     InvoiceSeriesRoutes, InvoiceRoutes, ItemCategoryRoutes, ItemSerialRoutes,
     ItemRoutes, MetricCountRoutes, MetricListRoutes, MetricPeriodRoutes,
     MetricYearRoutes, OrderConceptRoutes, OrderRoutes, QuoteConceptRoutes,
     QuoteRoutes, RecurrentEarningRoutes, SigningRoutes, SpentCategoryRoutes,
     SpentConceptSerialRoutes, SpentConceptRoutes, With(SpentRoutes, SpentUploadRoutes),
     StockMovementRoutes, SupplierRoutes, UserEnterpriseRoutes,
     With(UserRoutes, UserByIdRoutes), VacationRoutes, WorkScheduleRoutes}

RoutesOf(controller) == {controller[n] : n \in DOMAIN controller}
AllRoutes            == UNION {RoutesOf(c) : c \in Controllers}
=============================================================================
