------------------------------ MODULE Screens ------------------------------
(***************************************************************************)
(* What the pages of the web client read, and what their forms write.      *)
(*                                                                         *)
(* A reader is a useQuery of a component (or a fetch of its own): the key  *)
(* of its cache entry, the server data its answer depends on, and how the  *)
(* page's filter, search and page number reach it.  A form is a dialog,    *)
(* sheet or button that sends a write: the data it writes, the cache keys  *)
(* it invalidates when the server has answered, the reader whose row it    *)
(* edits, and where it takes the user.  A screen is a page: the readers    *)
(* and forms mounted on it.                                                *)
(*                                                                         *)
(* In a key, "list" and "one" stand for the filters and the id that the    *)
(* code appends to the prefix that is invalidated.                         *)
(***************************************************************************)
EXTENDS Sequences, FiniteSets

NoKey == <<>>

(* how: "query" is a useQuery, whose key holds the filter; "raced" a fetch *)
(* that stores every answer in the state of its component; "served" a page *)
(* rendered by the server.  by: how a filter reaches the reader; "now"     *)
(* with the click, "typed" after a pause in typing, "pushed" after a pause *)
(* and through the URL, "dates" typed dates and clicks side by side.       *)
(* keeps: an answer is taken as fresh (staleTime is not zero).             *)
Query(key, of) ==
    [key |-> key, of |-> of, how |-> "query", by |-> "none", keeps |-> TRUE,
     fed |-> FALSE]
By(r, how) == [r EXCEPT !.by = how]
Raced(r) == [r EXCEPT !.how = "raced"]
Served(r) == [r EXCEPT !.how = "served", !.keeps = FALSE, !.fed = TRUE]
AlwaysStale(r) == [r EXCEPT !.keeps = FALSE]

(* edits: the reader whose row the form was opened on; leaves: the page it *)
(* goes to; stays: when saved it stays mounted with the values it had;     *)
(* guesses: the entry it changes before the server has answered.           *)
Form(id, writes, tells) ==
    [id |-> id, writes |-> writes, tells |-> tells, edits |-> NoKey,
     leaves |-> "", stays |-> FALSE, guesses |-> NoKey, fed |-> FALSE]
Edits(f, key) == [f EXCEPT !.edits = key]
Leaves(f, s) == [f EXCEPT !.leaves = s]
Stays(f) == [f EXCEPT !.stays = TRUE]
Guesses(f, key) == [f EXCEPT !.guesses = key]

(* fed: it sends the token the server gave its page, not the auth store's. *)
Fed(x) == [x EXCEPT !.fed = TRUE]

Page(reads, forms) == [reads |-> reads, forms |-> forms]
Shows(r) == Page({r}, {})

(***************************************************************************)
(* The catalogue.                                                          *)
(***************************************************************************)
ProductList == By(Query(<<"products", "list">>, {"product", "stock"}), "now")
ProductSearch == By(ProductList, "pushed")
ProductDetail == Query(<<"products", "one">>, {"product", "stock"})
StockHistory == By(Query(<<"stock-movements", "product">>, {"stock"}), "now")
Categories == Query(<<"categories">>, {"category"})
Brands == Query(<<"brands">>, {"brand"})

CreateProduct ==
    Leaves(Form("create-product", {"product", "stock"}, {<<"products">>}),
           "inventory")
ImportProducts ==
    Leaves(Form("import-products", {"product", "stock"}, {}), "inventory")
BulkPriceUpdate == Form("bulk-price-update", {"product"}, {})
ArchiveProduct ==
    Form("archive-product", {"product"}, {<<"products", "one">>})
DeleteProduct ==
    Leaves(Form("delete-product", {"product"}, {<<"products">>}), "inventory")
EditVariant_Silent ==  \* mutant: the variant mutation invalidates nothing
    Edits(Form("edit-variant", {"product"}, {}), <<"products", "one">>)
EditVariant ==
    Edits(Form("edit-variant", {"product"}, {<<"products", "one">>}),
          <<"products", "one">>)
QuickCategory == Form("quick-category", {"category"}, {<<"categories">>})
QuickBrand == Form("quick-brand", {"brand"}, {<<"brands">>})
AddCategory == Form("add-category", {"category"}, {<<"categories">>})
RenameCategory ==
    Edits(Form("rename-category", {"category"}, {<<"categories">>}),
          <<"categories">>)
DeleteCategory == Form("delete-category", {"category"}, {<<"categories">>})
EditBrand ==
    Edits(Form("edit-brand", {"brand"}, {<<"brands">>}), <<"brands">>)
DeleteBrand == Form("delete-brand", {"brand"}, {<<"brands">>})

InventoryPage ==
    Page({ProductSearch, Categories, Brands}, {BulkPriceUpdate})
ProductPage ==
    Page({ProductDetail, StockHistory},
         {ArchiveProduct, DeleteProduct, EditVariant})
WizardPage ==
    Page({Categories, Brands}, {QuickCategory, QuickBrand, CreateProduct})
ImportPage == Page({Categories, Brands}, {ImportProducts})
CategoriesPage ==
    Page({Categories}, {AddCategory, RenameCategory, DeleteCategory})
BrandsPage == Page({Brands}, {EditBrand, DeleteBrand})

(***************************************************************************)
(* Stock control.                                                          *)
(***************************************************************************)
ProductCount == Query(<<"stock-kpi-products">>, {"product"})
StockWorth == Query(<<"stock-kpi-valuation">>, {"stock", "product"})
LowStockCount == Query(<<"stock-kpi-low-stock">>, {"stock"})
PendingTakes == Query(<<"stock-kpi-pending-takes">>, {"take"})
RecentMovements == Query(<<"stock-recent-movements">>, {"stock"})
Movements == By(Query(<<"stock-movements", "list">>, {"stock"}), "now")
AdjustSearch ==
    By(Query(<<"product-search-adjust">>, {"product", "stock"}), "typed")
LowStockList == By(Query(<<"low-stock-list">>, {"stock"}), "now")
StockValuation == Query(<<"stock-valuation">>, {"stock", "product"})
TakesList == Query(<<"stock-takes-list">>, {"take"})
TakeSession == Query(<<"stock-take-session">>, {"take", "count"})
TakeReview == Query(<<"stock-take-review">>, {"take", "count"})

AdjustStock ==
    Form("adjust-stock", {"stock"},
         {<<"stock-kpi-low-stock">>, <<"stock-recent-movements">>})
StartTake ==
    Leaves(Form("start-take", {"take"}, {<<"stock-takes-list">>}),
           "take")
CountItem == Form("count-item", {"count"}, {<<"stock-take-session">>})
CompleteTake ==
    Leaves(Form("complete-take", {"take"}, {<<"stock-takes-list">>}),
           "review")
ApproveTake_ListOnly ==  \* mutant: the review itself is not invalidated
    Form("approve-take", {"take", "stock"}, {<<"stock-takes-list">>})
ApproveTake ==
    Form("approve-take", {"take", "stock"},
         {<<"stock-take-review">>, <<"stock-takes-list">>})
RejectTake ==
    Form("reject-take", {"take"},
         {<<"stock-take-review">>, <<"stock-takes-list">>})

StockControlPage ==
    Page({ProductCount, StockWorth, LowStockCount, PendingTakes,
          RecentMovements}, {})
MovementsPage == Shows(Movements)
AdjustPage == Page({AdjustSearch}, {AdjustStock})
LowStockPage == Shows(LowStockList)
StockTakesPage == Page({TakesList, Categories}, {StartTake})
CountingPage == Page({TakeSession}, {CountItem, CompleteTake})
ReviewPage == Page({TakeReview}, {ApproveTake, RejectTake})

(***************************************************************************)
(* The point of sale and its history.  (The terminal itself is Register.)  *)
(***************************************************************************)
CurrentShift == AlwaysStale(Query(<<"pos-shift-current">>, {"shift"}))
PosProducts == Query(<<"pos-products">>, {"product", "stock"})
PosSearch ==
    By(Query(<<"pos-products-search">>, {"product", "stock"}), "typed")
HeldSales == Query(<<"held-sales">>, {"held"})
HeldCount == Query(<<"held-sales-count">>, {"held"})
SalesHistory == By(Query(<<"pos-sales">>, {"sale", "return"}), "dates")
SaleDetail == Query(<<"pos-sale-detail">>, {"sale"})
SaleToReturn == Query(<<"sale-detail-return">>, {"sale", "return"})
ReturnsList == By(Query(<<"returns">>, {"return"}), "now")
ZReport == Query(<<"z-report">>, {"closure"})

Sell == Form("sell", {"sale", "stock"}, {<<"held-sales-count">>})
HoldCart == Form("hold-cart", {"held"}, {<<"held-sales">>})
SwapCarts == Form("swap-carts", {"held"}, {<<"held-sales">>})
VoidSale ==
    Form("void-sale", {"sale", "stock"},
         {<<"pos-sales">>, <<"pos-sale-detail">>})
ReturnItems == Form("return-items", {"return", "stock"}, {<<"pos-sales">>})
OpenShift == Form("open-shift", {"shift"}, {<<"pos-shift-current">>})
CloseShift ==
    Leaves(Form("close-shift", {"shift", "closure"}, {}), "dashboard")
CloseFromReport ==
    Form("close-from-report", {"shift", "closure"},
         {<<"z-report">>, <<"pos-shift-current">>})

PosPage ==
    Page({CurrentShift, PosProducts, PosSearch, HeldSales, HeldCount},
         {Sell, HoldCart, SwapCarts, OpenShift, CloseShift})
HistoryPage ==
    Page({CurrentShift, SalesHistory, SaleDetail, SaleToReturn},
         {VoidSale, ReturnItems})
ReturnsPage == Page({CurrentShift, ReturnsList}, {})
ShiftClosePage == Page({CurrentShift, ZReport}, {CloseFromReport})

(***************************************************************************)
(* Customers and suppliers.                                                *)
(***************************************************************************)
CustomerList == By(Query(<<"customers">>, {"customer"}), "typed")
CustomerDetail == Query(<<"customer">>, {"customer", "sale"})
CustomerSearch == By(Query(<<"customer-search">>, {"customer"}), "typed")
Recipients == By(Raced(Query(<<"recipients">>, {"customer"})), "now")
SaveCustomer ==
    Edits(Form("save-customer", {"customer"},
               {<<"customer">>, <<"customers">>}), <<"customer">>)
SaveListed ==
    Edits(Form("save-listed", {"customer"}, {<<"customers">>}),
          <<"customers">>)
ImportCustomers == Form("import-customers", {"customer"}, {<<"customers">>})
Broadcast == Leaves(Form("broadcast", {"message"}, {}), "customers")

SupplierList == By(Query(<<"suppliers">>, {"supplier"}), "now")
SaveSupplier ==
    Edits(Form("save-supplier", {"supplier"}, {<<"suppliers">>}),
          <<"suppliers">>)
ArchiveSupplier == Form("archive-supplier", {"supplier"}, {<<"suppliers">>})
SupplierFilter == Query(<<"suppliers-filter-list">>, {"supplier"})
OrderList == By(Query(<<"purchase-orders">>, {"order"}), "now")
OrderDetail == Query(<<"purchase-order">>, {"order"})
SupplierChoice == Query(<<"suppliers-for-po-form">>, {"supplier"})
VariantSearch ==
    By(Raced(Query(<<"variant-search">>, {"product"})), "typed")
CreateOrder == Leaves(Form("create-order", {"order"}, {}), "order")
CancelOrder ==
    Form("cancel-order", {"order"},
         {<<"purchase-order">>, <<"purchase-orders">>})
SendOrder == Form("send-order", {"order"}, {<<"purchase-order">>})
ReceiveGoods ==
    Edits(Form("receive-goods", {"order", "stock"}, {<<"purchase-order">>}),
          <<"purchase-order">>)

CustomersPage == Page({CustomerList}, {SaveListed, ImportCustomers})
CustomerPage == Page({CustomerDetail}, {SaveCustomer})
BroadcastPage == Page({Recipients}, {Broadcast})
SuppliersPage == Page({SupplierList}, {SaveSupplier, ArchiveSupplier})
OrdersPage == Page({SupplierFilter, OrderList}, {})
OrderPage == Page({OrderDetail}, {CancelOrder, SendOrder, ReceiveGoods})
NewOrderPage == Page({SupplierChoice, VariantSearch}, {CreateOrder})

(***************************************************************************)
(* Expenses, staff and promotions.                                         *)
(***************************************************************************)
ExpenseList == By(Query(<<"expenses">>, {"expense"}), "now")
CashFlow == By(Query(<<"cash-flow">>, {"report"}), "now")
CreateExpense == Form("create-expense", {"expense"}, {<<"expenses">>})
EditExpense ==
    Stays(Edits(Form("edit-expense", {"expense"}, {<<"expenses">>}),
                <<"expenses">>))
StaffList == Query(<<"staff">>, {"staff"})
StaffMember == Query(<<"staff-member">>, {"staff", "pin"})
StaffCommissions == By(Query(<<"staff-commissions">>, {"commission"}), "now")
StaffClock == By(Query(<<"staff-timeclock">>, {"clock"}), "now")
Commissions == By(Query(<<"commissions">>, {"commission"}), "now")
CreateStaff == Form("create-staff", {"staff"}, {<<"staff">>})
ToggleStaff ==
    Guesses(Form("toggle-staff", {"staff"}, {<<"staff">>}), <<"staff">>)
EditProfile ==  \* opened when its tab mounts; Cancel opens it anew
    Stays(Edits(Form("edit-profile", {"staff"},
                     {<<"staff-member">>, <<"staff">>}),
                <<"staff-member">>))
SetPin == Form("set-pin", {"pin"}, {<<"staff-member">>})
CloseSession == Form("close-session", {"clock"}, {<<"staff-timeclock">>})
PayCommission == Form("pay-commission", {"commission"}, {<<"commissions">>})
PromotionList == Query(<<"promotions">>, {"promotion"})
PromotionScopes == Query(<<"categories-for-promotions">>, {"category"})
CreatePromotion == Form("create-promotion", {"promotion"}, {<<"promotions">>})
EditPromotion ==
    Edits(Form("edit-promotion", {"promotion"}, {<<"promotions">>}),
          <<"promotions">>)
DeletePromotion == Form("delete-promotion", {"promotion"}, {<<"promotions">>})
TogglePromotion ==
    Guesses(Form("toggle-promotion", {"promotion"}, {}), <<"promotions">>)

ExpensesPage == Page({ExpenseList}, {CreateExpense, EditExpense})
CashFlowPage == Shows(CashFlow)
StaffPage == Page({StaffList}, {CreateStaff, ToggleStaff})
StaffMemberPage ==
    Page({StaffMember, StaffCommissions, StaffClock},
         {EditProfile, SetPin, CloseSession})
CommissionsPage == Page({Commissions}, {PayCommission})
PromotionsPage ==
    Page({PromotionList, PromotionScopes},
         {CreatePromotion, EditPromotion, DeletePromotion, TogglePromotion})

(***************************************************************************)
(* Settings, billing and the operator's console.                           *)
(***************************************************************************)
AuditLogs == By(Query(<<"auditLogs">>, {"audit"}), "now")
Hardware == Query(<<"hardware-settings">>, {"hardware"})
Webhooks == Query(<<"webhook-endpoints">>, {"webhook"})
BillingOverview == Query(<<"billing-overview">>, {"billing"})
BillingPlans == Query(<<"billing-plans">>, {"plan"})
AdminPlans == Query(<<"admin-billing-plans">>, {"plan"})
Revenue == Query(<<"billing-mrr-metrics">>, {"report"})
TenantList == By(Served(Query(<<"tenants">>, {"tenant"})), "pushed")
TenantDetail == Served(Query(<<"tenant">>, {"tenant"}))
ConsoleFigures == Served(Query(<<"console">>, {"tenant"}))
SystemHealth == Served(Query(<<"system-health">>, {"report"}))
SlugCheck == By(Raced(Fed(Query(<<"check-slug">>, {"tenant"}))), "typed")
SaveHardware ==
    Edits(Form("save-hardware", {"hardware"}, {}), <<"hardware-settings">>)
CreateWebhook == Form("create-webhook", {"webhook"}, {<<"webhook-endpoints">>})
DeleteWebhook == Form("delete-webhook", {"webhook"}, {<<"webhook-endpoints">>})
CancelPlan == Form("cancel-plan", {"billing"}, {<<"billing-overview">>})
SavePlan ==
    Edits(Form("save-plan", {"plan"}, {<<"admin-billing-plans">>}),
          <<"admin-billing-plans">>)
DeletePlan == Form("delete-plan", {"plan"}, {<<"admin-billing-plans">>})
TenantActions ==  \* router.refresh: whatever the server rendered
    Edits(Fed(Form("tenant-actions", {"tenant"},
                   {<<"tenant">>, <<"tenants">>, <<"console">>})),
          <<"tenant">>)
CreateTenant == Fed(Form("create-tenant", {"tenant"}, {}))

HardwarePage == Page({Hardware}, {SaveHardware})
WebhooksPage == Page({Webhooks}, {CreateWebhook, DeleteWebhook})
BillingPage == Page({BillingOverview, BillingPlans}, {CancelPlan})
PlansPage == Page({AdminPlans}, {SavePlan, DeletePlan})
TenantsPage == Shows(TenantList)
TenantPage == Page({TenantDetail}, {TenantActions})
NewTenantPage == Page({SlugCheck}, {CreateTenant})

(***************************************************************************)
(* Reports: computed on request for the dates in the URL; a refresh button *)
(* asks again, and no form invalidates them.                               *)
(***************************************************************************)
Report(name) == By(Query(<<name>>, {"report"}), "now")
SalesByProduct == Report("sales-by-product")
RevenueTrend == Report("revenue-trend")
CustomerAnalytics == Report("customer-analytics")
SalesByStaff == Report("sales-by-staff")
ReturnRate == Report("return-rate")
MovementReport ==
    By(Query(<<"stock-movements", "report">>, {"report"}), "typed")
InventoryValuation == Report("inventory-valuation")
StaffPerformance == Report("staff-performance")
ProfitLoss == Report("profit-loss")

Screen ==
    [inventory |-> InventoryPage, product |-> ProductPage,
     wizard |-> WizardPage, import |-> ImportPage,
     categories |-> CategoriesPage, brands |-> BrandsPage,
     stock |-> StockControlPage, movements |-> MovementsPage,
     adjust |-> AdjustPage, lowStock |-> LowStockPage,
     valuation |-> Shows(StockValuation), takes |-> StockTakesPage,
     take |-> CountingPage, review |-> ReviewPage, pos |-> PosPage,
     history |-> HistoryPage, returns |-> ReturnsPage,
     shiftClose |-> ShiftClosePage, customers |-> CustomersPage,
     customer |-> CustomerPage, broadcast |-> BroadcastPage,
     suppliers |-> SuppliersPage, orders |-> OrdersPage, order |-> OrderPage,
     newOrder |-> NewOrderPage, expenses |-> ExpensesPage,
     cashFlow |-> CashFlowPage, staff |-> StaffPage,
     member |-> StaffMemberPage, commissions |-> CommissionsPage,
     promotions |-> PromotionsPage, audit |-> Shows(AuditLogs),
     hardware |-> HardwarePage, webhooks |-> WebhooksPage,
     billing |-> BillingPage, plans |-> PlansPage, revenue |-> Shows(Revenue),
     tenants |-> TenantsPage, tenant |-> TenantPage,
     console |-> Shows(ConsoleFigures), health |-> Shows(SystemHealth),
     newTenant |-> NewTenantPage,
     salesByProduct |-> Shows(SalesByProduct),
     revenueTrend |-> Shows(RevenueTrend),
     customerAnalytics |-> Shows(CustomerAnalytics),
     salesByStaff |-> Shows(SalesByStaff), returnRate |-> Shows(ReturnRate),
     movementReport |-> Shows(MovementReport),
     inventoryValuation |-> Shows(InventoryValuation),
     staffPerformance |-> Shows(StaffPerformance),
     profitLoss |-> Shows(ProfitLoss), dashboard |-> Page({}, {})]

Screens == DOMAIN Screen
Readers == UNION {Screen[s].reads : s \in Screens}
Forms == UNION {Screen[s].forms : s \in Screens}
=============================================================================
