------------------------------ MODULE MCClient ------------------------------
(* Instances of Client: one behaviour uses the forms and readers of one    *)
(* view, a part of the screens that is small enough and interferes.        *)
EXTENDS Client, TLC

View(F, R, n) ==
    LET tour == {s \in Screens : \/ Screen[s].forms \cap F # {}
                                 \/ Screen[s].reads \cap R # {}}
    IN  [forms |-> F, reads |-> R, session |-> FALSE, moves |-> n,
         on |-> [s \in tour |-> Page(Screen[s].reads \cap R,
                                     Screen[s].forms \cap F)],
         person |-> IF \A s \in tour : AreaOf(s) = "admin" THEN "sue"
                    ELSE "ann"]

(* Every form with every reader of data it writes, on whatever page (and   *)
(* the reader whose entry it guesses).                                     *)
Guessed(f) == {r \in Readers : f.guesses # NoKey /\ r.key = f.guesses}
PairViews ==
    {View({p[1]}, {p[2]} \cup Guessed(p[1]), 3) :
        p \in {q \in Forms \X Readers : Overlap(q[1], q[2])}}
LoneViews ==
    {View({}, {r}, 3) :
        r \in {q \in Readers : ~\E f \in Forms : Overlap(f, q)}}

(* Forms and readers that meet on more than one entry, or on one entry in  *)
(* more than one way.                                                      *)
MixedViews ==
    {View({SaveListed, ImportCustomers}, {CustomerList}, 3),
     View({EditProfile, SetPin}, {StaffMember}, 4),
     View({CreateStaff, ToggleStaff}, {StaffList}, 3),
     View({CreateExpense, EditExpense}, {ExpenseList}, 3),
     View({EditPromotion, TogglePromotion}, {PromotionList}, 3),
     View({CancelOrder, ReceiveGoods}, {OrderDetail}, 4),
     View({ReceiveGoods}, {OrderDetail, OrderList}, 4),
     View({CreateOrder}, {OrderList, VariantSearch}, 3),
     View({ApproveTake}, {TakeReview, PendingTakes}, 3),
     View({AdjustStock}, {LowStockCount, Movements}, 4),
     View({VoidSale, ReturnItems}, {SalesHistory}, 3),
     View({TenantActions}, {TenantDetail, TenantList}, 4),
     View({DeleteProduct}, {ProductSearch}, 4),
     View({Broadcast}, {Recipients}, 4)}

(* The session changes under a page with a form, and under one that only   *)
(* reads, where all roles may be.                                          *)
SessionViews ==
    {[View({CreateStaff}, {StaffList}, 2) EXCEPT !.session = TRUE],
     [View({}, {HeldSales}, 3) EXCEPT !.session = TRUE]}

MCViews == PairViews \cup LoneViews \cup MixedViews \cup SessionViews

(* Of these writes the form does not tell the reader: it invalidates other *)
(* keys, or none, or a key that is not the reader's, or the reader is not  *)
(* in the query cache.  What is shown stays as it was until it expires.    *)
StockKeys ==
    {<<"products", "list">>, <<"products", "one">>, <<"stock-kpi-valuation">>,
     <<"stock-kpi-low-stock">>, <<"stock-recent-movements">>,
     <<"stock-movements", "product">>, <<"stock-movements", "list">>,
     <<"product-search-adjust">>, <<"low-stock-list">>, <<"stock-valuation">>,
     <<"pos-products">>, <<"pos-products-search">>}
ProductKeys ==
    {<<"products", "list">>, <<"products", "one">>, <<"stock-kpi-products">>,
     <<"stock-kpi-valuation">>, <<"product-search-adjust">>,
     <<"stock-valuation">>, <<"pos-products">>, <<"pos-products-search">>,
     <<"variant-search">>}
Shown == {<<"products", "list">>, <<"products", "one">>}

Of(ids, keys) == ids \X keys
Untold ==
    Of({"create-product"}, (StockKeys \cup ProductKeys) \ Shown)
    \cup Of({"import-products"}, StockKeys \cup ProductKeys)
    \cup Of({"bulk-price-update"}, ProductKeys)
    \cup Of({"archive-product", "edit-variant"},
            ProductKeys \ {<<"products", "one">>})
    \cup Of({"delete-product"}, ProductKeys \ Shown)
    \cup Of({"adjust-stock"},
            StockKeys \ {<<"stock-kpi-low-stock">>,
                         <<"stock-recent-movements">>})
    \cup Of({"approve-take", "sell", "void-sale", "return-items",
             "receive-goods"}, StockKeys)
    \cup Of({"start-take", "complete-take", "approve-take", "reject-take"},
            {<<"stock-kpi-pending-takes">>, <<"stock-take-session">>})
    \cup Of({"start-take", "complete-take", "count-item"},
            {<<"stock-take-review">>})
    \cup Of({"sell", "void-sale"}, {<<"customer">>})
    \cup Of({"sell"}, {<<"pos-sales">>, <<"pos-sale-detail">>})
    \cup Of({"sell", "void-sale", "return-items"}, {<<"sale-detail-return">>})
    \cup Of({"return-items"}, {<<"returns">>})
    \cup Of({"hold-cart", "swap-carts"}, {<<"held-sales-count">>})
    \cup Of({"close-shift"}, {<<"pos-shift-current">>, <<"z-report">>})
    \cup Of({"save-customer", "save-listed", "import-customers"},
            {<<"recipients">>})
    \cup Of({"save-listed", "import-customers"}, {<<"customer">>})
    \cup Of({"save-supplier", "archive-supplier"},
            {<<"suppliers-filter-list">>, <<"suppliers-for-po-form">>})
    \cup Of({"receive-goods", "send-order", "create-order"},
            {<<"purchase-orders">>})
    \cup Of({"create-order"}, {<<"purchase-order">>})
    \cup Of({"create-staff", "toggle-staff"}, {<<"staff-member">>})
    \cup Of({"pay-commission"}, {<<"staff-commissions">>})
    \cup Of({"quick-category", "add-category", "rename-category",
             "delete-category"}, {<<"categories-for-promotions">>})
    \cup Of({"toggle-promotion"}, {<<"promotions">>})
    \cup Of({"save-hardware"}, {<<"hardware-settings">>})
    \cup Of({"save-plan", "delete-plan"}, {<<"billing-plans">>})
    \cup Of({"create-tenant", "tenant-actions"}, {<<"check-slug">>})
    \cup Of({"create-tenant"}, {<<"tenants">>, <<"tenant">>, <<"console">>})

(* Nothing more is excused: of each of these pairs the form writes what    *)
(* the reader shows, and does not tell it.                                 *)
ASSUME UntoldAssumption ==
    Untold \subseteq
        {<<f.id, r.key>> : <<f, r>> \in
            {q \in Forms \X Readers :
                /\ Overlap(q[1], q[2])
                /\ q[2].how = "raced" \/ ~Told(q[1], q[2].key)}}

MCRole == [ann |-> "OWNER", bob |-> "CASHIER",
           sue |-> "SUPER_ADMIN"]
=============================================================================
