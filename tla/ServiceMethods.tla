---------------------------- MODULE ServiceMethods ----------------------------
(***************************************************************************)
(* The methods of the services, of iikoServer and of iikoCloud, as far as    *)
(* they differ in what a caller can conclude from their results.            *)
(*                                                                         *)
(* Every one of them is one call of the transport between a check of its     *)
(* arguments and a judgement of the answer.                                 *)
(***************************************************************************)

\* speaks is the protocol of the endpoint: v2 JSON, a v1 document that carries <valid>,
\* any other v1 XML, iikoCloud's JSON.  reads says how far the method looks into the
\* answer: the whole of it, the first of a list that must not be empty, or nothing but
\* the status.  checks says whether it may fail before anything is sent: by conditions
\* of its own, or because PostV2 or encode cannot encode the arguments.
Protocols == {"v2", "document", "xml", "cloud"}

Method == [speaks : Protocols, reads : {"all", "first", "nothing"}, checks : BOOLEAN]

Checked(speaks, reads)   == [speaks |-> speaks, reads |-> reads, checks |-> TRUE]
Unchecked(speaks, reads) == [speaks |-> speaks, reads |-> reads, checks |-> FALSE]

\* documents; the first of these is a dry run, carried out when it has been computed
CheckInventory                == Checked("document", "all")
ImportIncomingInvoice         == Checked("document", "all")
ImportOutgoingInvoice         == Checked("document", "all")
ImportReturnedInvoice         == Checked("document", "all")
ImportProductionDocument      == Checked("document", "all")
ImportSalesDocument           == Unchecked("document", "all")
ImportIncomingInventory       == Checked("document", "all")
unprocess                     == Checked("document", "all")
ListDocuments                 == Checked("v2", "all")
DocumentByID                  == Checked("v2", "all")
ExportIncomingInvoices        == Unchecked("xml", "all")
ExportIncomingInvoiceByNumber == Checked("xml", "all")
ExportOutgoingInvoices        == Unchecked("xml", "all")
ExportOutgoingInvoiceByNumber == Checked("xml", "all")
DocumentsByNumber             == Checked("v2", "all")

DocumentsMethods ==
    {CheckInventory, ImportIncomingInvoice, ImportOutgoingInvoice,
     ImportReturnedInvoice, ImportProductionDocument, ImportSalesDocument,
     ImportIncomingInventory, unprocess, ListDocuments, DocumentByID,
     ExportIncomingInvoices, ExportIncomingInvoiceByNumber,
     ExportOutgoingInvoices, ExportOutgoingInvoiceByNumber, DocumentsByNumber}

\* cashshifts; the first of these is a GET that creates
ClosedSessionDocument == Checked("v2", "all")
AcceptShift           == Checked("v2", "all")
AddPayOut             == Checked("v2", "all")
PayInOutTypes         == Unchecked("v2", "all")
Payrolls              == Unchecked("v2", "all")
ListCashShifts        == Checked("v2", "all")
CashShiftByID         == Checked("v2", "all")
CashShiftPaymentsByID == Checked("v2", "all")

CashShiftsMethods ==
    {ClosedSessionDocument, AcceptShift, AddPayOut, PayInOutTypes, Payrolls,
     ListCashShifts, CashShiftByID, CashShiftPaymentsByID}

\* recipes
SaveChart    == Checked("v2", "all")
DeleteChart  == Checked("v2", "nothing")
ChartHistory == Checked("v2", "all")
ChartsGetAll == Unchecked("v2", "all")
chartFor     == Checked("v2", "all")
ChartByID    == Checked("v2", "all")

RecipesMethods ==
    {SaveChart, DeleteChart, ChartHistory, ChartsGetAll, chartFor, ChartByID}

\* nomenclature: products, the tree, menus, images, scales
ListProducts          == Checked("v2", "all")
QueryProducts         == Unchecked("v2", "all")
SaveProduct           == Checked("v2", "all")
UpdateProduct         == Checked("v2", "all")
DeleteProducts        == Checked("v2", "all")
RestoreProducts       == Checked("v2", "all")
ProductsXML           == Unchecked("xml", "all")
SearchProductsXML     == Unchecked("xml", "all")
FindProducts          == Unchecked("v2", "all")
ListGroups            == Unchecked("v2", "all")
QueryGroups           == Unchecked("v2", "all")
ListCategories        == Unchecked("v2", "all")
QueryCategories       == Unchecked("v2", "all")
SaveGroup             == Checked("v2", "all")
UpdateGroup           == Checked("v2", "all")
moveTree              == Checked("v2", "all")
SaveCategory          == Checked("v2", "all")
UpdateCategory        == Checked("v2", "all")
DeleteCategory        == Checked("v2", "all")
RestoreCategory       == Checked("v2", "all")
ListQuickMenus        == Unchecked("v2", "all")
QueryQuickMenus       == Unchecked("v2", "all")
SaveQuickMenu         == Checked("v2", "all")
UpdateQuickMenu       == Checked("v2", "all")
DeleteQuickMenu       == Checked("v2", "all")
LoadImage             == Checked("v2", "all")
SaveImage             == Checked("v2", "all")
DeleteImages          == Checked("v2", "all")
ListProductScales     == Unchecked("v2", "all")
QueryProductScales    == Unchecked("v2", "all")
ProductScaleByID      == Checked("v2", "all")
SaveProductScale      == Checked("v2", "all")
UpdateProductScale    == Checked("v2", "all")
scaleIDWrite          == Checked("v2", "all")
ProductScaleBinding   == Checked("v2", "all")
BindProductScale      == Checked("v2", "all")
UnbindProductScale    == Checked("v2", "nothing")
ProductScalesFor      == Unchecked("v2", "all")
QueryProductScalesFor == Unchecked("v2", "all")

NomenclatureMethods ==
    {ListProducts, QueryProducts, SaveProduct, UpdateProduct, DeleteProducts,
     RestoreProducts, ProductsXML, SearchProductsXML, FindProducts, ListGroups,
     QueryGroups, ListCategories, QueryCategories, SaveGroup, UpdateGroup,
     moveTree, SaveCategory, UpdateCategory, DeleteCategory, RestoreCategory,
     ListQuickMenus, QueryQuickMenus, SaveQuickMenu, UpdateQuickMenu,
     DeleteQuickMenu, LoadImage, SaveImage, DeleteImages, ListProductScales,
     QueryProductScales, ProductScaleByID, SaveProductScale, UpdateProductScale,
     scaleIDWrite, ProductScaleBinding, BindProductScale, UnbindProductScale,
     ProductScalesFor, QueryProductScalesFor}

\* pricing
ListPrices          == Checked("v2", "all")
ListMenuChanges     == Checked("v2", "all")
MenuChangeByID      == Checked("v2", "all")
MenuChangeByNumber  == Checked("v2", "all")
SaveMenuChange      == Checked("v2", "all")
ListPriceCategories == Unchecked("v2", "all")
PriceCategoryByID   == Checked("v2", "all")
ListPeriodSchedules == Unchecked("v2", "all")
PeriodScheduleByID  == Checked("v2", "all")

PricingMethods ==
    {ListPrices, ListMenuChanges, MenuChangeByID, MenuChangeByNumber,
     SaveMenuChange, ListPriceCategories, PriceCategoryByID, ListPeriodSchedules,
     PeriodScheduleByID}

\* staff; a created or edited shift is answered with the shift as stored
Schedules               == Checked("xml", "all")
Attendances             == Checked("xml", "all")
writeSchedule           == Checked("xml", "first")
writeAttendance         == Checked("xml", "first")
deleteByID              == Checked("xml", "nothing")
ScheduleTypes           == Unchecked("xml", "all")
AttendanceTypes         == Unchecked("xml", "all")
Availability            == Unchecked("xml", "all")
Employees               == Unchecked("xml", "all")
EmployeesByDepartment   == Checked("xml", "all")
SearchEmployees         == Checked("xml", "all")
employee                == Checked("xml", "all")
ReplaceEmployee         == Checked("xml", "all")
UpdateEmployee          == Checked("xml", "all")
Roles                   == Unchecked("xml", "all")
Salaries                == Unchecked("xml", "all")
SalaryByID              == Checked("xml", "all")
PaySalary               == Checked("xml", "nothing")
WaiterTeams             == Unchecked("xml", "all")
WaiterTeamsByDepartment == Checked("xml", "all")
SearchWaiterTeams       == Unchecked("xml", "all")
WaiterTeamByID          == Checked("xml", "all")
ReplaceWaiterTeamByCode == Checked("xml", "all")
Assignments             == Unchecked("xml", "all")
AssignmentsByDepartment == Checked("xml", "all")
ReplaceAssignments      == Unchecked("xml", "nothing")

StaffMethods ==
    {Schedules, Attendances, writeSchedule, writeAttendance, deleteByID,
     ScheduleTypes, AttendanceTypes, Availability, Employees,
     EmployeesByDepartment, SearchEmployees, employee, ReplaceEmployee,
     UpdateEmployee, Roles, Salaries, SalaryByID, PaySalary, WaiterTeams,
     WaiterTeamsByDepartment, SearchWaiterTeams, WaiterTeamByID,
     ReplaceWaiterTeamByCode, Assignments, AssignmentsByDepartment,
     ReplaceAssignments}

\* edi
SendInvoice    == Checked("xml", "nothing")
AckOrder       == Checked("xml", "nothing")
OrdersBySeller == Checked("xml", "all")
ListOrders     == Checked("xml", "all")
CreateOrder    == Checked("xml", "all")
UpdateOrder    == Checked("xml", "all")
moveOrders     == Checked("xml", "all")
RespondToOrder == Checked("xml", "all")

EdiMethods ==
    {SendInvoice, AckOrder, OrdersBySeller, ListOrders, CreateOrder, UpdateOrder,
     moveOrders, RespondToOrder}

\* events; sessions are handed back as they come
ListEvents      == Unchecked("xml", "all")
ListEventsSince == Unchecked("xml", "all")
FilterEvents    == Unchecked("xml", "all")
AddEvents       == Unchecked("xml", "all")
Metadata        == Unchecked("xml", "all")
FilterMetadata  == Unchecked("xml", "all")
ListSessions    == Unchecked("xml", "nothing")

EventsMethods ==
    {ListEvents, ListEventsSince, FilterEvents, AddEvents, Metadata,
     FilterMetadata, ListSessions}

\* corporation; settings and accounts are asked for under a second spelling of the path
\* when the first is answered with 404, which is one call here
Settings              == Unchecked("v2", "all")
ListReferenceEntities == Checked("v2", "all")
EntityIDs             == Checked("v2", "all")
SearchDepartments     == Unchecked("xml", "all")
SearchStores          == Unchecked("xml", "all")
SearchGroups          == Unchecked("xml", "all")
SearchTerminals       == Checked("xml", "all")
ReplicationStatuses   == Unchecked("v2", "all")
ReplicationStatus     == Checked("v2", "all")
listCorporate         == Checked("xml", "all")
listAccounts          == Unchecked("v2", "all")
ServerType            == Unchecked("xml", "nothing")

CorporationMethods ==
    {Settings, ListReferenceEntities, EntityIDs, SearchDepartments, SearchStores,
     SearchGroups, SearchTerminals, ReplicationStatuses, ReplicationStatus,
     listCorporate, listAccounts, ServerType}

\* suppliers
SuppliersList   == Unchecked("xml", "all")
SuppliersSearch == Checked("xml", "all")
Pricelist       == Checked("xml", "all")

SuppliersMethods ==
    {SuppliersList, SuppliersSearch, Pricelist}

\* reports; those of v1 are handed back as they come
Olap                 == Checked("v2", "all")
OlapFields           == Unchecked("v2", "all")
StoreBalances        == Unchecked("v2", "all")
OlapPresets          == Unchecked("v2", "all")
OlapPresetsByType    == Checked("v2", "all")
OlapByPresetID       == Checked("v2", "all")
CounteragentBalances == Unchecked("v2", "all")
EgaisMarks           == Unchecked("v2", "all")
SalesReport          == Unchecked("xml", "nothing")
ProductExpense       == Unchecked("xml", "nothing")
MonthlyIncomePlan    == Unchecked("xml", "nothing")
IngredientEntry      == Checked("xml", "nothing")
StoreOperations      == Checked("xml", "nothing")
StoreReportPresets   == Unchecked("xml", "nothing")
OlapV1               == Checked("xml", "nothing")
DeliveryReport       == Checked("xml", "nothing")

ReportsMethods ==
    {Olap, OlapFields, StoreBalances, OlapPresets, OlapPresetsByType,
     OlapByPresetID, CounteragentBalances, EgaisMarks, SalesReport,
     ProductExpense, MonthlyIncomePlan, IngredientEntry, StoreOperations,
     StoreReportPresets, OlapV1, DeliveryReport}

\* rest.Client itself
LicenceInfo == Unchecked("xml", "nothing")

LicenceMethods ==
    {LicenceInfo}

\* iikoCloud, where every method is a Post and a few have no out
customers             == Checked("cloud", "all")
employees             == Checked("cloud", "all")
employeeCreation      == Checked("cloud", "nothing")
finance               == Checked("cloud", "all")
financeCreation       == Checked("cloud", "nothing")
inventoryPayment      == Checked("cloud", "nothing")
inventoryCancellation == Checked("cloud", "all")
inventoryCreation     == Checked("cloud", "nothing")
inventoryReading      == Checked("cloud", "all")
inventoryListing      == Checked("cloud", "all")
inventoryPosting      == Checked("cloud", "all")
inventoryUpdate       == Checked("cloud", "all")
menuCreation          == Checked("cloud", "nothing")
menuReading           == Checked("cloud", "all")
menuUpdate            == Checked("cloud", "all")
orderCommands         == Checked("cloud", "all")
orderReading          == Checked("cloud", "all")
orderHandling         == Checked("cloud", "all")
trackingLinks         == Checked("cloud", "nothing")
organizations         == Checked("cloud", "all")
webhooks              == Checked("cloud", "all")

CloudMethods ==
    {customers, employees, employeeCreation, finance, financeCreation,
     inventoryPayment, inventoryCancellation, inventoryCreation, inventoryReading,
     inventoryListing, inventoryPosting, inventoryUpdate, menuCreation,
     menuReading, menuUpdate, orderCommands, orderReading, orderHandling,
     trackingLinks, organizations, webhooks}

Methods ==
    DocumentsMethods \cup CashShiftsMethods \cup RecipesMethods \cup
    NomenclatureMethods \cup PricingMethods \cup StaffMethods \cup EdiMethods \cup
    EventsMethods \cup CorporationMethods \cup SuppliersMethods \cup
    ReportsMethods \cup LicenceMethods \cup CloudMethods
===============================================================================
